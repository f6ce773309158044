------------------------------ MODULE Handoff ------------------------------
(***************************************************************************)
(* One report slot and the launches that a project manager dispatches into *)
(* it one after the other: dispatch clears the slot and announces a launch,*)
(* a detached supervisor starts the wrapper and drains its output pipe,    *)
(* the wrapper waits for the assignee, the assignee writes the report, and *)
(* the manager observes the slot until it is terminal and routes the bytes *)
(* it accepted.                                                            *)
(*                                                                         *)
(* The slot is three files, read and written independently: the report,    *)
(* its .status and its .launch.log.  A report is who wrote it, in which    *)
(* revision, and whether the observer parses it as complete; exit codes,   *)
(* verdicts and the text of the log do not matter here.  Timers (polls,    *)
(* grace, deadlines) are steps that may be taken at any time.              *)
(***************************************************************************)
EXTENDS Naturals

CONSTANTS NLaunch,    \* launches the manager may start
          MaxRev,     \* bound on the writes of one launch to its report
          Logs,       \* whether the launch log's path may be unusable or usable
          LateWriters,\* a background process the assignee leaves may write the report
          Eager,      \* the manager dispatches as soon as a wait was terminal
          Losable     \* who may fail or be killed: "supervisor", "wrapper", "dispatch"

ASSUME HandoffAssumption ==
    /\ NLaunch \in Nat /\ MaxRev \in Nat
    /\ Logs \subseteq BOOLEAN
    /\ LateWriters \in BOOLEAN /\ Eager \in BOOLEAN
    /\ Losable \subseteq {"supervisor", "wrapper", "dispatch"}

VARIABLES
    report,     \* the report file
    status,     \* the .status file
    snapshot,   \* the launch whose .launch.log is published, 0 when there is none
    sup,        \* the supervisor of each launch
    wrap,       \* its wrapper
    asg,        \* its assignee
    surv,       \* a background process its assignee left
    staged,     \* the assignee writes a staged report that the wrapper publishes
    stage,      \* the staged report
    rev,        \* revisions written so far
    logged,     \* the launch has a usable log path (guarantee_scope)
    pm,         \* what the manager does next
    cur,        \* the latest launch, 0 before the first
    seen,       \* what the observation in progress has read: status and report
    accepted,   \* the report that the last terminal observation named
    routed      \* the report that report-action acted on

slot == <<report, status, snapshot>>
procs == <<sup, wrap, asg, surv, staged, stage, rev, logged>>
manager == <<pm, cur, seen, accepted, routed>>
vars == <<slot, procs, manager>>

Launch == 1..NLaunch

NoReport == [by |-> 0, rev |-> 0, whole |-> FALSE]
Reports  == {NoReport} \cup [by : Launch, rev : 1..MaxRev, whole : BOOLEAN]
NoStatus == [launch |-> 0, state |-> "none"]
Statuses == {NoStatus} \cup [launch : Launch, state : {"running", "exited"}]
Nothing  == [by |-> 0, rev |-> 0, whole |-> TRUE]    \* no terminal observation yet

Complete(r) == r # NoReport /\ r # Nothing /\ r.whole

Init ==
    /\ report = NoReport /\ status = NoStatus /\ snapshot = 0
    /\ sup = [l \in Launch |-> "none"]
    /\ wrap = [l \in Launch |-> "none"]
    /\ asg = [l \in Launch |-> "none"]
    /\ surv = [l \in Launch |-> "none"]
    /\ staged = [l \in Launch |-> FALSE]
    /\ stage = [l \in Launch |-> NoReport]
    /\ rev = [l \in Launch |-> 0]
    /\ logged = [l \in Launch |-> FALSE]
    /\ pm = "idle" /\ cur = 0
    /\ seen = [status |-> NoStatus, report |-> NoReport]
    /\ accepted = Nothing /\ routed = Nothing

\* Someone of the launch still holds the wrapper's output pipe.
PipeHeld(l) == wrap[l] \notin {"none", "gone"} \/ asg[l] = "alive" \/ surv[l] = "alive"

\* Nothing of the launch is left.
Over(l) == sup[l] \in {"none", "done", "lost"} /\ ~PipeHeld(l)

-----------------------------------------------------------------------------
(* dispatch: clear the slot, announce the launch, start its supervisor *)

ClearReport ==
    /\ pm \in {"idle", "routed"}
    /\ cur < NLaunch
    /\ cur # 0 => Over(cur) \/ (Eager /\ accepted # Nothing)
    /\ cur' = cur + 1
    /\ report' = NoReport
    /\ accepted' = Nothing /\ routed' = Nothing
    /\ pm' = "clearStatus"
    /\ UNCHANGED <<status, snapshot, procs, seen>>

ClearStatus ==
    /\ pm = "clearStatus"
    /\ status' = NoStatus
    /\ pm' = "clearLog"
    /\ UNCHANGED <<report, snapshot, procs, cur, seen, accepted, routed>>

\* Mutant of ClearLog: the log of the previous launch is left in place.
ClearLogKept ==
    /\ pm = "clearLog"
    /\ \E usable \in Logs : logged' = [logged EXCEPT ![cur] = usable]
    /\ pm' = "announce"
    /\ UNCHANGED <<slot, sup, wrap, asg, surv, staged, stage, rev, cur, seen, accepted, routed>>

\* usable_log_path removes the log of the previous launch, or gives up on logs.
ClearLog ==
    /\ pm = "clearLog"
    /\ \E usable \in Logs :
          /\ logged' = [logged EXCEPT ![cur] = usable]
          /\ snapshot' = IF usable THEN 0 ELSE snapshot
    /\ pm' = "announce"
    /\ UNCHANGED <<report, status, sup, wrap, asg, surv, staged, stage, rev,
                   cur, seen, accepted, routed>>

Running(l) == [launch |-> l, state |-> "running"]
Exited(l)  == [launch |-> l, state |-> "exited"]

Announce ==
    /\ pm = "announce"
    /\ status' = Running(cur)
    /\ pm' = "spawn"
    /\ UNCHANGED <<report, snapshot, procs, cur, seen, accepted, routed>>

Spawn ==
    /\ pm = "spawn"
    /\ \E st \in BOOLEAN : staged' = [staged EXCEPT ![cur] = st]
    /\ sup' = [sup EXCEPT ![cur] = "watch"]
    /\ wrap' = [wrap EXCEPT ![cur] = "run"]
    /\ asg' = [asg EXCEPT ![cur] = "alive"]
    /\ pm' = "wait"
    /\ UNCHANGED <<slot, surv, stage, rev, logged, cur, seen, accepted, routed>>

\* The supervisor starts but cannot start the wrapper: it publishes the failure.
WrapperLaunchFailed ==
    /\ pm = "spawn"
    /\ sup' = [sup EXCEPT ![cur] = "log"]
    /\ pm' = "wait"
    /\ UNCHANGED <<slot, wrap, asg, surv, staged, stage, rev, logged, cur, seen, accepted, routed>>

\* The supervisor cannot be started: dispatch removes its own running marker.
SupervisorLaunchFailed ==
    /\ pm = "spawn"
    /\ status' = IF status = Running(cur) THEN NoStatus ELSE status
    /\ pm' = "idle"
    /\ UNCHANGED <<report, snapshot, procs, cur, seen, accepted, routed>>

DispatchLost ==
    /\ "dispatch" \in Losable
    /\ pm \in {"clearStatus", "clearLog", "announce", "spawn"}
    /\ pm' = "idle"
    /\ UNCHANGED <<slot, procs, cur, seen, accepted, routed>>

Dispatch ==
    \/ ClearReport \/ ClearStatus \/ ClearLog \/ Announce
    \/ Spawn \/ WrapperLaunchFailed \/ SupervisorLaunchFailed \/ DispatchLost

-----------------------------------------------------------------------------
(* The assignee, and the background process it may leave *)

\* One write of the report: to the slot or, when staged, to the staging file; the
\* sandbox of a staged launch lets only the assignee's own tools reach the slot.
\* A write that is not atomic leaves a report that is not whole yet.
WriteReport(l) ==
    /\ asg[l] = "alive" \/ (LateWriters /\ surv[l] = "alive")
    /\ rev[l] < MaxRev
    /\ rev' = [rev EXCEPT ![l] = @ + 1]
    /\ \E whole \in BOOLEAN :
          LET new == [by |-> l, rev |-> rev[l] + 1, whole |-> whole]
          IN  \/ /\ asg[l] = "alive" \/ ~staged[l]
                 /\ report' = new /\ UNCHANGED stage
              \/ /\ staged[l]
                 /\ stage' = [stage EXCEPT ![l] = new] /\ UNCHANGED report
    /\ UNCHANGED <<status, snapshot, sup, wrap, asg, surv, staged, logged, manager>>

LeaveSurvivor(l) ==
    /\ asg[l] = "alive" /\ surv[l] = "none"
    /\ surv' = [surv EXCEPT ![l] = "alive"]
    /\ UNCHANGED <<slot, sup, wrap, asg, staged, stage, rev, logged, manager>>

\* On its own, reaped after its report, at its deadline, or killed.
AssigneeExit(l) ==
    /\ asg[l] = "alive"
    /\ asg' = [asg EXCEPT ![l] = "gone"]
    /\ UNCHANGED <<slot, sup, wrap, surv, staged, stage, rev, logged, manager>>

SurvivorExit(l) ==
    /\ surv[l] = "alive"
    /\ surv' = [surv EXCEPT ![l] = "none"]
    /\ UNCHANGED <<slot, sup, wrap, asg, staged, stage, rev, logged, manager>>

-----------------------------------------------------------------------------
(* The wrapper *)

\* wait "$child" returns only when the assignee is gone.
AssigneeWaited(l) ==
    /\ wrap[l] = "run"
    /\ asg[l] = "gone"
    /\ wrap' = [wrap EXCEPT ![l] = IF staged[l] THEN "publish" ELSE "status"]
    /\ UNCHANGED <<slot, sup, asg, surv, staged, stage, rev, logged, manager>>

\* The staged report is published by the mediated writer, which may refuse; the
\* staging directory goes either way.
PublishStaged(l) ==
    /\ wrap[l] = "publish"
    /\ report' \in IF stage[l] = NoReport THEN {report} ELSE {report, stage[l]}
    /\ stage' = [stage EXCEPT ![l] = NoReport]
    /\ wrap' = [wrap EXCEPT ![l] = "status"]
    /\ UNCHANGED <<status, snapshot, sup, asg, surv, staged, rev, logged, manager>>

\* cartopian_write_status, best effort, whoever's status is there; then exit.
WriteStatus(l) ==
    /\ wrap[l] = "status"
    /\ \/ status' = Exited(l)
       \/ "wrapper" \in Losable /\ UNCHANGED status
    /\ wrap' = [wrap EXCEPT ![l] = "gone"]
    /\ UNCHANGED <<report, snapshot, sup, asg, surv, staged, stage, rev, logged, manager>>

WrapperLost(l) ==
    /\ "wrapper" \in Losable
    /\ wrap[l] \in {"run", "publish", "status"}
    /\ wrap' = [wrap EXCEPT ![l] = "gone"]
    /\ UNCHANGED <<slot, sup, asg, surv, staged, stage, rev, logged, manager>>

WrapperStep(l) == AssigneeWaited(l) \/ PublishStaged(l) \/ WriteStatus(l)

-----------------------------------------------------------------------------
(* The supervisor *)

SeeReport(l) ==
    /\ sup[l] = "watch"
    /\ Complete(report)
    /\ sup' = [sup EXCEPT ![l] = "grace"]
    /\ UNCHANGED <<slot, wrap, asg, surv, staged, stage, rev, logged, manager>>

\* _terminate_process_tree: the wrapper is gone, or termination failed.
Reap(l) ==
    /\ sup[l] = "grace"
    /\ sup' = [sup EXCEPT ![l] = "drain"]
    /\ \E left \in {wrap[l], "gone"} : wrap' = [wrap EXCEPT ![l] = left]
    /\ UNCHANGED <<slot, asg, surv, staged, stage, rev, logged, manager>>

\* Mutant of PipeClosed: only a complete report ends the supervision.
PipeClosedAfterReport(l) ==
    /\ sup[l] = "drain"
    /\ ~PipeHeld(l)
    /\ sup' = [sup EXCEPT ![l] = "log"]
    /\ UNCHANGED <<slot, wrap, asg, surv, staged, stage, rev, logged, manager>>

\* End of file on the output pipe, while watching, in the grace or draining.
PipeClosed(l) ==
    /\ sup[l] \in {"watch", "grace", "drain"}
    /\ ~PipeHeld(l)
    /\ sup' = [sup EXCEPT ![l] = "log"]
    /\ UNCHANGED <<slot, wrap, asg, surv, staged, stage, rev, logged, manager>>

\* _publish_log, best effort
PublishLog(l) ==
    /\ sup[l] = "log"
    /\ snapshot' \in IF logged[l] THEN {l, snapshot} ELSE {snapshot}
    /\ sup' = [sup EXCEPT ![l] = "status"]
    /\ UNCHANGED <<report, status, wrap, asg, surv, staged, stage, rev, logged, manager>>

\* _publish_exit_status replaces whatever status is there.
PublishExitStatus(l) ==
    /\ sup[l] = "status"
    /\ status' = Exited(l)
    /\ sup' = [sup EXCEPT ![l] = "done"]
    /\ UNCHANGED <<report, snapshot, wrap, asg, surv, staged, stage, rev, logged, manager>>

SupervisorLost(l) ==
    /\ "supervisor" \in Losable
    /\ sup[l] \in {"watch", "grace", "drain", "log", "status"}
    /\ sup' = [sup EXCEPT ![l] = "lost"]
    /\ UNCHANGED <<slot, wrap, asg, surv, staged, stage, rev, logged, manager>>

SupervisorStep(l) ==
    SeeReport(l) \/ Reap(l) \/ PipeClosed(l) \/ PublishLog(l) \/ PublishExitStatus(l)

-----------------------------------------------------------------------------
(* The manager waits: observe_once reads the status, the report and, when a   *)
(* complete report is pending, the presence of the launch log, in that order. *)

Observing(label, st, rp) ==
    /\ pm' = label
    /\ seen' = [status |-> st, report |-> rp]
    /\ UNCHANGED <<slot, procs, cur, routed>>

ReadStatus ==
    /\ pm = "wait"
    /\ Observing("readReport", status, NoReport)
    /\ UNCHANGED accepted

NotTerminal == Observing("wait", NoStatus, NoReport) /\ UNCHANGED accepted

Terminal(r) == Observing("accepted", NoStatus, NoReport) /\ accepted' = r

\* A complete report is pending while the status says running, any other is
\* terminal once the status says exited.
ReadReport ==
    /\ pm = "readReport"
    /\ IF Complete(report)
       THEN IF seen.status.state # "running" THEN Terminal(report)
            ELSE IF logged[seen.status.launch]
                 THEN Observing("readLog", seen.status, report) /\ UNCHANGED accepted
                 ELSE NotTerminal
       ELSE IF seen.status.state = "exited" THEN Terminal(report) ELSE NotTerminal

\* _retained_snapshot_published: a log in the slot proves the writer gone.
ReadLog ==
    /\ pm = "readLog"
    /\ IF snapshot # 0 THEN Terminal(seen.report) ELSE NotTerminal

\* The deadline of the wait passes (still-running, timeout) ...
WaitEnds ==
    /\ pm = "wait"
    /\ pm' = "idle"
    /\ UNCHANGED <<slot, procs, cur, seen, accepted, routed>>

\* ... and the manager may wait again on the same launch.
WaitAgain ==
    /\ pm = "idle" /\ cur # 0
    /\ pm' = "wait"
    /\ accepted' = Nothing
    /\ UNCHANGED <<slot, procs, cur, seen, routed>>

Wait == ReadStatus \/ ReadReport \/ ReadLog \/ WaitEnds \/ WaitAgain

-----------------------------------------------------------------------------
(* The manager routes what it accepted, and clears the slot when done *)

\* Mutant of Route: the identity of the accepted bytes is not passed.
RouteUnbound ==
    /\ pm = "accepted"
    /\ IF ~Complete(accepted)
       THEN pm' = "idle" /\ UNCHANGED <<accepted, routed>>
       ELSE pm' = "routed" /\ routed' = accepted /\ UNCHANGED accepted
    /\ UNCHANGED <<slot, procs, cur, seen>>

\* report-action --expected-identity refuses other bytes: the wait is rerun.
Route ==
    /\ pm = "accepted"
    /\ IF ~Complete(accepted)
       THEN pm' = "idle" /\ UNCHANGED <<accepted, routed>>
       ELSE IF report = accepted
            THEN pm' = "routed" /\ routed' = accepted /\ UNCHANGED accepted
            ELSE pm' = "wait" /\ accepted' = Nothing /\ UNCHANGED routed
    /\ UNCHANGED <<slot, procs, cur, seen>>

\* delete-report: the companions first, then the report.
DeleteStatus ==
    /\ pm = "routed"
    /\ status' = NoStatus
    /\ pm' = "deleteLog"
    /\ UNCHANGED <<report, snapshot, procs, cur, seen, accepted, routed>>

DeleteLog ==
    /\ pm = "deleteLog"
    /\ snapshot' = 0
    /\ pm' = "deleteReport"
    /\ UNCHANGED <<report, status, procs, cur, seen, accepted, routed>>

DeleteReport ==
    /\ pm = "deleteReport"
    /\ report' = NoReport
    /\ accepted' = Nothing /\ routed' = Nothing
    /\ pm' = "idle"
    /\ UNCHANGED <<status, snapshot, procs, cur, seen>>

Settle == Route \/ DeleteStatus \/ DeleteLog \/ DeleteReport

LaunchStep(l) ==
    \/ WriteReport(l) \/ LeaveSurvivor(l) \/ AssigneeExit(l) \/ SurvivorExit(l)
    \/ WrapperStep(l) \/ WrapperLost(l)
    \/ SupervisorStep(l) \/ SupervisorLost(l)

Next == Dispatch \/ Wait \/ Settle \/ \E l \in Launch : LaunchStep(l)

\* Supervisor and wrapper are scheduled; the deadline enforcer ends an assignee.
Fairness ==
    \A l \in Launch :
        /\ WF_vars(SupervisorStep(l)) /\ WF_vars(WrapperStep(l))
        /\ WF_vars(AssigneeExit(l))

Spec == Init /\ [][Next]_vars /\ Fairness

-----------------------------------------------------------------------------
(* Properties *)

\* What report-action routed stays the report: its writers were gone when the
\* observation was terminal, and bytes rewritten between the reads of that
\* observation are refused by the identity.  Whoever crashes.
RoutedFinal == routed # Nothing => report = routed

\* A terminal observation ends the launch it was made for: its assignee is not
\* running any more, so no second launch can meet it.  CONVENTIONS: "A stale or
\* variant-mismatched status cannot terminate or delay a new handoff"; that much
\* needs a manager who lets the launch before be wound up (Eager = FALSE).
TerminalMeansGone == accepted # Nothing => asg[cur] # "alive"

\* A launch cannot be stranded in running: unless its supervisor dies or a
\* background process keeps the pipe open, the status it announced is replaced,
\* however its wrapper and assignee end.
RunningEnds ==
    \A l \in Launch :
        (sup[l] # "none" /\ status = Running(l))
            ~> (status # Running(l) \/ sup[l] = "lost" \/ surv[l] = "alive")
=============================================================================
