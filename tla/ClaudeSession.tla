---------------------------- MODULE ClaudeSession ----------------------------
(***************************************************************************)
(* One native Claude launch, from its wrapper's preparation to the status  *)
(* the wrapper writes.  The assignee works in turns; at the end of a turn  *)
(* the Stop hook lets it go or sends it back for the report it owes.  A    *)
(* watcher beside it reaps it once a report looks complete, the deadline   *)
(* may end it before, and what it staged outside the project is published  *)
(* by the wrapper when it is gone.                                         *)
(*                                                                         *)
(* A report is absent, partial, plausible (it has every part the shell     *)
(* watcher looks for, but the parser refuses it) or complete.  Handoff has *)
(* the launch seen from outside: its slot, its status and its supervisor.  *)
(***************************************************************************)
EXTENDS Naturals

CONSTANTS Ceilings,   \* values CARTOPIAN_STOP_GUARD_MAX_BLOCKS may have
          MaxWrites   \* bound on the writes of one launch

VARIABLES
    launch,    \* how it was made: see Init
    slot,      \* the report at its place in the project: its quality and revision
    stage,     \* the candidate in the staging directory, likewise
    claude,    \* the assignee: none, work, stop (a Stop event is pending), gone
    nudged,    \* stop_hook_active: this turn goes on because a stop was blocked
    counted,   \* the blocks in the guard's counter file
    child,     \* a background process of the assignee: none, alive
    watcher,   \* off, poll, grace
    wrapper,   \* what the wrapper does next
    raw,       \* how the assignee ended
    done,      \* CARTOPIAN_REPORT_DONE
    published, \* the candidate that was published, absent when none was
    exit,      \* the exit code the wrapper surfaces
    writes

report  == <<slot, stage>>
session == <<claude, nudged, counted, child>>
outcome == <<raw, done, published, exit>>
vars    == <<launch, report, session, watcher, wrapper, outcome, writes>>

-----------------------------------------------------------------------------
(* The two readers of a report *)

Absent == [is |-> "absent", rev |-> 0]

\* observe_report, which the Stop hook asks
Finished(r) == r.is = "complete"

\* cartopian_report_complete: the parts are there, their agreement is not asked.
LooksComplete(r) == r.is \in {"plausible", "complete"}

\* cartopian_handoff_report_complete
ReportSeen == LooksComplete(slot) \/ (launch.staging /\ LooksComplete(stage))

-----------------------------------------------------------------------------
(* The wrapper starts the assignee *)

Init ==
    /\ launch \in [staging : BOOLEAN,    \* activated, with write:reports
                   enforced : BOOLEAN,   \* timeout exists, and leads a process group
                   attended : BOOLEAN,   \* interactive
                   ceiling : Ceilings]
    /\ slot = Absent /\ stage = Absent
    /\ claude = "none" /\ nudged = FALSE /\ counted = 0 /\ child = "none"
    /\ watcher = "off" /\ wrapper = "start"
    /\ raw = "ok" /\ done = FALSE /\ published = Absent /\ exit = "ok"
    /\ writes = 0

\* Settings are refused, or the version is not known: the trap discards the
\* staging directory, and nothing is published.
LaunchFails ==
    /\ wrapper = "start"
    /\ wrapper' = "failed" /\ exit' = "error"
    /\ UNCHANGED <<launch, report, session, watcher, raw, done, published, writes>>

Discard ==
    /\ wrapper = "failed"
    /\ wrapper' = "ended"
    /\ UNCHANGED <<launch, report, session, watcher, outcome, writes>>

Start ==
    /\ wrapper = "start"
    /\ claude' = "work" /\ wrapper' = "run"
    /\ watcher' = IF launch.attended THEN "off" ELSE "poll"
    /\ UNCHANGED <<launch, report, nudged, counted, child, outcome, writes>>

-----------------------------------------------------------------------------
(* The assignee *)

Written == [is : {"partial", "plausible", "complete"}, rev : {writes + 1}]

\* With the Write tool at the slot, or with a command in the staging directory;
\* not every write is the last one.
WriteReport ==
    /\ claude = "work" /\ writes < MaxWrites
    /\ writes' = writes + 1
    /\ \/ slot' \in Written /\ UNCHANGED stage
       \/ launch.staging /\ stage' \in Written /\ UNCHANGED slot
    /\ UNCHANGED <<launch, session, watcher, wrapper, outcome>>

StartBackground ==
    /\ claude = "work" /\ child = "none"
    /\ child' = "alive"
    /\ UNCHANGED <<launch, report, claude, nudged, counted, watcher, wrapper, outcome, writes>>

\* The sandbox denies a background process the project, not the staging directory.
BackgroundWrites ==
    /\ child = "alive" /\ launch.staging /\ writes < MaxWrites
    /\ wrapper \in {"run", "reap", "report"}
    /\ writes' = writes + 1
    /\ stage' \in Written
    /\ UNCHANGED <<launch, slot, session, watcher, wrapper, outcome>>

EndTurn ==
    /\ claude = "work"
    /\ claude' = "stop"
    /\ UNCHANGED <<launch, report, nudged, counted, child, watcher, wrapper, outcome, writes>>

\* An API error, the deadline, or a killed session: no Stop event.
Cut ==
    /\ claude \in {"work", "stop"}
    /\ claude' = "gone"
    /\ raw' \in {"error"} \cup (IF launch.enforced THEN {"timeout"} ELSE {})
    /\ UNCHANGED <<launch, report, nudged, counted, child, watcher, wrapper, done, published, exit, writes>>

-----------------------------------------------------------------------------
(* The Stop hook *)

Allow(count) ==
    /\ claude' = "gone" /\ raw' = "ok" /\ counted' = count
    /\ UNCHANGED nudged

Block(count) ==
    /\ claude' = "work" /\ nudged' = TRUE /\ counted' = count
    /\ UNCHANGED raw

\* main: an unreadable payload or any other failure allows the stop.
FailOpen == Allow(counted)

\* The file of another session counts as none.
Exhausted == counted >= launch.ceiling

\* Mutant of Guard: a count that cannot be kept does not end the intervention.
GuardUnbounded ==
    /\ claude = "stop"
    /\ \/ FailOpen
       \/ IF Finished(slot) \/ (launch.staging /\ Finished(stage)) THEN Allow(0)
          ELSE IF launch.ceiling = 0 THEN Allow(counted)
          ELSE IF Exhausted THEN Allow(0)
          ELSE Block(counted + 1) \/ Block(counted)
    /\ UNCHANGED <<launch, report, child, watcher, wrapper, done, published, exit, writes>>

\* evaluate.  The counter may be impossible to write, and
\* then only the first stop can be blocked.
Guard ==
    /\ claude = "stop"
    /\ \/ FailOpen
       \/ IF Finished(slot) \/ (launch.staging /\ Finished(stage)) THEN Allow(0)
          ELSE IF launch.ceiling = 0 THEN Allow(counted)
          ELSE IF Exhausted THEN Allow(0)
          ELSE Block(counted + 1) \/ (IF nudged THEN Allow(counted) ELSE Block(counted))
    /\ UNCHANGED <<launch, report, child, watcher, wrapper, done, published, exit, writes>>

-----------------------------------------------------------------------------
(* The watcher *)

SeeReport ==
    /\ watcher = "poll" /\ ReportSeen
    /\ watcher' = "grace"
    /\ UNCHANGED <<launch, report, session, wrapper, outcome, writes>>

\* After the grace: TERM and KILL, to the process group when there is one.
ReapChild ==
    /\ watcher = "grace" /\ launch.enforced /\ child = "alive"
    /\ child' = "none"
    /\ UNCHANGED <<launch, report, claude, nudged, counted, watcher, wrapper, outcome, writes>>

Reap ==
    /\ watcher = "grace" /\ ~(launch.enforced /\ child = "alive")
    /\ watcher' = "off"
    /\ IF claude = "gone" THEN UNCHANGED <<claude, raw>>
                          ELSE claude' = "gone" /\ raw' = "error"
    /\ UNCHANGED <<launch, report, nudged, counted, child, wrapper, done, published, exit, writes>>

-----------------------------------------------------------------------------
(* The wrapper, once the assignee is gone *)

\* Mutant of Waited: a wait cut short by a forwarded TERM is taken for the end.
WaitedOnce ==
    /\ wrapper = "run" /\ claude # "none"
    /\ watcher' = "off"
    /\ done' = (ReportSeen /\ ~launch.attended)
    /\ exit' = IF done' THEN "ok" ELSE raw
    /\ wrapper' = IF launch.staging THEN "reap" ELSE "status"
    /\ UNCHANGED <<launch, report, session, raw, published, writes>>

\* wait returned; the report decides, not how a lingering child was ended.
Waited ==
    /\ wrapper = "run" /\ claude = "gone"
    /\ watcher' = "off"
    /\ done' = (ReportSeen /\ ~launch.attended)
    /\ exit' = IF done' THEN "ok" ELSE raw
    /\ wrapper' = IF launch.staging THEN "reap" ELSE "status"
    /\ UNCHANGED <<launch, report, session, raw, published, writes>>

\* Descendants are stopped before their candidate is read.
ReapGroup ==
    /\ wrapper = "reap"
    /\ child' = IF child = "alive" /\ launch.enforced /\ ~launch.attended THEN "none" ELSE child
    /\ wrapper' = "report"
    /\ UNCHANGED <<launch, report, claude, nudged, counted, watcher, outcome, writes>>

\* The directory goes, however publishing went.
Published ==
    /\ wrapper' = "status"
    /\ stage' = Absent

\* A refused publication surfaces as a failed launch.
Refused ==
    /\ exit' = IF exit = "ok" THEN "error" ELSE exit
    /\ UNCHANGED <<slot, published>>

\* Mutant of PublishReport: the wrapper does not look at how publishing went.
PublishReportQuietly ==
    /\ wrapper = "report" /\ Published
    /\ \/ /\ slot' = IF stage = Absent THEN slot ELSE stage
          /\ published' = stage
       \/ UNCHANGED <<slot, published>>
    /\ UNCHANGED <<launch, session, watcher, raw, done, exit, writes>>

\* Whatever was staged is published, over whatever is in the slot.  A refusal may
\* be of the launch's contract, of the candidate or of the review that goes first.
PublishReport ==
    /\ wrapper = "report" /\ Published
    /\ \/ /\ slot' = IF stage = Absent THEN slot ELSE stage
          /\ published' = stage
          /\ UNCHANGED exit
       \/ Refused
    /\ UNCHANGED <<launch, session, watcher, raw, done, writes>>

WriteStatus ==
    /\ wrapper = "status"
    /\ wrapper' = "ended"
    /\ UNCHANGED <<launch, report, session, watcher, outcome, writes>>

Publish == Waited \/ ReapGroup \/ PublishReport \/ WriteStatus

Next == \/ LaunchFails \/ Discard \/ Start
        \/ WriteReport \/ StartBackground \/ BackgroundWrites \/ EndTurn \/ Cut
        \/ Guard \/ SeeReport \/ ReapChild \/ Reap \/ Publish

\* A turn ends, Claude Code runs its hook, the wrapper is scheduled: never two of
\* them at a time.  Neither watcher nor deadline is counted on.
Progress == EndTurn \/ Guard \/ Publish

Spec == Init /\ [][Next]_vars /\ WF_vars(Progress)

-----------------------------------------------------------------------------
(* Properties *)

\* The guard cannot strand a session: one that goes on ending its turns is let
\* go without a report, whether or not its counter can be written, and with no
\* deadline to help.
SessionEnds == claude = "work" ~> wrapper = "ended"

\* A launch that ends well because a report was seen leaves one in its slot,
\* or has itself staged something less over it.
SuccessHasReport ==
    (wrapper = "ended" /\ done /\ exit = "ok")
        => LooksComplete(slot) \/ (published # Absent /\ ~LooksComplete(published))

-----------------------------------------------------------------------------
(* The same launch, seen from outside *)

Outside(r) == IF r = Absent THEN [by |-> 0, rev |-> 0, whole |-> FALSE]
              ELSE [by |-> 1, rev |-> r.rev, whole |-> Finished(r)]

AsgOf   == IF claude = "gone" \/ (claude = "none" /\ wrapper # "start") THEN "gone" ELSE "alive"
WrapOf  == CASE wrapper \in {"start", "failed", "run"}      -> "run"
             [] wrapper \in {"reap", "report"}              -> "publish"
             [] wrapper = "status"                          -> "status"
             [] OTHER                                       -> "gone"
StateOf == IF wrapper = "ended" /\ claude # "none" THEN "exited" ELSE "running"

\* Handoff's one launch, already spawned, its supervisor and manager waiting.
H == INSTANCE Handoff WITH
       NLaunch <- 1, MaxRev <- MaxWrites, Logs <- {FALSE}, LateWriters <- TRUE,
       Eager <- FALSE, Losable <- {"wrapper"},
       report <- Outside(slot), status <- [launch |-> 1, state |-> StateOf], snapshot <- 0,
       sup <- <<"watch">>, wrap <- <<WrapOf>>, asg <- <<AsgOf>>, surv <- <<child>>,
       staged <- <<launch.staging>>, stage <- <<Outside(stage)>>, rev <- <<writes>>,
       logged <- <<FALSE>>,
       pm <- "wait", cur <- 1, seen <- 0, accepted <- 0, routed <- 0

\* Every step of the session is a step of Handoff's launch, or changes nothing
\* that Handoff looks at: what is checked there of reports, statuses and
\* writers that are gone holds of this wrapper, its guard and its watcher.
ActsAsLaunch == [][H!LaunchStep(1)]_<<H!slot, H!procs>>
=============================================================================
