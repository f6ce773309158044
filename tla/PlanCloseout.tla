---------------------------- MODULE PlanCloseout ----------------------------
(***************************************************************************)
(* The life of one plan's evidence: the prompt-effectiveness ledger that   *)
(* prompts, moves, review intake and report routing append to, the archive *)
(* that closes a plan's window, and the reset that clears its files so     *)
(* that the next plan can use the same ids.                                *)
(*                                                                         *)
(* A ledger line is a record, or what a short write leaves: a torn tail,   *)
(* which the next append turns into junk together with itself.  The        *)
(* provenance journal outlives every plan; of it the model keeps, for each *)
(* unit, what boundary_expectations counts in it.                          *)
(***************************************************************************)
EXTENDS Naturals, Sequences, SequencesExt, FiniteSets, FiniteSetsExt

CONSTANTS Units,        \* TASK-NN-NNN ids; each plan uses them anew
          Allowance,    \* ordinary records a unit may have in one window
          Slots,        \* reserved summary slots: 2
          MaxPlans, MaxArchives, MaxEvents, MaxFaults, MaxCrashes  \* bounds

VARIABLES work,      \* unit -> lifecycle directory its task is in, or "none"
          reports,   \* units whose completion report is on disk
          surface,   \* plan files other than tasks, as kinds
          journal,   \* unit -> what the provenance journal says of it
          log,       \* lines of prompt-evidence.log; none when there is no file
          archives,  \* PLAN-001 .. PLAN-archives exist: the plan each holds
          listed,    \* names in archive/INDEX.md
          cmd,       \* closing command in progress
          plan,      \* ghost: which plan this is
          seen,      \* ghost: unit -> family -> observations in this plan
          projected, \* ghost: the closing projection just made
          events, faults, crashes

vars == <<work, reports, surface, journal, log, archives, listed, cmd, plan,
          seen, projected, events, faults, crashes>>

Families == {"CLR", "OMR", "RRR", "RRG", "PCC", "PAD"}
Statuses == {"open", "in-progress", "in-review", "done"}

\* Kinds of plan files in the order reset-plan removes them; tasks between.
Order == <<"requirements", "plan", "phases", "tasks", "specs", "reviews", "decisions">>

Idle == [at |-> "idle"]
NoTask == [u \in Units |-> "none"]
NotProjected == [whole |-> TRUE, rows |-> <<>>, approved |-> {}]
Nothing == [u \in Units |-> [f \in Families |-> 0]]

-----------------------------------------------------------------------------
(* The ledger.                                                             *)

Current == Len(archives) + 1

\* Where the records are that a reader of window w admits of unit u; torn and
\* junk lines it names as errors and leaves out.
Ledger(l, w, u) == {i \in DOMAIN l : l[i].k \in {"E", "D", "U"} /\ l[i].p = w /\ l[i].u = u}
Ordinary(l, w, u) == {i \in Ledger(l, w, u) : l[i].k # "U"}
Summaries(l, w, u) == {i \in Ledger(l, w, u) : l[i].k = "U"}
Of(l, w, u, f) == {i \in Ordinary(l, w, u) : l[i].f = f}

Torn == [k |-> "torn", p |-> 0]
Junk == [k |-> "junk", p |-> 0]

\* One append of one complete line: it lands, fails, or leaves a torn tail.
TornTail(l) == l # <<>> /\ Last(l).k = "torn"

AppendLine(l, rec, fault) ==
  IF fault = "failed" \/ (fault = "short" /\ TornTail(l)) THEN l
  ELSE IF fault = "short" THEN Append(l, Torn)
  ELSE IF TornTail(l) THEN Append(Front(l), Junk) ELSE Append(l, rec)

\* An emission is written, or suppressed when the unit's allowance is used up.
Room(l, rec) ==
  IF rec.k = "U" THEN Cardinality(Summaries(l, rec.p, rec.u)) < Slots
                 ELSE Cardinality(Ordinary(l, rec.p, rec.u)) < Allowance

Emit(l, rec, fault) == IF Room(l, rec) THEN AppendLine(l, rec, fault) ELSE l

Event(u, f, x) ==
  [k |-> IF f = "OMR" THEN "D" ELSE "E", p |-> Current, u |-> u, f |-> f, x |-> x,
   plan |-> plan]

-----------------------------------------------------------------------------
(* Summaries.                                                              *)

\* Mutant: reopens taken from the ledger itself.
ExpectedOwnReopens(u, f) ==
  IF f = "PCC" THEN journal[u].prompts ELSE IF f = "RRR" THEN journal[u].reviews ELSE 0

\* The independent count of a family, or 0 when its boundary has none to give.
Expected(u, f) ==
  IF f = "PCC" THEN journal[u].prompts
  ELSE IF f = "RRR" THEN journal[u].reviews
  ELSE IF f = "RRG" THEN journal[u].reopens
  ELSE 0

Approved(l, w, u) == \E i \in Of(l, w, u, "RRR") : l[i].x = "approve"

Unavailable(u, f) ==
  \/ f = "PCC" /\ journal[u].prompts = 0
  \/ f = "CLR" /\ u \notin reports
  \/ f = "RRG" /\ journal[u].at = "none"

State(u, f, w, closed) ==
  IF f = "RRR" /\ journal[u].reviews = 0 THEN "not-yet-observable"
  ELSE IF f = "PAD" /\ ~Approved(log, w, u) THEN "not-applicable"
  ELSE IF Unavailable(u, f) THEN "unavailable"
  ELSE IF f = "PAD" /\ ~closed THEN "not-yet-observable"
  ELSE IF Cardinality(Of(log, w, u, f)) < Expected(u, f) THEN "omitted"
  ELSE "observed"

\* Of the review passes, those that did not approve.  A prompt counts as one here,
\* with its bytes in the code.
Counted(l, w, u, f) == {i \in Of(l, w, u, f) : f = "RRR" => l[i].x # "approve"}

Uncounted == {"unavailable", "not-applicable", "not-yet-observable"}

\* truth is a ghost.
Summary(u, w, closed) ==
  LET state == [f \in Families |-> State(u, f, w, closed)]
  IN  [k |-> "U", p |-> w, u |-> u, plan |-> plan, state |-> state,
       count |-> [f \in Families |-> IF state[f] \in Uncounted THEN 0
                                     ELSE Cardinality(Counted(log, w, u, f))],
       truth |-> seen[u]]

\* A unit's closure summary, unless it carries one already.
SummarizeUnit(u, fault) ==
  IF Summaries(log, Current, u) # {} THEN log ELSE Emit(log, Summary(u, Current, FALSE), fault)

-----------------------------------------------------------------------------
(* The lifecycle boundaries that emit.  A fault is a bounded accident of   *)
(* one append.                                                             *)

Faults == {"none"} \cup (IF faults < MaxFaults THEN {"short", "failed"} ELSE {})
Spend(fault) == faults' = faults + (IF fault = "none" THEN 0 ELSE 1)

Boundary ==
  /\ cmd = Idle /\ events < MaxEvents
  /\ events' = events + 1
  /\ UNCHANGED <<archives, listed, cmd, plan, crashes>>
  /\ projected' = NotProjected

Saw(u, f) == seen' = [seen EXCEPT ![u][f] = @ + 1]

TasksLeft == \E u \in Units : work[u] # "none"

\* Planning, once nothing of the last plan is left to clear.
MakePlan ==
  /\ cmd = Idle /\ surface = {} /\ ~TasksLeft /\ plan < MaxPlans
  /\ surface' = ToSet(Order) \ {"tasks"}
  /\ plan' = plan + 1
  /\ seen' = Nothing
  /\ UNCHANGED <<work, reports, journal, log, archives, listed, cmd,
                 events, faults, crashes>>
  /\ projected' = NotProjected

WriteTask(u) ==
  /\ cmd = Idle
  /\ "plan" \in surface /\ work[u] = "none"
  /\ work' = [work EXCEPT ![u] = "open"]
  /\ journal' = [journal EXCEPT ![u].at = IF @ = "none" THEN "written" ELSE @]
  /\ UNCHANGED <<reports, surface, log, archives, listed, cmd, plan, seen, events, faults, crashes>>
  /\ projected' = NotProjected

WritePrompt(u) ==
  /\ Boundary
  /\ work[u] \in {"open", "in-progress", "in-review"}
  /\ journal' = [journal EXCEPT ![u].prompts = @ + 1]
  /\ \E fault \in Faults : log' = Emit(log, Event(u, "PCC", "-"), fault) /\ Spend(fault)
  /\ Saw(u, "PCC")
  /\ UNCHANGED <<work, reports, surface>>

\* The last two are administrative.
Moves == {<<"open", "in-progress">>, <<"open", "in-review">>, <<"in-progress", "in-review">>,
          <<"in-review", "in-progress">>, <<"in-review", "open">>, <<"in-review", "done">>,
          <<"open", "done">>, <<"done", "in-review">>}

Reopens(from, to) == from = "in-review" /\ to \in {"in-progress", "open"}

\* The journal's reader takes two successive rows of the unit for one move.
Move(u, to) ==
  /\ Boundary
  /\ <<work[u], to>> \in Moves
  /\ work' = [work EXCEPT ![u] = to]
  /\ journal' = [journal EXCEPT ![u].at = to,
                   ![u].reopens = @ + (IF Reopens(journal[u].at, to) THEN 1 ELSE 0)]
  /\ \E fault \in Faults :
       /\ log' = IF Reopens(work[u], to) THEN Emit(log, Event(u, "RRG", "-"), fault)
                 ELSE IF to = "done" THEN SummarizeUnit(u, fault) ELSE log
       /\ Spend(fault)
  /\ IF Reopens(work[u], to) THEN Saw(u, "RRG") ELSE UNCHANGED seen
  /\ UNCHANGED <<reports, surface>>

\* The agent's report, and its removal before the slot is reused.
AgentReport(u) ==
  /\ cmd = Idle
  /\ work[u] = "in-progress" /\ u \notin reports
  /\ reports' = reports \cup {u}
  /\ UNCHANGED <<work, surface, journal, log, archives, listed, cmd, plan, seen,
                 events, faults, crashes>>
  /\ projected' = NotProjected

DeleteReport(u) ==
  /\ cmd = Idle
  /\ u \in reports
  /\ reports' = reports \ {u}
  /\ UNCHANGED <<work, surface, journal, log, archives, listed, cmd, plan, seen,
                 events, faults, crashes>>
  /\ projected' = NotProjected

\* The same observation on the same day, whatever its ordinal, is one record.
Known(r, sameDay) == sameDay /\ r \in ToSet(log)

\* A review is written and taken in: the verdict, and the requirements it found
\* omitted.
Intake(u, verdict, omission) ==
  /\ Boundary
  /\ work[u] = "in-review"
  /\ journal' = [journal EXCEPT ![u].reviews = @ + 1]
  /\ \E fault \in Faults, sameDay \in BOOLEAN :
       LET rrr == Event(u, "RRR", verdict)
           omr == Event(u, "OMR", "D2")
           one(l, r) == IF Known(r, sameDay) THEN l ELSE Emit(l, r, fault)
       IN  /\ log' = IF omission THEN one(one(log, rrr), omr) ELSE one(log, rrr)
           /\ Spend(fault)
  /\ seen' = [seen EXCEPT ![u]["RRR"] = @ + (IF verdict = "approve" THEN 0 ELSE 1),
                          ![u]["OMR"] = @ + (IF omission THEN 1 ELSE 0)]
  /\ UNCHANGED <<work, reports, surface>>

\* Routing a report that says blocked; routing is repeated over the same bytes.
RouteBlocked(u) ==
  /\ Boundary
  /\ u \in reports /\ work[u] = "in-progress"
  /\ \E fault \in Faults, sameDay \in BOOLEAN :
       LET clr == Event(u, "CLR", "-") IN
       /\ log' = IF Known(clr, sameDay) THEN log ELSE Emit(log, clr, fault)
       /\ Spend(fault)
  /\ Saw(u, "CLR")
  /\ UNCHANGED <<work, reports, surface, journal>>

\* A defect found after approval, recorded by hand.
RecordPAD(u) ==
  /\ Boundary
  /\ work[u] = "done"
  /\ \E fault \in Faults : log' = Emit(log, Event(u, "PAD", "-"), fault) /\ Spend(fault)
  /\ Saw(u, "PAD")
  /\ UNCHANGED <<work, reports, surface, journal>>

-----------------------------------------------------------------------------
(* close_plan_sequence: superseding summaries, projection, delete.         *)

\* Mutant: only those that have no summary yet.
SupersedingUnsummarized(w) == {u \in Units : Approved(log, w, u) /\ Summaries(log, w, u) = {}}

\* Units whose post-approval window is open.
Superseding(w) == {u \in Units : Approved(log, w, u) /\ Cardinality(Summaries(log, w, u)) < Slots}

CloseWindow(w, then) == [at |-> "supersede", window |-> w, then |-> then,
                         todo |-> Superseding(w), whole |-> TRUE]

\* One unit's superseding summary.
Supersede ==
  /\ cmd.at = "supersede" /\ cmd.todo # {}
  /\ \E u \in cmd.todo, fault \in Faults :
       /\ log' = Emit(log, Summary(u, cmd.window, TRUE), fault)
       /\ cmd' = [cmd EXCEPT !.todo = @ \ {u}, !.whole = @ /\ fault = "none" /\ ~TornTail(log)]
       /\ Spend(fault)
  /\ UNCHANGED <<work, reports, surface, journal, archives, listed, plan, seen,
                 events, crashes>>
  /\ projected' = NotProjected

\* The current value of each unit: its last summary.
Projection(w) ==
  [u \in {v \in Units : Summaries(log, w, v) # {}} |-> log[Max(Summaries(log, w, u))]]

\* The closing projection, then the mediated delete; a log that is gone already
\* has been closed.
ProjectAndDelete ==
  /\ cmd.at = "supersede" /\ cmd.todo = {}
  /\ projected' = IF log = <<>> THEN NotProjected
                  ELSE [whole |-> cmd.whole, rows |-> Projection(cmd.window),
                        approved |-> {u \in Units : Approved(log, cmd.window, u)}]
  /\ log' = <<>>
  /\ cmd' = IF cmd.then = "clear" THEN [at |-> "clear"] ELSE Idle
  /\ UNCHANGED <<work, reports, surface, journal, archives, listed, plan, seen,
                 events, faults, crashes>>

-----------------------------------------------------------------------------
(* archive-plan.                                                           *)

\* The copies are made aside and put in place with one rename.
ArchiveLand ==
  /\ cmd = Idle /\ events < MaxEvents
  /\ events' = events + 1
  /\ Len(archives) < MaxArchives
  /\ archives' = Append(archives, plan)
  /\ cmd' = [at |-> "list"]
  /\ UNCHANGED <<work, reports, surface, journal, log, listed, plan, seen,
                 faults, crashes>>
  /\ projected' = NotProjected

\* The index row, then the close of the window the new directory ended.
ArchiveList ==
  /\ cmd.at = "list"
  /\ listed' = Append(listed, Len(archives))
  /\ cmd' = CloseWindow(Len(archives), "done")
  /\ UNCHANGED <<work, reports, surface, journal, log, archives, plan, seen,
                 events, faults, crashes>>
  /\ projected' = NotProjected

-----------------------------------------------------------------------------
(* reset-plan, after its preflight.                                        *)

\* The window is left to archive-plan to close.
StartResetOpen ==
  /\ cmd = Idle /\ events < MaxEvents
  /\ events' = events + 1
  /\ surface # {} \/ TasksLeft
  /\ cmd' = [at |-> "clear"]
  /\ UNCHANGED <<work, reports, surface, journal, log, archives, listed, plan, seen,
                 faults, crashes>>
  /\ projected' = NotProjected

StartReset ==
  /\ cmd = Idle /\ events < MaxEvents
  /\ events' = events + 1
  /\ surface # {} \/ TasksLeft
  /\ cmd' = CloseWindow(Current, "clear")
  /\ UNCHANGED <<work, reports, surface, journal, log, archives, listed, plan, seen,
                 faults, crashes>>
  /\ projected' = NotProjected

Before(kind) == {Order[i] : i \in {j \in 1 .. Len(Order) : \E k \in j + 1 .. Len(Order) : Order[k] = kind}}
\* One file or kind of file after the other, tasks directory by directory.
Clear ==
  /\ cmd.at = "clear"
  /\ surface # {} \/ TasksLeft
  /\ \/ \E kind \in surface :
          /\ Before(kind) \cap surface = {}
          /\ "tasks" \in Before(kind) => ~TasksLeft
          /\ surface' = surface \ {kind}
          /\ UNCHANGED work
     \/ /\ Before("tasks") \cap surface = {}
        /\ \E s \in Statuses : \E u \in Units :
             /\ work[u] = s
             /\ s = "done" => \A v \in Units : work[v] \in {"none", "done"}
             /\ work' = [work EXCEPT ![u] = "none"]
        /\ UNCHANGED surface
  /\ UNCHANGED <<reports, journal, log, archives, listed, cmd, plan, seen,
                 events, faults, crashes>>
  /\ projected' = NotProjected

\* The empty directories are made anew.
FinishReset ==
  /\ cmd.at = "clear"
  /\ surface = {} /\ ~TasksLeft
  /\ cmd' = Idle
  /\ UNCHANGED <<work, reports, surface, journal, log, archives, listed, plan, seen,
                 events, faults, crashes>>
  /\ projected' = NotProjected

\* The closing command dies, or its index write fails and it gives up.
Crash ==
  /\ cmd # Idle /\ crashes < MaxCrashes
  /\ crashes' = crashes + 1
  /\ cmd' = Idle
  /\ UNCHANGED <<work, reports, surface, journal, log, archives, listed, plan, seen,
                 events, faults>>
  /\ projected' = NotProjected

-----------------------------------------------------------------------------
Init ==
  /\ work = NoTask /\ reports = {} /\ surface = {}
  /\ journal = [u \in Units |-> [prompts |-> 0, reviews |-> 0, reopens |-> 0, at |-> "none"]]
  /\ log = <<>> /\ archives = <<>> /\ listed = <<>>
  /\ cmd = Idle /\ plan = 0 /\ seen = Nothing
  /\ projected = NotProjected
  /\ events = 0 /\ faults = 0 /\ crashes = 0

Next ==
  \/ MakePlan
  \/ \E u \in Units :
       \/ WriteTask(u) \/ WritePrompt(u) \/ AgentReport(u) \/ DeleteReport(u)
       \/ RouteBlocked(u) \/ RecordPAD(u)
       \/ \E to \in Statuses : Move(u, to)
       \/ \E v \in {"approve", "request-changes"}, o \in BOOLEAN : Intake(u, v, o)
  \/ Supersede \/ ProjectAndDelete
  \/ ArchiveLand \/ ArchiveList
  \/ StartReset \/ Clear \/ FinishReset
  \/ Crash

Spec == Init /\ [][Next]_vars

-----------------------------------------------------------------------------
(* What is expected of it.                                                 *)

\* A summary that calls a family of prompts, review passes or reopens observed
\* counts every one of them that happened in the plan, whatever was lost,
\* torn, suppressed or taken for a repetition: absence reads omitted.
CountsTrue ==
  \A i \in DOMAIN log : log[i].k = "U" =>
    \A f \in {"PCC", "RRR", "RRG"} :
      log[i].state[f] = "observed" => log[i].count[f] = log[i].truth[f]

\* The closing projection of a window gives a value to every unit approved in
\* it, and none of them still waits for the post-approval window to close,
\* even when an earlier attempt to close it died half way.
PadCounted ==
  projected.whole =>
    \A u \in projected.approved :
      /\ u \in DOMAIN projected.rows
      /\ projected.rows[u].state["PAD"] = "observed"

\* No evidence outlives its plan: what the ledger holds while a plan runs was
\* observed in that plan.
NoneOutlives ==
  \A i \in DOMAIN log : log[i].k \in {"E", "D", "U"} => log[i].plan = plan

=============================================================================
