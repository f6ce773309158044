----------------------------- MODULE PlanRouting -----------------------------
(***************************************************************************)
(* Where next-action sends a project manager through a whole plan:         *)
(* requirements, the plan, its phases, the tasks of each, the checkpoint   *)
(* review of every one of them, and the work itself.  Nothing of the       *)
(* advice is stored: each session derives it anew from the files, while    *)
(* replanning adds tasks, prerequisites and phases, the operator asks and  *)
(* closes early, and the manager at times moves a task unadvised.          *)
(*                                                                         *)
(* Two more readers of the same files, compose-state and the audits, are   *)
(* kept beside it to be compared with it.  Tasks carry current plan refs   *)
(* and existing phases; the rest of a task's contract is in order.         *)
(***************************************************************************)
EXTENDS Naturals, Sequences, FiniteSets, SequencesExt, FiniteSetsExt

CONSTANTS Tasks,      \* task numbers; their order is that of the file names
          PhaseOf,    \* task -> phase number
          MaxReplans, MaxStrays, MaxFlips, MaxRejects,
          MaxUpsets   \* all of these together: bounds

ASSUME RoutingAssumption ==
  /\ Tasks \subseteq Nat \ {0} /\ IsFiniteSet(Tasks) /\ PhaseOf \in [Tasks -> Nat \ {0}]
  /\ {MaxReplans, MaxStrays, MaxFlips, MaxRejects, MaxUpsets} \subseteq Nat

VARIABLES requirements, plan,  \* whether the file is there
          declared,  \* phases in IMPLEMENTATION_PLAN.md
          authored,  \* phases with a file
          place,     \* task -> status directory, or "none"
          deps,      \* task -> its Blocked by header
          gate,      \* checkpoint -> status of its record
          required,  \* reviews.planning.mode is required
          note,      \* STATE.md has an open question or a situation note
          early,     \* an operator decision closes the plan early
          replans, strays, flips, rejects,
          advice     \* what next-action answers here; it follows from the rest

files == <<requirements, plan, declared, authored>>
env == <<required, note, early, replans, strays, flips>>
state == <<files, place, deps, gate, env, rejects>>
vars == <<state, advice>>

Phases == {PhaseOf[t] : t \in Tasks}
NoSuchTask == 0
Checkpoint(kind, n) == [of |-> kind, n |-> n]
Checkpoints == {Checkpoint("requirements", 0), Checkpoint("plan", 0)}
          \cup {Checkpoint("phase", p) : p \in Phases} \cup {Checkpoint("task", t) : t \in Tasks}

None == 0
First(S) == IF S = {} THEN None ELSE Min(S)
In(s) == {t \in Tasks : place[t] = s}
Written == Tasks \ In("none")
Unfinished == Written \ In("done")

-----------------------------------------------------------------------------
(* Dependencies.                                                           *)

Deps(t) == ToSet(deps[t])
Unmet(t) == Deps(t) \ In("done")

\* Unfinished tasks that t's walk visits, t with it.
Reach(t) ==
  {u \in Tasks : \A S \in SUBSET Tasks :
     t \in S /\ (\A v \in S : Unmet(v) \cap Tasks \subseteq S) => u \in S}

\* Nothing could ever end the wait: a prerequisite that is no task, or a cycle.
Problem(t) == \E u \in Reach(t) : \/ Deps(u) \ Written # {}
                                  \/ \E d \in Unmet(u) : u \in Reach(d)

\* The first of u's unmet prerequisites in declared order.
FirstUnmet(u) == deps[u][Min({i \in DOMAIN deps[u] : deps[u][i] \in Unmet(u)})]

\* What a walk meets that goes from t to first prerequisites.
Descent(t) ==
  {u \in Tasks : \A S \in SUBSET Tasks :
     t \in S /\ (\A v \in S : Unmet(v) # {} => FirstUnmet(v) \in S) => u \in S}

\* Depth first in declared order, the first whose own prerequisites are done.
Prerequisite(t) == First({u \in Descent(t) : Unmet(u) = {}})

Waits(t) == Unmet(t) # {} /\ ~Problem(t)

-----------------------------------------------------------------------------
(* Planning.                                                               *)

Sequence == declared \cup authored
HasTask(p) == \E t \in Written : PhaseOf[t] = p

\* The earliest phase after the last one that has tasks.
Unstarted(phases) ==
  First({p \in phases : \A q \in phases : HasTask(q) => q < p})

MissingFiles == declared \ authored

\* The first gate, in this order of checkpoints, that no approval opens.
Closed(c) == required /\ gate[c] # "approved"
ClosedPhase == First({p \in authored : Closed(Checkpoint("phase", p))})
\* Mutant: a dispatched task counts as reviewed.
ClosedTaskOpen == First({t \in In("open") : Closed(Checkpoint("task", t))})

ClosedTask ==
  LET of(s) == {t \in In(s) : Closed(Checkpoint("task", t))}
      order == <<"open", "in-progress", "in-review", "done">>
      hits == {i \in 1 .. 4 : of(order[i]) # {}}
  IN  IF hits = {} THEN None ELSE First(of(order[Min(hits)]))

Step(do, on) == [do |-> do, on |-> on]
Review(c) == [do |-> "review", on |-> c]

Planning ==
  IF ~requirements /\ (required \/ ~plan) THEN Step("requirements", None)
  ELSE IF Closed(Checkpoint("requirements", 0)) THEN Review(Checkpoint("requirements", 0))
  ELSE IF ~plan THEN Step("plan", None)
  ELSE IF Closed(Checkpoint("plan", 0)) THEN Review(Checkpoint("plan", 0))
  ELSE IF authored = {} THEN Step("phases", None)
  ELSE IF ClosedPhase # None THEN Review(Checkpoint("phase", ClosedPhase))
  ELSE IF ClosedTask # None THEN Review(Checkpoint("task", ClosedTask))
  ELSE IF MissingFiles # {} /\ Unfinished = {} THEN Step("phase", First(MissingFiles))
  ELSE IF Written = {} \/ (Unfinished = {} /\ Unstarted(authored) # None)
    THEN Step("tasks", IF Unstarted(authored) # None THEN Unstarted(authored) ELSE First(authored))
  ELSE Step("nothing", None)

-----------------------------------------------------------------------------
(* next-action.                                                            *)

Active == IF In("in-progress") # {} THEN First(In("in-progress")) ELSE First(In("in-review"))

Ready == {t \in In("open") : Unmet(t) = {}}

\* Phase order first, then the file names.
NextOpen ==
  LET phase == First({PhaseOf[t] : t \in Ready})
  IN  First({t \in Ready : PhaseOf[t] = phase})

ActiveWaits == Active # None /\ place[Active] = "in-progress" /\ Waits(Active)

\* Mutant: a prerequisite is started whatever is being done with it already.
RoutedStart ==
  IF ~ActiveWaits THEN [active |-> Active, next |-> NextOpen]
  ELSE [active |-> None, next |-> Prerequisite(Active)]

\* A task in progress that waits is left for its prerequisite.
Routed ==
  LET p == Prerequisite(Active) IN
  IF ~ActiveWaits THEN [active |-> Active, next |-> NextOpen]
  ELSE IF place[p] = "open" THEN [active |-> None, next |-> p]
  ELSE [active |-> p, next |-> None]

PlanComplete ==
  /\ NextOpen = None /\ Unfinished = {}
  /\ MissingFiles = {} /\ Unstarted(Sequence) = None
  /\ \E p \in Sequence : HasTask(p)

Advice ==
  IF note THEN Step("answer", None)
  ELSE IF Routed.next = None /\ Routed.active = None /\ In("open") # {} THEN Step("unblock", None)
  ELSE IF early THEN Step("close", None)
  ELSE IF Planning.do = "review" THEN Planning
  ELSE IF Routed.active # None THEN Step("continue", Routed.active)
  ELSE IF Planning.do # "nothing" THEN Planning
  ELSE IF Routed.next # None THEN Step("start", Routed.next)
  ELSE IF PlanComplete THEN Step("close", None)
  ELSE Step("reconcile", None)

-----------------------------------------------------------------------------
(* The other readers.                                                      *)

\* Mutant: the state does not know of prerequisites.
InFlightOblivious == Step("continue", Active)

\* What compose-state writes under "What to do next".
InFlight ==
  IF ~ActiveWaits THEN Step("continue", Active)
  ELSE LET p == Prerequisite(Active) IN Step(IF place[p] = "open" THEN "start" ELSE "continue", p)

StateSays ==
  IF Active # None THEN InFlight
  ELSE IF Planning.do # "nothing" THEN Planning
  ELSE IF Ready # {} THEN Step("start", NextOpen)
  ELSE IF In("open") # {} THEN Step("unblock", None)
  ELSE Step("close", None)

\* What plan-audit finds unreviewed: every stage the artifacts have reached.
MissingReviews ==
  {c \in Checkpoints :
    /\ Closed(c)
    /\ \/ c.of = "requirements" /\ (requirements \/ plan \/ authored # {} \/ Written # {})
       \/ c.of = "plan" /\ (plan \/ authored # {} \/ Written # {})
       \/ c.of = "phase" /\ c.n \in authored
       \/ c.of = "task" /\ c.n \in Written}

\* What keeps close-audit from calling the plan closable, but for its handoffs,
\* exit criteria and delivery record.
CloseBlockers == Unfinished \cup {[phase |-> p] : p \in MissingFiles}

Allowed == replans + strays + flips + rejects < MaxUpsets

-----------------------------------------------------------------------------
(* The manager follows the advice, one step at a time.                     *)

WriteRequirements ==
  /\ advice.do = "requirements"
  /\ requirements' = TRUE
  /\ UNCHANGED <<plan, declared, authored, place, deps, gate, env, rejects>>

WritePlan ==
  /\ advice.do = "plan"
  /\ plan' = TRUE
  /\ declared' \in SUBSET Phases \ {{}}
  /\ UNCHANGED <<requirements, authored, place, deps, gate, env, rejects>>

\* A session may end with part of the phase files written.
WritePhases ==
  /\ advice.do = "phases"
  /\ authored' \in SUBSET declared \ {{}}
  /\ UNCHANGED <<requirements, plan, declared, place, deps, gate, env, rejects>>

WritePhase ==
  /\ advice.do = "phase"
  /\ authored' = authored \cup {advice.on}
  /\ UNCHANGED <<requirements, plan, declared, place, deps, gate, env, rejects>>

\* Some of the phase's tasks, each blocked by any of the tasks there are.
WriteTasks ==
  /\ advice.do = "tasks"
  /\ \E new \in SUBSET {t \in In("none") : PhaseOf[t] = advice.on} \ {{}} :
       /\ place' = [t \in Tasks |-> IF t \in new THEN "open" ELSE place[t]]
       /\ \E on \in [new -> {<<>>} \cup {<<d>> : d \in Written \cup new}] :
            /\ \A t \in new : on[t] # <<t>>
            /\ deps' = [t \in Tasks |-> IF t \in new THEN on[t] ELSE deps[t]]
  /\ UNCHANGED <<files, gate, env, rejects>>

\* A checkpoint's handoff: prompt, report, verdict; a refused one is revised
\* and rerun.
Checkpointed ==
  /\ advice.do = "review"
  /\ LET c == advice.on IN
       \/ /\ gate[c] \in {"pending", "request-changes"}
          /\ gate' = [gate EXCEPT ![c] = "awaiting-report"]
          /\ UNCHANGED rejects
       \/ /\ gate[c] = "awaiting-report"
          /\ gate' = [gate EXCEPT ![c] = "awaiting-verdict"]
          /\ UNCHANGED rejects
       \/ /\ gate[c] = "awaiting-verdict"
          /\ \/ gate' = [gate EXCEPT ![c] = "approved"] /\ UNCHANGED rejects
             \/ /\ rejects < MaxRejects /\ Allowed /\ rejects' = rejects + 1
                /\ gate' = [gate EXCEPT ![c] = "request-changes"]
  /\ UNCHANGED <<files, place, deps, env>>

StartTask ==
  /\ advice.do = "start"
  /\ place' = [place EXCEPT ![advice.on] = "in-progress"]
  /\ UNCHANGED <<files, deps, gate, env, rejects>>

ContinueTask ==
  /\ advice.do = "continue"
  /\ LET t == advice.on IN
       \/ /\ place' = [place EXCEPT ![t] = IF @ = "in-progress" THEN "in-review" ELSE "done"]
          /\ UNCHANGED rejects
       \/ /\ place[t] = "in-review"
          /\ rejects < MaxRejects /\ Allowed /\ rejects' = rejects + 1
          /\ \E s \in {"open", "in-progress"} : place' = [place EXCEPT ![t] = s]
  /\ UNCHANGED <<files, deps, gate, env>>

\* One open task's header is corrected.
Unblock ==
  /\ advice.do = "unblock"
  /\ \E t \in In("open") : deps' = [deps EXCEPT ![t] = <<>>]
  /\ UNCHANGED <<files, place, gate, env, rejects>>

Answer ==
  /\ advice.do = "answer"
  /\ note' = FALSE
  /\ UNCHANGED <<files, place, deps, gate, required, early, replans, strays, flips, rejects>>

Follow ==
  \/ WriteRequirements \/ WritePlan \/ WritePhases \/ WritePhase \/ WriteTasks
  \/ Checkpointed \/ StartTask \/ ContinueTask \/ Unblock \/ Answer

-----------------------------------------------------------------------------
(* What else happens to the plan.                                          *)

\* A task gets one more prerequisite: one there is, a new one, or an id that
\* names none.
Replan(t, d) ==
  /\ replans < MaxReplans /\ Allowed /\ replans' = replans + 1
  /\ place[t] \in {"open", "in-progress"} /\ d # t /\ d \notin Deps(t)
  /\ d \in Tasks /\ place[d] = "none" => PhaseOf[d] \in authored
  /\ deps' = [deps EXCEPT ![t] = Append(@, d)]
  /\ place' = [u \in Tasks |-> IF u = d /\ place[u] = "none" THEN "open" ELSE place[u]]
  /\ UNCHANGED <<files, gate, required, note, early, strays, flips, rejects>>

AddPhase(p) ==
  /\ replans < MaxReplans /\ Allowed /\ replans' = replans + 1
  /\ plan /\ p \notin declared
  /\ declared' = declared \cup {p}
  /\ UNCHANGED <<requirements, plan, authored, place, deps, gate, required, note, early,
                 strays, flips, rejects>>

\* A move the guards allow, though nothing advised it.
Stray(t) ==
  /\ strays < MaxStrays /\ Allowed /\ strays' = strays + 1
  /\ \E s \in {<<"open", "in-progress">>, <<"in-progress", "in-review">>} :
       place[t] = s[1] /\ place' = [place EXCEPT ![t] = s[2]]
  /\ UNCHANGED <<files, deps, gate, required, note, early, replans, flips, rejects>>

\* The operator's part: the review policy, a question, an early close.
Operator ==
  /\ flips < MaxFlips /\ Allowed /\ flips' = flips + 1
  /\ \/ required' = ~required /\ UNCHANGED <<note, early>>
     \/ note' = TRUE /\ ~note /\ UNCHANGED <<required, early>>
     \/ early' = TRUE /\ ~early /\ UNCHANGED <<required, note>>
  /\ UNCHANGED <<files, place, deps, gate, replans, strays, rejects>>

Init ==
  /\ requirements = FALSE /\ plan = FALSE /\ declared = {} /\ authored = {}
  /\ place = [t \in Tasks |-> "none"] /\ deps = [t \in Tasks |-> <<>>]
  /\ gate = [c \in Checkpoints |-> "pending"]
  /\ required \in BOOLEAN /\ note = FALSE /\ early = FALSE
  /\ replans = 0 /\ strays = 0 /\ flips = 0 /\ rejects = 0
  /\ advice = Advice

Happens ==
  \/ Follow
  \/ \E t \in Tasks, d \in Tasks \cup {NoSuchTask} : Replan(t, d)
  \/ \E p \in Phases : AddPhase(p)
  \/ \E t \in Tasks : Stray(t)
  \/ Operator

Next == Happens /\ advice' = Advice'

\* A manager who goes on asking and does as told.
Spec == Init /\ [][Next]_vars /\ WF_state(Follow)

-----------------------------------------------------------------------------
(* What is expected of it.                                                 *)

\* When next-action says the plan is complete, and the operator did not end it,
\* nothing of it is unfinished, unplanned or, where reviews are required,
\* unreviewed: close-audit and plan-audit find nothing either.
CompleteIsClosable ==
  advice.do = "close" /\ ~early =>
    /\ CloseBlockers = {} /\ MissingReviews = {}
    /\ \E t \in Tasks : place[t] = "done"

\* STATE.md and next-action send the next session the same way, where no
\* blocker, early close or missing review, which the state leaves out, decides.
StateAgrees ==
  ~note /\ ~early /\ Planning.do # "review" => StateSays = advice

\* Once replanning, the operator and unadvised moves come to rest, following
\* the advice ends the plan.
AdviceArrives == <>[](advice.do = "close")
=============================================================================
