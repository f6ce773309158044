-------------------------- MODULE ConfigMigration --------------------------
(***************************************************************************)
(* migrate-config (src/cli/config_migration.py): one operator-global       *)
(* configuration file shared by every registered project, one file per     *)
(* project.  A migration of project p plans from what it reads, checks     *)
(* every target against the plan, then writes p's own file, every peer     *)
(* that inherited what the shared file is about to lose, the shared file,  *)
(* and at last p's schema marker, leaving a checkpoint after each write.   *)
(*                                                                         *)
(* The data kept are the two facts the rewrite has to carry across two     *)
(* scopes: the pace pair (confirmation / run_boundary and the handoff      *)
(* budget) and one role's automatic launches.                              *)
(***************************************************************************)
EXTENDS Integers, FiniteSets, Sequences, SequencesExt

CONSTANTS Projects,     \* registered project ids
          Reviewers,    \* the projects whose task review is done by the role
          Unready,      \* projects whose filesystem migration is still unapplied
          Budgets,      \* max_handoffs_per_run values an operator authored
          MaxCrashes, MaxRuns

None     == "none"
Absent   == -1
Shared   == "global"
Complete == "handoff-complete"
Budgeted == "handoff-budget"
Paces    == {"each-handoff", "until-blocked"}
BoundaryOf == [each \in Paces |->
                  IF each = "each-handoff" THEN Complete ELSE Budgeted]
DefaultBudget == 1

Automation == [conf : Paces \cup {None}, rb : {None, Complete, Budgeted},
               bud : Budgets \cup {Absent, DefaultBudget}]
NoAutomation == [conf |-> None, rb |-> None, bud |-> Absent]
NoLaunch == {}

VARIABLES file,       \* file[s]: the bytes of scope s (a project or Shared)
          ready,      \* projects whose artifacts pass the schema gates
          run,        \* run[p]: the migrate-config process working on p
          ckpt,       \* ckpt[p]: p's in-progress checkpoint is on disk
          crashes, runs,
          pace, reach, \* ghosts: what each project resolved to before any run
          disturbed   \* ghost: a run crashed, or two runs overlapped
vars == <<file, ready, run, ckpt, crashes, runs, pace, reach, disturbed>>

Scopes == Projects \cup {Shared}
Idle   == [at |-> "idle", steps |-> <<>>, applied |-> <<>>, i |-> 0]

-----------------------------------------------------------------------------
(* The pace pair.                                                          *)

First(preferred, other, default, missing) ==
    IF preferred # missing THEN preferred
    ELSE IF other # missing THEN other ELSE default

LegacyPace(g, p)   == First(p.conf, g.conf, "each-handoff", None)
LegacyBudget(g, p) == First(p.bud, g.bud, DefaultBudget, Absent)

SourceBoundary(g, p) ==
    IF g.rb # None \/ p.rb # None THEN None ELSE BoundaryOf[LegacyPace(g, p)]

Renamed(a) == IF a.conf = None THEN a
              ELSE [a EXCEPT !.rb = BoundaryOf[a.conf], !.conf = None]

(* The shared file keeps a budget only beside its own budgeted boundary,   *)
(* and only when every project still resolves to that boundary.            *)
SharedBudget(a, share) ==
    [a EXCEPT !.bud = IF a.rb = Budgeted /\ share
                      THEN First(@, DefaultBudget, Absent, Absent) ELSE Absent]
(* A project's budget is dropped where it was inert.                       *)
InertDropped(a, boundary) ==
    IF boundary = Budgeted /\ a.rb \in {None, Budgeted} THEN a
    ELSE [a EXCEPT !.bud = Absent]
(* What the two scopes no longer merge to, the project states itself.      *)
CarriedDefault(p, g, boundary, budget) ==
    IF boundary = Budgeted /\ First(p.bud, g.bud, Absent, Absent) # budget
    THEN [p EXCEPT !.bud = DefaultBudget] ELSE p
Carried(p, g, boundary, budget) ==
    IF boundary = Budgeted /\ First(p.bud, g.bud, Absent, Absent) # budget
    THEN [p EXCEPT !.bud = budget] ELSE p

(* _map_legacy_run_boundary: both scopes rewritten to agree with the pair  *)
(* they resolve to together.                                               *)
MapPace(g, p, share) ==
    LET legacy   == g.conf # None \/ p.conf # None
        modern   == g.rb # None \/ p.rb # None
        boundary == BoundaryOf[LegacyPace(g, p)]
        budget   == LegacyBudget(g, p)
        g1 == SharedBudget(Renamed(g), share)
        p1 == Carried(InertDropped(Renamed(p), boundary), g1, boundary, budget)
    IN  IF ~legacy /\ (modern \/ (g.bud = Absent /\ p.bud = Absent))
        THEN [ok |-> TRUE, g |-> g, p |-> p]
        ELSE IF (legacy /\ modern) \/ (boundary = Budgeted /\ budget <= 0)
        THEN [ok |-> FALSE, g |-> g, p |-> p]
        ELSE [ok |-> TRUE, g |-> g1, p |-> p1]

(* resolve_configuration on the preferred vocabulary.                      *)
Unresolved == <<"refused", Absent>>
Authorable(a) == /\ a.conf = None
                 /\ a.bud # Absent => a.bud > 0 /\ a.rb # Complete
ResolvePace(g, p) ==
    LET boundary == First(p.rb, g.rb, Complete, None)
        budget   == First(p.bud, g.bud, Absent, Absent)
    IN  IF /\ Authorable(g) /\ Authorable(p)
           /\ (boundary = Budgeted) <=> (budget # Absent)
        THEN <<boundary, budget>> ELSE Unresolved

(* What the retired pair meant: two settings, each overridden on its own,   *)
(* the budget inert unless the pace is until-blocked.                      *)
LegacyPair(g, p) ==
    LET boundary == BoundaryOf[LegacyPace(g, p)]
    IN  IF boundary = Complete THEN <<Complete, Absent>>
        ELSE IF LegacyBudget(g, p) > 0 THEN <<Budgeted, LegacyBudget(g, p)>>
        ELSE Unresolved

(* The pair a project's two files mean in either vocabulary: the           *)
(* compatibility reading maps, then resolves.                              *)
Means(g, p, share) ==
    LET m == MapPace(g, p, share)
    IN  IF m.ok THEN ResolvePace(m.g, m.p) ELSE Unresolved

-----------------------------------------------------------------------------
(* The role's automatic launches: `hand` is the legacy handoffs table that *)
(* grants them in the shared file, `launch` the preferred auto_launch.     *)

Assigned(p)  == {"task_run"} \cup (IF p \in Reviewers THEN {"task_review"} ELSE {})
SafeGlobal   == {"task_run"}
MappedLaunch(g) == IF g.hand THEN [g EXCEPT !.hand = FALSE, !.launch = SafeGlobal] ELSE g
Materializes(g, p) == g.hand /\ Assigned(p) # SafeGlobal

ResolveLaunch(g, f) == IF f.launch # NoLaunch THEN f.launch ELSE g.launch
MeansLaunch(g, f, p) ==
    ResolveLaunch(MappedLaunch(g),
                  IF Materializes(g, p) /\ f.launch = NoLaunch
                  THEN [f EXCEPT !.launch = Assigned(p)] ELSE f)

-----------------------------------------------------------------------------
(* plan_configuration_migration.                                           *)

(* One project's own part of a plan, under a decision about the shared     *)
(* budget: what it would write in both scopes, and whether it may.         *)
Own(p, share) ==
    LET g == file[Shared]
        f == file[p]
        m == MapPace(g.auto, f.auto, share)
        mat == Materializes(g, p)
        g1 == MappedLaunch([g EXCEPT !.auto = m.g])
        f1 == [f EXCEPT !.auto = m.p,
                        !.launch = IF mat THEN Assigned(p) ELSE f.launch]
    IN  [ok |-> /\ p \in ready
                /\ m.ok
                /\ g.hand => g.launch \in {NoLaunch, SafeGlobal}
                /\ mat => f.launch \in {NoLaunch, Assigned(p)}
                /\ ResolvePace(m.g, m.p) # Unresolved,
         g |-> g1, f |-> f1, changed |-> f1 # f \/ mat]

(* The peers whose inherited pace pair the shared rewrite must not lose.   *)
Peers(p) ==
    LET g == file[Shared].auto
    IN  IF g.rb = None /\ (g.conf # None \/ g.bud # Absent) THEN Projects \ {p} ELSE {}

Shareable(p) ==
    \A q \in Peers(p) \cup {p} : SourceBoundary(file[Shared].auto, file[q].auto) = Budgeted

(* _peer_automation_target, _render_automation_materialization: only the   *)
(* pair of a peer's file is rewritten.                                     *)
NoMaterialization(p, q) == file[q]

PeerTarget(p, q) ==
    IF q \in Peers(p)
    THEN [file[q] EXCEPT !.auto =
             MapPace(file[Shared].auto, file[q].auto, Shareable(p)).p]
    ELSE file[q]

PeersAgree(p) ==
    \A q \in Peers(p) :
       LET m == MapPace(file[Shared].auto, file[q].auto, Shareable(p))
       IN  m.ok /\ m.g = Own(p, Shareable(p)).g.auto

(* _global_write_impacts: under the shared file to come, every other       *)
(* registered project must still plan, and mean what it means now.         *)
UncheckedPeers(p) == TRUE

Unharmed(p) ==
    \A q \in Projects \ {p} :
       LET g1 == Own(p, Shareable(p)).g
           q1 == PeerTarget(p, q)
       IN  /\ Own(q, Shareable(p)).ok
           /\ Means(g1.auto, q1.auto, Shareable(p))
                = Means(file[Shared].auto, file[q].auto, Shareable(p))
           /\ MeansLaunch(g1, q1, q) = MeansLaunch(file[Shared], file[q], q)

Step(kind, s, before, after) ==
    [kind |-> kind, scope |-> s, before |-> before, after |-> after]

OwnStep(p, own) ==
    IF own.changed THEN <<Step("write-project", p, file[p], own.f)>> ELSE <<>>
SharedSteps(p, own) ==
    LET peer == SetToSeq({q \in Peers(p) : PeerTarget(p, q) # file[q]})
    IN  IF own.g = file[Shared] THEN <<>>
        ELSE [i \in DOMAIN peer |->
                Step("materialize", peer[i], file[peer[i]], PeerTarget(p, peer[i]))]
             \o <<Step("write-global", Shared, file[Shared], own.g)>>
MarkerStep(p, own) ==
    IF own.f.mark THEN <<>>
    ELSE <<Step("update-marker", p, own.f, [own.f EXCEPT !.mark = TRUE])>>

(* The project's own facts before the shared source they depend on is      *)
(* retired, the peers' before it is rewritten, the marker last.            *)
PlanSteps(p) ==
    LET own == Own(p, Shareable(p))
    IN  OwnStep(p, own) \o SharedSteps(p, own) \o MarkerStep(p, own)

Status(p) ==
    IF ~Own(p, Shareable(p)).ok THEN "refused"
    ELSE IF Own(p, Shareable(p)).g # file[Shared] /\ ~(PeersAgree(p) /\ Unharmed(p))
    THEN "refused"
    ELSE IF PlanSteps(p) = <<>> THEN "noop" ELSE "planned"

-----------------------------------------------------------------------------
(* execute_configuration_migration.                                        *)

(* The preflight: the content each step will find once its predecessors    *)
(* are done, which must be what the step expects or what it would leave.   *)
Projected(steps, i) ==
    LET earlier == {j \in 1 .. i - 1 : steps[j].scope = steps[i].scope}
    IN  IF earlier = {} THEN file[steps[i].scope]
        ELSE steps[CHOOSE j \in earlier : \A k \in earlier : k <= j].after
Recognized(steps, i) == Projected(steps, i) = steps[i].after
Fresh(steps) == \A i \in DOMAIN steps :
                   Recognized(steps, i) \/ Projected(steps, i) = steps[i].before

LegacyForms == [conf : Paces \cup {None}, rb : {None}, bud : Budgets \cup {Absent}]
Fresh0(auto, hand) == [auto |-> auto, hand |-> hand, launch |-> NoLaunch, mark |-> FALSE]

Init ==
    /\ \E auto \in [Scopes -> LegacyForms], hand \in BOOLEAN :
          file = [s \in Scopes |-> Fresh0(auto[s], hand /\ s = Shared)]
    /\ ready = Projects \ Unready
    /\ run = [p \in Projects |-> Idle]
    /\ ckpt = [p \in Projects |-> FALSE]
    /\ crashes = 0 /\ runs = 0 /\ disturbed = FALSE
    /\ pace = [p \in Projects |-> LegacyPair(file[Shared].auto, file[p].auto)]
    /\ reach = [p \in Projects |-> IF file[Shared].hand THEN Assigned(p) ELSE NoLaunch]

ghosts == <<pace, reach>>

(* The process reads every scope and computes the closed plan.             *)
Plan(p) ==
    /\ run[p].at = "idle" /\ runs < MaxRuns /\ Status(p) = "planned"
    /\ run' = [run EXCEPT ![p] = [Idle EXCEPT !.at = "planned", !.steps = PlanSteps(p)]]
    /\ runs' = runs + 1
    /\ disturbed' = (disturbed \/ \E q \in Projects : run[q].at # "idle")
    /\ UNCHANGED <<file, ready, ckpt, crashes, ghosts>>

(* Nothing to do: a checkpoint left behind is removed.                     *)
PlanNothing(p) ==
    /\ run[p].at = "idle" /\ ckpt[p] /\ Status(p) = "noop"
    /\ ckpt' = [ckpt EXCEPT ![p] = FALSE]
    /\ UNCHANGED <<file, ready, run, crashes, runs, ghosts, disturbed>>

(* Every target is decided before the first write, or none is written.     *)
Preflight(p) ==
    LET steps == run[p].steps
    IN  /\ run[p].at = "planned"
        /\ run' = [run EXCEPT ![p] =
                     IF Fresh(steps)
                     THEN [@ EXCEPT !.at = "step", !.i = 1,
                             !.applied = [i \in DOMAIN steps |-> ~Recognized(steps, i)]]
                     ELSE Idle]
        /\ UNCHANGED <<file, ready, ckpt, crashes, runs, ghosts, disturbed>>

(* Before the marker the scopes are planned again and must ask for the     *)
(* same final bytes.                                                       *)
Validate(p) ==
    LET r == run[p]
        again == PlanSteps(p)
    IN  /\ r.at = "step" /\ r.steps[r.i].kind = "update-marker" /\ r.applied[r.i]
        /\ run' = [run EXCEPT ![p] =
                     IF Status(p) = "planned" /\ again # <<>>
                        /\ again[Len(again)].kind = "update-marker"
                        /\ again[Len(again)].after = r.steps[r.i].after
                     THEN [@ EXCEPT !.at = "write"] ELSE Idle]
        /\ UNCHANGED <<file, ready, ckpt, crashes, runs, ghosts, disturbed>>

(* _atomic_write, pinned to the content the plan read.                     *)
Write(p) ==
    LET r == run[p]
        s == r.steps[r.i]
    IN  /\ \/ r.at = "write"
           \/ r.at = "step" /\ ~(s.kind = "update-marker" /\ r.applied[r.i])
        /\ IF r.applied[r.i] /\ file[s.scope] # s.before
           THEN run' = [run EXCEPT ![p] = Idle] /\ UNCHANGED file
           ELSE /\ run' = [run EXCEPT ![p].at = "checkpoint"]
                /\ file' = IF r.applied[r.i]
                           THEN [file EXCEPT ![s.scope] = s.after] ELSE file
        /\ UNCHANGED <<ready, ckpt, crashes, runs, ghosts, disturbed>>

Checkpoint(p) ==
    LET r == run[p]
    IN  /\ r.at = "checkpoint"
        /\ ckpt' = [ckpt EXCEPT ![p] = TRUE]
        /\ run' = [run EXCEPT ![p] = IF r.i = Len(r.steps)
                                     THEN [@ EXCEPT !.at = "final"]
                                     ELSE [@ EXCEPT !.at = "step", !.i = r.i + 1]]
        /\ UNCHANGED <<file, ready, crashes, runs, ghosts, disturbed>>

(* Replanned from disk: only a canonical outcome drops the checkpoint.     *)
Finish(p) ==
    /\ run[p].at = "final"
    /\ run' = [run EXCEPT ![p] = Idle]
    /\ ckpt' = [ckpt EXCEPT ![p] = Status(p) # "noop"]
    /\ UNCHANGED <<file, ready, crashes, runs, ghosts, disturbed>>

Crash(p) ==
    /\ run[p].at # "idle" /\ crashes < MaxCrashes
    /\ crashes' = crashes + 1
    /\ run' = [run EXCEPT ![p] = Idle]
    /\ disturbed' = TRUE
    /\ UNCHANGED <<file, ready, ckpt, runs, ghosts>>

(* The filesystem migrations and the authored delivery contract that the   *)
(* schema gates ask for arrive by other commands.                          *)
Conform(p) ==
    /\ p \notin ready
    /\ ready' = ready \cup {p}
    /\ UNCHANGED <<file, run, ckpt, crashes, runs, ghosts, disturbed>>

Advance(p) == Conform(p) \/ Preflight(p) \/ Checkpoint(p) \/ Write(p) \/ Validate(p) \/ Finish(p)
Next == \E p \in Projects : Advance(p) \/ Plan(p) \/ PlanNothing(p) \/ Crash(p)

(* A started command runs on, and while some project still asks for its    *)
(* migration the operator, with no command running, runs one: any one.     *)
Alone == \A q \in Projects : run[q].at = "idle"
Fairness == WF_vars(\E p \in Projects : Advance(p) \/ (Alone /\ Plan(p)))
Spec == Init /\ [][Next]_vars /\ Fairness

-----------------------------------------------------------------------------
(* No file written so far, by any number of runs and crashes, makes a      *)
(* project resolve to another pace or another handoff budget than the one  *)
(* its operator wrote; at worst it stops resolving.                        *)
PaceKept ==
    \A p \in Projects :
       Means(file[Shared].auto, file[p].auto, FALSE) \in {pace[p], Unresolved}

(* Nor does it widen a role's automatic launches or lose one.              *)
LaunchKept ==
    \A p \in Projects : MeansLaunch(file[Shared], file[p], p) = reach[p]

(* A migration carries what the operator set into the new vocabulary.      *)
SettingsKept == PaceKept /\ LaunchKept

(* Undisturbed, migrations started in any order complete: whichever        *)
(* project goes first, every project that resolves ends migrated.          *)
AllMigrated == \A p \in Projects :
                  pace[p] # Unresolved => file[p].mark /\ ~ckpt[p]
EventuallyMigrated == <>(disturbed \/ AllMigrated)

(* Every evidenced interruption can be planned from again.                 *)
Replannable ==
    \A p \in Projects : ckpt[p] /\ run[p] = Idle => Status(p) # "refused"
=============================================================================
