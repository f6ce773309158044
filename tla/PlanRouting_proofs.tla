------------------------- MODULE PlanRouting_proofs -------------------------
(***************************************************************************)
(* What next-action answers, for every set of tasks and phases and any     *)
(* amount of replanning: a plan it calls complete is closable, and the     *)
(* state that compose-state writes sends the next session the same way.    *)
(***************************************************************************)
EXTENDS PlanRouting, FiniteSetTheorems, WellFoundedInduction, TLAPS

Directories == {"none", "open", "in-progress", "in-review", "done"}

RoutingType ==
    /\ requirements \in BOOLEAN /\ plan \in BOOLEAN /\ required \in BOOLEAN
    /\ declared \subseteq Phases /\ authored \subseteq Phases
    /\ place \in [Tasks -> Directories]
    /\ deps \in [Tasks -> Seq(Tasks \cup {NoSuchTask})]

\* What is planned was planned in its order, and no task is without its phase.
Grown ==
    /\ plan => requirements
    /\ authored # {} => plan
    /\ \A t \in Written : PhaseOf[t] \in authored

RoutingInv == RoutingType /\ Grown /\ advice = Advice

---------------------------------------------------------------------------
(* The least of a set.                                                     *)

LEMMA LeastExists ==
    ASSUME NEW S, S \subseteq Nat, S # {} PROVE \E x \in S : \A y \in S : x <= y
<1>1. \E x \in S : \A y \in S : ~ (<<y, x>> \in OpToRel(<, Nat))
  BY WFMin, NatLessThanWellFounded, Zenon
<1>2. PICK x \in S : \A y \in S : ~ (<<y, x>> \in OpToRel(<, Nat))
  BY <1>1
<1>3. \A y \in S : ~ (y < x)
  <2> SUFFICES ASSUME NEW y \in S, y < x PROVE FALSE
    OBVIOUS
  <2>1. y \in Nat /\ x \in Nat
    BY <1>2
  <2>2. <<y, x>> \in OpToRel(<, Nat)
    BY <2>1 DEF OpToRel
  <2> QED
    BY <2>2, <1>2
<1>4. x \in Nat /\ \A y \in S : y \in Nat
  BY <1>2
<1>5. \A y \in S : x <= y
  BY <1>3, <1>4
<1> QED
  BY <1>2, <1>5

LEMMA MinIsLeast ==
    ASSUME NEW S, S \subseteq Nat, S # {} PROVE Min(S) \in S /\ \A y \in S : Min(S) <= y
BY LeastExists DEF Min

LEMMA FirstOf ==
    ASSUME NEW S, S \subseteq Nat \ {0}
    PROVE  /\ First(S) = None <=> S = {}
           /\ S # {} => First(S) \in S
BY MinIsLeast DEF First, None

LEMMA ShortLists ==
    ASSUME NEW S PROVE <<>> \in Seq(S) /\ \A d \in S : <<d>> \in Seq(S)
OBVIOUS

LEMMA PhasesNumbered == Phases \subseteq Nat \ {0} /\ \A t \in Tasks : PhaseOf[t] \in Phases
BY RoutingAssumption DEF Phases

---------------------------------------------------------------------------
(* A task that waits has a first prerequisite nothing keeps waiting.       *)

LEMMA ReachClosed ==
    ASSUME NEW t \in Tasks
    PROVE  /\ t \in Reach(t) /\ Reach(t) \subseteq Tasks
           /\ \A v \in Reach(t) : Unmet(v) \cap Tasks \subseteq Reach(t)
           /\ \A S \in SUBSET Tasks :
                t \in S /\ (\A v \in S : Unmet(v) \cap Tasks \subseteq S) => Reach(t) \subseteq S
BY DEF Reach

LEMMA DescentClosed ==
    ASSUME NEW t \in Tasks
    PROVE  /\ t \in Descent(t) /\ Descent(t) \subseteq Tasks
           /\ \A v \in Descent(t) :
                Unmet(v) # {} /\ FirstUnmet(v) \in Tasks => FirstUnmet(v) \in Descent(t)
           /\ \A S \in SUBSET Tasks :
                t \in S /\ (\A v \in S : Unmet(v) # {} => FirstUnmet(v) \in S)
                  => Descent(t) \subseteq S
BY DEF Descent

LEMMA FirstIsUnmet ==
    ASSUME RoutingType, NEW v \in Tasks, Unmet(v) # {} PROVE FirstUnmet(v) \in Unmet(v)
<1> DEFINE at == {i \in DOMAIN deps[v] : deps[v][i] \in Unmet(v)}
<1>1. at \subseteq Nat
  BY DEF RoutingType
<1>2. at # {}
  BY DEF Unmet, Deps, ToSet
<1> HIDE DEF at
<1>3. Min(at) \in at
  BY <1>1, <1>2, MinIsLeast
<1> QED
  BY <1>3 DEF at, FirstUnmet

LEMMA WaitEnds ==
    ASSUME RoutingType, NEW t \in Tasks, Waits(t)
    PROVE  /\ Prerequisite(t) \in Descent(t) /\ Unmet(Prerequisite(t)) = {}
           /\ t \in Written => Prerequisite(t) \in Written
<1>1. \A u \in Reach(t) : /\ Unmet(u) \subseteq Tasks
                          /\ \A d \in Unmet(u) : u \notin Reach(d)
  BY DEF Waits, Problem, Unmet, Written
<1>2. \A u \in Reach(t) : Unmet(u) # {} => FirstUnmet(u) \in Reach(t)
  BY <1>1, ReachClosed, FirstIsUnmet
<1>3. Descent(t) \subseteq Reach(t)
  <2>1. Reach(t) \in SUBSET Tasks /\ t \in Reach(t)
    BY ReachClosed
  <2> QED
    BY <1>2, <2>1, DescentClosed
<1>4. \A u \in Tasks : IsFiniteSet(Reach(u)) /\ Cardinality(Reach(u)) \in Nat
  BY RoutingAssumption, ReachClosed, FS_Subset, FS_CardinalityType
<1>5. ASSUME NEW u \in Descent(t), Unmet(u) # {}
      PROVE  /\ FirstUnmet(u) \in Descent(t)
             /\ Cardinality(Reach(FirstUnmet(u))) < Cardinality(Reach(u))
  <2> DEFINE d == FirstUnmet(u)
  <2>1. u \in Tasks /\ u \in Reach(t)
    BY <1>3, DescentClosed
  <2>2. d \in Unmet(u) /\ d \in Tasks
    BY <1>1, <1>5, <2>1, FirstIsUnmet
  <2>3. d \in Descent(t)
    BY <1>5, <2>2, DescentClosed
  <2> HIDE DEF d
  <2>4. u \in Reach(u) /\ u \notin Reach(d) /\ d \in Reach(u)
    BY <1>1, <2>1, <2>2, ReachClosed
  <2>5. Reach(d) \subseteq Reach(u)
    <3>1. Reach(u) \in SUBSET Tasks /\ \A v \in Reach(u) : Unmet(v) \cap Tasks \subseteq Reach(u)
      BY <2>1, ReachClosed
    <3> QED
      BY <2>2, <2>4, <3>1, ReachClosed
  <2>6. Cardinality(Reach(d)) < Cardinality(Reach(u))
    <3>1. /\ Cardinality(Reach(d)) <= Cardinality(Reach(u))
          /\ Cardinality(Reach(u)) = Cardinality(Reach(d)) => Reach(u) = Reach(d)
      BY <1>4, <2>1, <2>5, FS_Subset
    <3>2. Reach(u) # Reach(d)
      BY <2>4
    <3> QED
      BY <1>4, <2>1, <2>2, <3>1, <3>2
  <2> QED
    BY <2>3, <2>6 DEF d
<1>6. \E u \in Descent(t) : Unmet(u) = {}
  <2> SUFFICES ASSUME \A u \in Descent(t) : Unmet(u) # {} PROVE FALSE
    OBVIOUS
  <2> DEFINE sizes == {Cardinality(Reach(u)) : u \in Descent(t)}
  <2>1. sizes \subseteq Nat /\ sizes # {}
    BY <1>4, DescentClosed
  <2> HIDE DEF sizes
  <2>2. PICK m \in sizes : \A n \in sizes : m <= n
    BY <2>1, LeastExists
  <2>3. PICK u \in Descent(t) : m = Cardinality(Reach(u))
    BY <2>2 DEF sizes
  <2>4. /\ FirstUnmet(u) \in Descent(t)
        /\ Cardinality(Reach(FirstUnmet(u))) < Cardinality(Reach(u))
    BY <1>5
  <2>5. Cardinality(Reach(FirstUnmet(u))) \in sizes
    BY <2>4 DEF sizes
  <2>6. m <= Cardinality(Reach(FirstUnmet(u)))
    BY <2>2, <2>5
  <2>7. m \in Nat /\ Cardinality(Reach(FirstUnmet(u))) \in Nat
    BY <2>1, <2>2, <2>5
  <2> QED
    BY <2>3, <2>4, <2>6, <2>7
<1>7. Prerequisite(t) \in Descent(t) /\ Unmet(Prerequisite(t)) = {}
  <2> DEFINE S == {u \in Descent(t) : Unmet(u) = {}}
  <2>1. S \subseteq Nat \ {0} /\ S # {}
    BY <1>6, DescentClosed, RoutingAssumption
  <2> HIDE DEF S
  <2>2. First(S) \in S
    BY <2>1, FirstOf
  <2> QED
    BY <2>2 DEF S, Prerequisite
<1>8. ASSUME t \in Written PROVE Descent(t) \subseteq Written
  <2> DEFINE S == Reach(t) \cap Written
  <2>1. S \in SUBSET Tasks /\ t \in S
    BY <1>8, ReachClosed
  <2>2. \A v \in S : Unmet(v) # {} => FirstUnmet(v) \in S
    <3> SUFFICES ASSUME NEW v \in S, Unmet(v) # {} PROVE FirstUnmet(v) \in S
      OBVIOUS
    <3>1. v \in Reach(t) /\ v \in Tasks
      BY <2>1
    <3>2. FirstUnmet(v) \in Unmet(v)
      BY <3>1, FirstIsUnmet
    <3>3. Deps(v) \subseteq Written
      BY <3>1 DEF Waits, Problem
    <3> QED
      BY <1>2, <3>1, <3>2, <3>3 DEF Unmet
  <2>3. Descent(t) \subseteq S
    <3> HIDE DEF S
    <3> QED
      BY <2>1, <2>2, DescentClosed
  <2> QED
    BY <2>3
<1> QED
  BY <1>7, <1>8

---------------------------------------------------------------------------
(* The advice follows from the state alone.                                *)

LEMMA StateKept ==
    ASSUME UNCHANGED state PROVE Advice' = Advice
<1> USE DEF state, files, env
<1>1. \A s : In(s)' = In(s)
  BY DEF In
<1>2. Written' = Written /\ Unfinished' = Unfinished
  BY <1>1 DEF Written, Unfinished
<1>3. \A t : Deps(t)' = Deps(t)
  BY DEF Deps
<1>4. \A t : Unmet(t)' = Unmet(t)
  BY <1>1, <1>3 DEF Unmet
<1>5. \A t : Reach(t)' = Reach(t)
  BY <1>4 DEF Reach
<1>6. \A t : Problem(t)' <=> Problem(t)
  BY <1>2, <1>3, <1>4, <1>5 DEF Problem
<1>7. \A t : FirstUnmet(t)' = FirstUnmet(t)
  BY <1>4 DEF FirstUnmet
<1>8. \A t : Descent(t)' = Descent(t)
  BY <1>4, <1>7 DEF Descent
<1>9. \A t : Prerequisite(t)' = Prerequisite(t)
  BY <1>4, <1>8 DEF Prerequisite
<1>10. \A t : Waits(t)' <=> Waits(t)
  BY <1>4, <1>6 DEF Waits
<1>11. Active' = Active /\ Ready' = Ready
  BY <1>1, <1>4 DEF Active, Ready
<1>12. NextOpen' = NextOpen
  BY <1>11 DEF NextOpen
<1>13. ActiveWaits' <=> ActiveWaits
  BY <1>10, <1>11 DEF ActiveWaits
<1>14. Routed' = Routed
  BY <1>9, <1>11, <1>12, <1>13 DEF Routed
<1>15. \A p : HasTask(p)' <=> HasTask(p)
  BY <1>2 DEF HasTask
<1>16. \A S : Unstarted(S)' = Unstarted(S)
  BY <1>15 DEF Unstarted
<1>17. \A c : Closed(c)' <=> Closed(c)
  BY DEF Closed
<1>18. ClosedPhase' = ClosedPhase
  BY <1>17 DEF ClosedPhase
<1>19. ClosedTask' = ClosedTask
  BY <1>1, <1>17 DEF ClosedTask
<1>20. MissingFiles' = MissingFiles /\ Sequence' = Sequence
  BY DEF MissingFiles, Sequence
<1>21. Planning' = Planning
  BY <1>2, <1>16, <1>17, <1>18, <1>19, <1>20 DEF Planning, Review
<1>22. PlanComplete' <=> PlanComplete
  BY <1>2, <1>12, <1>15, <1>16, <1>20 DEF PlanComplete
<1> QED
  BY <1>1, <1>14, <1>21, <1>22 DEF Advice

---------------------------------------------------------------------------
(* What the advice says of the files.                                      *)

LEMMA ReviewedWhereRequired ==
    ASSUME RoutingType, Planning.do = "nothing"
    PROVE  MissingReviews = {}
<1>1. /\ ~ Closed(Checkpoint("requirements", 0)) /\ ~ Closed(Checkpoint("plan", 0))
      /\ ClosedPhase = None /\ ClosedTask = None
  BY DEF Planning, Step, Review
<1>2. \A p \in authored : ~ Closed(Checkpoint("phase", p))
  <2> DEFINE S == {p \in authored : Closed(Checkpoint("phase", p))}
  <2>1. S \subseteq Nat \ {0}
    BY PhasesNumbered DEF RoutingType
  <2>2. First(S) = None
    BY <1>1 DEF ClosedPhase
  <2> HIDE DEF S
  <2>3. S = {}
    BY <2>1, <2>2, FirstOf
  <2> QED
    BY <2>3 DEF S
<1>3. \A t \in Written : ~ Closed(Checkpoint("task", t))
  <2> DEFINE of(s) == {t \in In(s) : Closed(Checkpoint("task", t))}
             order == <<"open", "in-progress", "in-review", "done">>
             hits == {i \in 1 .. 4 : of(order[i]) # {}}
  <2>1. \A s : of(s) \subseteq Nat \ {0}
    BY RoutingAssumption DEF In
  <2>2. hits # {} => ClosedTask = First(of(order[Min(hits)]))
    BY Zenon DEF ClosedTask
  <2>3. \A t \in Written : \E i \in 1 .. 4 : t \in In(order[i])
    <3> SUFFICES ASSUME NEW t \in Written PROVE \E i \in 1 .. 4 : t \in In(order[i])
      OBVIOUS
    <3>1. place[t] \in {order[1], order[2], order[3], order[4]} /\ t \in Tasks
      BY DEF Written, In, RoutingType, Directories
    <3> QED
      BY <3>1 DEF In
  <2> HIDE DEF order
  <2>4. hits = {}
    <3> SUFFICES ASSUME hits # {} PROVE FALSE
      OBVIOUS
    <3>1. hits \subseteq Nat
      OBVIOUS
    <3>2. Min(hits) \in hits
      <4> HIDE DEF hits
      <4> QED
        BY <3>1, MinIsLeast
    <3>3. of(order[Min(hits)]) # {}
      BY <3>2
    <3> HIDE DEF of, hits
    <3>4. First(of(order[Min(hits)])) # None
      BY <2>1, <3>3, FirstOf
    <3> QED
      BY <1>1, <2>2, <3>4
  <2> QED
    BY <2>3, <2>4
<1> QED
  BY <1>1, <1>2, <1>3 DEF MissingReviews, Checkpoint, Checkpoints

LEMMA PlannedThrough ==
    ASSUME RoutingType, Grown, Planning.do = "nothing", Unfinished = {}
    PROVE  /\ MissingFiles = {} /\ Unstarted(Sequence) = None
           /\ \E p \in Sequence : HasTask(p)
<1>1. MissingFiles = {} /\ Written # {} /\ Unstarted(authored) = None
  BY DEF Planning, Step, Review
<1>2. Sequence = authored
  BY <1>1 DEF Sequence, MissingFiles
<1>3. PICK t \in Written : PhaseOf[t] \in authored
  BY <1>1 DEF Grown
<1>4. HasTask(PhaseOf[t])
  BY DEF HasTask
<1> QED
  BY <1>1, <1>2, <1>3, <1>4

\* With work left, nothing of the planning stands before it but a review.
LEMMA WorkIsPlanned ==
    ASSUME RoutingType, Grown, Unfinished # {}, Planning.do # "review"
    PROVE  Planning.do = "nothing"
<1>1. Written # {}
  BY DEF Unfinished
<1>2. authored # {} /\ plan /\ requirements
  BY <1>1 DEF Grown
<1> QED
  BY <1>1, <1>2 DEF Planning, Step, Review

LEMMA PlanningSays == Planning.do \in {"requirements", "review", "plan", "phases", "phase",
                                       "tasks", "nothing"}
BY DEF Planning, Step, Review

LEMMA OpenChosen ==
    ASSUME RoutingType
    PROVE  /\ NextOpen = None <=> Ready = {}
           /\ NextOpen # None => NextOpen \in Ready
<1> DEFINE phases == {PhaseOf[t] : t \in Ready}
           phase == First(phases)
           S == {t \in Ready : PhaseOf[t] = phase}
<1>1. Ready \subseteq Tasks /\ Tasks \subseteq Nat \ {0}
  BY RoutingAssumption DEF Ready, In
<1>2. phases \subseteq Nat \ {0}
  BY <1>1, PhasesNumbered
<1>3. phases # {} => phase \in phases
  <2> HIDE DEF phases
  <2> QED
    BY <1>2, FirstOf
<1>4. Ready = {} <=> S = {}
  BY <1>3
<1>5. S \subseteq Nat \ {0} /\ S \subseteq Ready
  BY <1>1
<1>6. NextOpen = First(S)
  BY DEF NextOpen
<1> HIDE DEF S
<1> QED
  BY <1>4, <1>5, <1>6, FirstOf

LEMMA ActiveChosen ==
    /\ Active = None <=> In("in-progress") = {} /\ In("in-review") = {}
    /\ Active # None => Active \in In("in-progress") \cup In("in-review")
<1>1. \A s : In(s) \subseteq Nat \ {0}
  BY RoutingAssumption DEF In
<1> QED
  BY <1>1, FirstOf DEF Active

---------------------------------------------------------------------------
(* The two statements, of every state the invariant describes.             *)

LEMMA ClosableWhenComplete ==
    ASSUME RoutingInv PROVE CompleteIsClosable
<1> SUFFICES ASSUME Advice.do = "close", ~ early
             PROVE  /\ CloseBlockers = {} /\ MissingReviews = {}
                    /\ \E t \in Tasks : place[t] = "done"
  BY DEF CompleteIsClosable, RoutingInv
<1>1. PlanComplete /\ Planning.do = "nothing"
  BY PlanningSays DEF Advice, Step
<1>2. MissingReviews = {}
  BY <1>1, ReviewedWhereRequired DEF RoutingInv
<1>3. Unfinished = {} /\ MissingFiles = {}
  BY <1>1 DEF PlanComplete
<1>4. CloseBlockers = {}
  BY <1>3 DEF CloseBlockers
<1>5. \E t \in Tasks : place[t] = "done"
  BY <1>1, <1>3 DEF PlanComplete, HasTask, Written, Unfinished, In
<1> QED
  BY <1>2, <1>4, <1>5

LEMMA StateSaysTheSame ==
    ASSUME RoutingInv PROVE StateAgrees
<1> SUFFICES ASSUME ~ note, ~ early, Planning.do # "review"
             PROVE  StateSays = Advice
  BY DEF StateAgrees, RoutingInv
<1>1. RoutingType /\ Grown
  BY DEF RoutingInv
<1>2. In("open") \cup In("in-progress") \cup In("in-review") = Unfinished
  BY <1>1 DEF In, Written, Unfinished, RoutingType, Directories
<1>3. CASE ActiveWaits
  <2> DEFINE p == Prerequisite(Active)
  <2>1. Active # None /\ Active \in Tasks /\ Waits(Active)
    BY <1>3, ActiveChosen DEF ActiveWaits, In
  <2>2. p \in Tasks /\ p # None
    BY <1>1, <2>1, WaitEnds, DescentClosed, RoutingAssumption DEF None
  <2>3. Planning.do = "nothing"
    BY <1>1, <1>2, <2>1, ActiveChosen, WorkIsPlanned
  <2> HIDE DEF p
  <2>4. StateSays = Step(IF place[p] = "open" THEN "start" ELSE "continue", p)
    BY <1>3, <2>1 DEF StateSays, InFlight, p
  <2>5. Routed = IF place[p] = "open" THEN [active |-> None, next |-> p]
                 ELSE [active |-> p, next |-> None]
    BY <1>3 DEF Routed, p
  <2> QED
    BY <2>2, <2>3, <2>4, <2>5 DEF Advice
<1>4. CASE ~ ActiveWaits /\ Active # None
  <2>1. StateSays = Step("continue", Active)
    BY <1>4 DEF StateSays, InFlight
  <2>2. Routed.active = Active
    BY <1>4 DEF Routed
  <2> QED
    BY <1>4, <2>1, <2>2 DEF Advice
<1>5. CASE Active = None
  <2>1. Routed.active = None /\ Routed.next = NextOpen
    BY <1>5 DEF Routed, ActiveWaits
  <2>2. In("in-progress") = {} /\ In("in-review") = {}
    BY <1>5, ActiveChosen
  <2>3. Unfinished = In("open")
    BY <1>2, <2>2
  <2>4. NextOpen = None <=> Ready = {}
    BY <1>1, OpenChosen
  <2>5. Ready \subseteq In("open")
    BY DEF Ready
  <2>6. In("open") # {} => Planning.do = "nothing"
    BY <1>1, <2>3, WorkIsPlanned
  <2>7. CASE In("open") # {}
    BY <1>5, <2>1, <2>4, <2>6, <2>7 DEF StateSays, Advice
  <2>8. CASE In("open") = {} /\ Planning.do # "nothing"
    BY <1>5, <2>1, <2>8 DEF StateSays, Advice
  <2>9. CASE In("open") = {} /\ Planning.do = "nothing"
    <3>1. NextOpen = None /\ Unfinished = {} /\ Ready = {}
      BY <2>3, <2>4, <2>5, <2>9
    <3>2. PlanComplete
      BY <1>1, <2>9, <3>1, PlannedThrough DEF PlanComplete
    <3> QED
      BY <1>5, <2>1, <2>9, <3>1, <3>2 DEF StateSays, Advice
  <2> QED
    BY <2>7, <2>8, <2>9
<1> QED
  BY <1>3, <1>4, <1>5

---------------------------------------------------------------------------
(* The advice followed, and what else happens, keep the invariant.         *)

LEMMA PlanningIs ==
    ASSUME RoutingType
    PROVE  /\ Planning.do = "plan" => requirements
           /\ Planning.do = "phases" => plan /\ authored = {}
           /\ Planning.do = "phase" => plan /\ Planning.on \in declared
           /\ Planning.do = "tasks" => Planning.on \in authored
<1>1. /\ MissingFiles # {} => First(MissingFiles) \in declared
      /\ authored # {} => First(authored) \in authored
  <2>1. MissingFiles \subseteq Nat \ {0} /\ authored \subseteq Nat \ {0}
    BY PhasesNumbered DEF RoutingType, MissingFiles
  <2>2. MissingFiles # {} => First(MissingFiles) \in MissingFiles
    BY <2>1, FirstOf
  <2> QED
    BY <2>1, <2>2, FirstOf DEF MissingFiles
<1>2. Unstarted(authored) # None => Unstarted(authored) \in authored
  <2> DEFINE S == {p \in authored : \A q \in authored : HasTask(q) => q < p}
  <2>1. S \subseteq Nat \ {0} /\ S \subseteq authored
    BY PhasesNumbered DEF RoutingType
  <2>2. Unstarted(authored) = First(S)
    BY DEF Unstarted
  <2> HIDE DEF S
  <2> QED
    BY <2>1, <2>2, FirstOf
<1> QED
  BY <1>1, <1>2 DEF Planning, Step, Review

\* Whoever is sent to plan is sent where the planning stands; whoever is sent
\* to a task is sent to one that is there.
LEMMA AdviceIs ==
    ASSUME RoutingInv
    PROVE  /\ advice.do \in {"plan", "phases", "phase", "tasks"} => advice = Planning
           /\ advice.do = "start" => advice.on \in Written
           /\ advice.do = "continue" => advice.on \in Written
<1>1. RoutingType /\ advice = Advice
  BY DEF RoutingInv
<1>2. Active # None => Active \in Written
  BY ActiveChosen DEF In, Written
<1>3. NextOpen # None => NextOpen \in Written
  BY <1>1, OpenChosen DEF Ready, In, Written
<1>4. ActiveWaits => Prerequisite(Active) \in Written
  BY <1>1, <1>2, WaitEnds DEF ActiveWaits, Written
<1>5. /\ Routed.active # None => Routed.active \in Written
      /\ Routed.next # None => Routed.next \in Written
  BY <1>2, <1>3, <1>4 DEF Routed
<1> QED
  BY <1>1, <1>5, PlanningSays DEF Advice, Step

LEMMA PlanningStep ==
    ASSUME RoutingInv, WriteRequirements \/ WritePlan \/ WritePhases \/ WritePhase
    PROVE  RoutingType' /\ Grown'
<1> USE DEF files, env, RoutingType
<1>1. RoutingType /\ Grown
  BY DEF RoutingInv
<1>2. CASE WriteRequirements
  BY <1>1, <1>2 DEF WriteRequirements, Grown, Written, In
<1>3. CASE WritePlan
  <2>1. requirements
    BY <1>1, <1>3, AdviceIs, PlanningIs DEF WritePlan
  <2> QED
    BY <1>1, <1>3, <2>1 DEF WritePlan, Grown, Written, In
<1>4. CASE WritePhases
  <2>1. plan /\ authored = {}
    BY <1>1, <1>4, AdviceIs, PlanningIs DEF WritePhases
  <2>2. Written = {}
    BY <1>1, <2>1 DEF Grown
  <2>3. Written' = Written
    BY <1>4 DEF WritePhases, Written, In
  <2> QED
    BY <1>1, <1>4, <2>1, <2>2, <2>3 DEF WritePhases, Grown
<1>5. CASE WritePhase
  <2>1. plan /\ advice.on \in declared
    BY <1>1, <1>5, AdviceIs, PlanningIs DEF WritePhase
  <2> QED
    BY <1>1, <1>5, <2>1 DEF WritePhase, Grown, Written, In
<1> QED
  BY <1>2, <1>3, <1>4, <1>5

LEMMA TasksStep ==
    ASSUME RoutingInv, WriteTasks
    PROVE  RoutingType' /\ Grown'
<1> USE DEF files, env, RoutingType
<1>1. RoutingType /\ Grown
  BY DEF RoutingInv
<1>2. advice.on \in authored
  BY <1>1, AdviceIs, PlanningIs DEF WriteTasks
<1>3. PICK new \in SUBSET {t \in In("none") : PhaseOf[t] = advice.on} \ {{}} :
        /\ place' = [t \in Tasks |-> IF t \in new THEN "open" ELSE place[t]]
        /\ \E on \in [new -> {<<>>} \cup {<<d>> : d \in Written \cup new}] :
             deps' = [t \in Tasks |-> IF t \in new THEN on[t] ELSE deps[t]]
  BY DEF WriteTasks
<1>4. PICK on \in [new -> {<<>>} \cup {<<d>> : d \in Written \cup new}] :
        deps' = [t \in Tasks |-> IF t \in new THEN on[t] ELSE deps[t]]
  BY <1>3
<1>5. new \subseteq Tasks /\ Written \subseteq Tasks /\ \A t \in new : PhaseOf[t] = advice.on
  BY DEF In, Written
<1>6. place' \in [Tasks -> Directories]
  BY <1>1, <1>3 DEF Directories
<1>7. deps' \in [Tasks -> Seq(Tasks \cup {NoSuchTask})]
  <2>1. \A t \in new : on[t] \in Seq(Tasks \cup {NoSuchTask})
    <3> SUFFICES ASSUME NEW t \in new PROVE on[t] \in Seq(Tasks \cup {NoSuchTask})
      OBVIOUS
    <3>1. on[t] = <<>> \/ \E d \in Tasks \cup {NoSuchTask} : on[t] = <<d>>
      BY <1>5
    <3> QED
      BY <3>1, ShortLists
  <2> QED
    BY <1>1, <1>4, <2>1
<1>8. UNCHANGED <<requirements, plan, declared, authored, required>>
  BY DEF WriteTasks
<1>9. \A t \in Written' : t \in Written \/ t \in new
  BY <1>3 DEF Written, In
<1> QED
  BY <1>1, <1>2, <1>5, <1>6, <1>7, <1>8, <1>9 DEF Grown

LEMMA WorkStep ==
    ASSUME RoutingInv, Checkpointed \/ StartTask \/ ContinueTask \/ Unblock \/ Answer
    PROVE  RoutingType' /\ Grown'
<1> USE DEF files, env, RoutingType
<1>1. RoutingType /\ Grown
  BY DEF RoutingInv
<1>2. CASE Checkpointed
  BY <1>1, <1>2 DEF Checkpointed, Grown, Written, In
<1>3. CASE StartTask
  <2>1. advice.on \in Written
    BY <1>3, AdviceIs DEF StartTask
  <2> QED
    BY <1>1, <1>3, <2>1 DEF StartTask, Grown, Written, In, Directories
<1>4. CASE ContinueTask
  <2>1. advice.on \in Written
    BY <1>4, AdviceIs DEF ContinueTask
  <2>2. /\ \E s \in Directories : place' = [place EXCEPT ![advice.on] = s]
        /\ UNCHANGED <<requirements, plan, declared, authored, required, deps>>
    BY <1>4 DEF ContinueTask, Directories
  <2> QED
    BY <1>1, <2>1, <2>2 DEF Grown, Written, In
<1>5. CASE Unblock
  BY <1>1, <1>5 DEF Unblock, Grown, Written, In
<1>6. CASE Answer
  BY <1>1, <1>6 DEF Answer, Grown, Written, In
<1> QED
  BY <1>2, <1>3, <1>4, <1>5, <1>6

LEMMA ElseStep ==
    ASSUME RoutingInv,
           \/ \E t \in Tasks, d \in Tasks \cup {NoSuchTask} : Replan(t, d)
           \/ \E p \in Phases : AddPhase(p)
           \/ \E t \in Tasks : Stray(t)
           \/ Operator
    PROVE  RoutingType' /\ Grown'
<1> USE DEF files, RoutingType
<1>1. RoutingType /\ Grown
  BY DEF RoutingInv
<1>2. ASSUME NEW t \in Tasks, NEW d \in Tasks \cup {NoSuchTask}, Replan(t, d)
      PROVE  RoutingType' /\ Grown'
  <2>1. deps[t] \in Seq(Tasks \cup {NoSuchTask})
    BY <1>1
  <2>2. Append(deps[t], d) \in Seq(Tasks \cup {NoSuchTask})
    BY <2>1
  <2>3. deps' \in [Tasks -> Seq(Tasks \cup {NoSuchTask})]
    BY <1>1, <1>2, <2>2 DEF Replan
  <2>4. place' \in [Tasks -> Directories]
    BY <1>1, <1>2 DEF Replan, Directories
  <2>5. UNCHANGED <<requirements, plan, declared, authored, required>>
    BY <1>2 DEF Replan
  <2>6. \A u \in Written' : u \in Written \/ PhaseOf[u] \in authored
    BY <1>2 DEF Replan, Written, In
  <2> QED
    BY <1>1, <2>3, <2>4, <2>5, <2>6 DEF Grown
<1>3. ASSUME NEW p \in Phases, AddPhase(p) PROVE RoutingType' /\ Grown'
  BY <1>1, <1>3 DEF AddPhase, Grown, Written, In
<1>4. ASSUME NEW t \in Tasks, Stray(t) PROVE RoutingType' /\ Grown'
  BY <1>1, <1>4 DEF Stray, Grown, Written, In, Directories
<1>5. CASE Operator
  BY <1>1, <1>5 DEF Operator, Grown, Written, In
<1> QED
  BY <1>2, <1>3, <1>4, <1>5

LEMMA RoutingInductive == Spec => []RoutingInv
<1>1. Init => RoutingInv
  <2> SUFFICES ASSUME Init PROVE RoutingInv
    OBVIOUS
  <2>1. deps \in [Tasks -> Seq(Tasks \cup {NoSuchTask})]
    <3> DEFINE Lists == Seq(Tasks \cup {NoSuchTask})
    <3>1. <<>> \in Lists
      BY ShortLists
    <3> HIDE DEF Lists
    <3> QED
      BY <3>1 DEF Init
  <2>2. RoutingType
    BY <2>1 DEF Init, RoutingType, Directories
  <2>3. Grown
    BY DEF Init, Grown, Written, In
  <2> QED
    BY <2>2, <2>3 DEF Init, RoutingInv
<1>2. RoutingInv /\ [Next]_vars => RoutingInv'
  <2> SUFFICES ASSUME RoutingInv, [Next]_vars PROVE RoutingInv'
    OBVIOUS
  <2>1. CASE Next
    <3>1. advice' = Advice' /\ Happens
      BY <2>1 DEF Next
    <3>2. RoutingType' /\ Grown'
      BY <3>1, PlanningStep, TasksStep, WorkStep, ElseStep DEF Happens, Follow
    <3> QED
      BY <3>1, <3>2 DEF RoutingInv
  <2>2. CASE UNCHANGED vars
    <3>1. UNCHANGED state /\ advice' = advice
      BY <2>2 DEF vars
    <3>2. RoutingType' /\ Grown'
      BY <3>1 DEF RoutingInv, RoutingType, Grown, Written, In, state, files, env
    <3> QED
      BY <3>1, <3>2, StateKept DEF RoutingInv
  <2> QED
    BY <2>1, <2>2
<1> QED
  BY <1>1, <1>2, PTL DEF Spec

\* A plan that next-action calls complete, and no operator ended, has nothing
\* unfinished, unplanned or unreviewed (next_action.py and the two audits).
THEOREM CompletePlansClose == Spec => []CompleteIsClosable
<1>1. RoutingInv => CompleteIsClosable
  BY ClosableWhenComplete
<1> QED
  BY <1>1, RoutingInductive, PTL

\* STATE.md never sends the next session elsewhere than next-action does
\* (compose_state.py beside next_action.py).
THEOREM StateFollowsAdvice == Spec => []StateAgrees
<1>1. RoutingInv => StateAgrees
  BY StateSaysTheSame
<1> QED
  BY <1>1, RoutingInductive, PTL
=============================================================================
