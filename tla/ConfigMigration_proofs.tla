----------------------- MODULE ConfigMigration_proofs -----------------------
(***************************************************************************)
(* Migrations, where MCConfigMigration hosts them: of the configuration,   *)
(* for any finite set of projects over one shared file, any budgets, any   *)
(* number of migrations one after another or overlapping and any number    *)
(* that die; and, in the last part, of a project's files, for any          *)
(* artifacts, edits, failed records and applications that die.             *)
(***************************************************************************)
EXTENDS MCConfigMigration, Sequences, FiniteSetTheorems, TLAPS

Files == [auto : C!Automation, hand : BOOLEAN, launch : SUBSET {"task_run", "task_review"},
          mark : BOOLEAN]

\* The shared pair g0 in the new vocabulary, under either decision about its budget.
SharedForm(g0, g) ==
    /\ g \in C!Automation /\ g.conf = C!None
    /\ g.rb = IF g0.conf = C!None THEN C!None ELSE C!BoundaryOf[g0.conf]
    /\ \/ g.bud = C!Absent
       \/ g.rb = C!Budgeted /\ g.bud = C!First(g0.bud, C!DefaultBudget, C!Absent, C!Absent)

\* The project's pair f0 in the new vocabulary, beside the shared pair g0: it states
\* the budget itself, or inherits the one that the shared file keeps.
OwnForm(g0, f0, f) ==
    /\ f \in C!Automation /\ f.conf = C!None
    /\ f.rb = IF f0.conf = C!None THEN C!None ELSE C!BoundaryOf[f0.conf]
    /\ IF C!BoundaryOf[C!LegacyPace(g0, f0)] = C!Budgeted
       THEN /\ C!LegacyBudget(g0, f0) > 0
            /\ \/ f.bud = C!LegacyBudget(g0, f0)
               \/ f.bud = C!Absent /\ f0.bud = C!Absent /\ g0.conf = "until-blocked"
       ELSE f.bud = C!Absent

\* The two files as some migration may leave them.
Reachable(g0, f0, g, f) ==
    /\ g0 \in C!LegacyForms /\ f0 \in C!LegacyForms
    /\ g = g0 \/ SharedForm(g0, g)
    /\ f = f0 \/ OwnForm(g0, f0, f)
    /\ g # g0 => OwnForm(g0, f0, f)

LEMMA BudgetsAreNumbers ==
    /\ Budgets \cup {C!Absent, C!DefaultBudget} \subseteq Int
    /\ C!Absent \notin Budgets
BY ConfigAssumption DEF C!Absent, C!DefaultBudget

LEMMA LegacyTyped ==
    ASSUME NEW x \in C!LegacyForms
    PROVE  /\ x \in C!Automation /\ x.rb = C!None
           /\ x = [conf |-> x.conf, rb |-> C!None, bud |-> x.bud]
           /\ x.conf \in {"each-handoff", "until-blocked", C!None} /\ x.bud \in Int
BY BudgetsAreNumbers DEF C!LegacyForms, C!Automation, C!Paces

LEMMA AutomationIs ==
    ASSUME NEW x \in C!Automation
    PROVE  /\ x.conf \in {"each-handoff", "until-blocked", C!None}
           /\ x.rb \in {C!None, C!Complete, C!Budgeted} /\ x.bud \in Int
           /\ x = [conf |-> x.conf, rb |-> x.rb, bud |-> x.bud]
BY BudgetsAreNumbers DEF C!Automation, C!Paces

\* What renaming and the two decisions about the budget do, field by field.
LEMMA RenamedIs ==
    ASSUME NEW a \in C!Automation
    PROVE  /\ C!Renamed(a) \in C!Automation /\ C!Renamed(a).conf = C!None /\ C!Renamed(a).bud = a.bud
           /\ C!Renamed(a).rb = IF a.conf = C!None THEN a.rb ELSE C!BoundaryOf[a.conf]
BY AutomationIs DEF C!Renamed, C!BoundaryOf, C!Paces, C!Automation, C!None, C!Complete, C!Budgeted

LEMMA SharedBudgetIs ==
    ASSUME NEW a \in C!Automation, NEW share \in BOOLEAN
    PROVE  /\ C!SharedBudget(a, share) \in C!Automation
           /\ C!SharedBudget(a, share).conf = a.conf /\ C!SharedBudget(a, share).rb = a.rb
           /\ \/ C!SharedBudget(a, share).bud = C!Absent
              \/ /\ a.rb = C!Budgeted
                 /\ C!SharedBudget(a, share).bud = C!First(a.bud, C!DefaultBudget, C!Absent, C!Absent)
BY AutomationIs DEF C!SharedBudget, C!First, C!Automation

LEMMA CarriedIs ==
    ASSUME NEW a \in C!Automation, NEW g \in C!Automation, NEW boundary, NEW budget \in Budgets \cup {C!Absent, C!DefaultBudget},
           boundary = C!Budgeted => a.rb \in {C!None, C!Budgeted}
    PROVE  LET x == C!Carried(C!InertDropped(a, boundary), g, boundary, budget)
           IN  /\ x \in C!Automation /\ x.conf = a.conf /\ x.rb = a.rb
               /\ boundary # C!Budgeted => x.bud = C!Absent
               /\ boundary = C!Budgeted =>
                    x.bud = IF C!First(a.bud, g.bud, C!Absent, C!Absent) # budget THEN budget ELSE a.bud
BY AutomationIs DEF C!Carried, C!InertDropped, C!First, C!Automation

\* A plan leaves a pair of files alone, or writes the pair of the new vocabulary.
LEMMA MapIs ==
    ASSUME NEW g \in C!Automation, NEW f \in C!Automation, NEW share \in BOOLEAN,
           C!MapPace(g, f, share).ok
    PROVE  LET m == C!MapPace(g, f, share)
               boundary == C!BoundaryOf[C!LegacyPace(g, f)]
               budget == C!LegacyBudget(g, f)
           IN  \/ /\ m.g = g /\ m.p = f /\ g.conf = C!None /\ f.conf = C!None
                  /\ \/ g.rb # C!None \/ f.rb # C!None
                     \/ g.bud = C!Absent /\ f.bud = C!Absent
               \/ /\ m.g = C!SharedBudget(C!Renamed(g), share)
                  /\ m.p = C!Carried(C!InertDropped(C!Renamed(f), boundary), m.g, boundary, budget)
                  /\ boundary = C!Budgeted => budget > 0
                  /\ g.rb = C!None /\ f.rb = C!None
                  /\ g.conf # C!None \/ f.conf # C!None \/ g.bud # C!Absent \/ f.bud # C!Absent
<1>1. C!LegacyBudget(g, f) \in Int
  BY AutomationIs DEF C!LegacyBudget, C!First, C!DefaultBudget
<1> QED
  BY <1>1 DEF C!MapPace

LEMMA PaceIs ==
    ASSUME NEW g \in C!Automation, NEW f \in C!Automation
    PROVE  /\ C!LegacyPace(g, f) = IF f.conf # C!None THEN f.conf ELSE IF g.conf # C!None THEN g.conf ELSE "each-handoff"
           /\ C!LegacyPace(g, f) \in C!Paces
           /\ C!LegacyBudget(g, f) = IF f.bud # C!Absent THEN f.bud ELSE IF g.bud # C!Absent THEN g.bud ELSE C!DefaultBudget
           /\ C!LegacyBudget(g, f) \in Budgets \cup {C!DefaultBudget}
BY AutomationIs DEF C!LegacyPace, C!LegacyBudget, C!First, C!Automation, C!Paces, C!None

\* The pair m planned for (g, f) is that pair, with nothing legacy in it, or a reachable one.
Closed(g0, f0, g, f, m) ==
    \/ /\ m.g = g /\ m.p = f /\ g.conf = C!None /\ f.conf = C!None
       /\ \/ g.rb # C!None \/ f.rb # C!None
          \/ g.bud = C!Absent /\ f.bud = C!Absent
    \/ /\ SharedForm(g0, m.g) /\ OwnForm(g0, f0, m.p)
       /\ m.g # g => g.rb = C!None /\ (g.conf # C!None \/ g.bud # C!Absent)

LEMMA MapCloses ==
    ASSUME NEW g0, NEW f0, NEW g, NEW f, Reachable(g0, f0, g, f), NEW share \in BOOLEAN,
           C!MapPace(g, f, share).ok
    PROVE  Closed(g0, f0, g, f, C!MapPace(g, f, share))
<1> DEFINE m == C!MapPace(g, f, share)
           G == m.g
           P == m.p
           boundary == C!BoundaryOf[C!LegacyPace(g, f)]
           budget == C!LegacyBudget(g, f)
<1>1. /\ g0 \in C!Automation /\ f0 \in C!Automation /\ g \in C!Automation /\ f \in C!Automation
      /\ g0.rb = C!None /\ f0.rb = C!None
  BY LegacyTyped DEF Reachable, SharedForm, OwnForm
<1>2. CASE /\ m.g = g /\ m.p = f /\ g.conf = C!None /\ f.conf = C!None
           /\ \/ g.rb # C!None \/ f.rb # C!None
              \/ g.bud = C!Absent /\ f.bud = C!Absent
  BY <1>2 DEF Closed
<1>3. CASE /\ m.g = C!SharedBudget(C!Renamed(g), share)
           /\ m.p = C!Carried(C!InertDropped(C!Renamed(f), boundary), m.g, boundary, budget)
           /\ boundary = C!Budgeted => budget > 0
           /\ g.rb = C!None /\ f.rb = C!None
           /\ g.conf # C!None \/ f.conf # C!None \/ g.bud # C!Absent \/ f.bud # C!Absent
  <2> DEFINE r == C!Renamed(f)
  <2> DEFINE rg == C!Renamed(g)
  <2>9. /\ rg \in C!Automation /\ rg.conf = C!None /\ rg.bud = g.bud
        /\ rg.rb = IF g.conf = C!None THEN C!None ELSE C!BoundaryOf[g.conf]
    BY <1>1, <1>3, RenamedIs
  <2> HIDE DEF rg, G, m
  <2>10. /\ G = C!SharedBudget(rg, share)
    BY <1>3 DEF rg, G, m
  <2>11. /\ G \in C!Automation /\ G.conf = rg.conf /\ G.rb = rg.rb
         /\ \/ G.bud = C!Absent
            \/ G.rb = C!Budgeted /\ G.bud = C!First(rg.bud, C!DefaultBudget, C!Absent, C!Absent)
    BY <2>9, <2>10, SharedBudgetIs, Zenon
  <2>1. /\ G \in C!Automation /\ G.conf = C!None
        /\ G.rb = IF g.conf = C!None THEN C!None ELSE C!BoundaryOf[g.conf]
        /\ \/ G.bud = C!Absent
           \/ G.rb = C!Budgeted /\ G.bud = C!First(g.bud, C!DefaultBudget, C!Absent, C!Absent)
    BY <2>9, <2>11
  <2>2. /\ boundary \in {C!Complete, C!Budgeted} /\ budget \in Budgets \cup {C!DefaultBudget}
        /\ r \in C!Automation /\ r.conf = C!None /\ r.bud = f.bud
        /\ r.rb = IF f.conf = C!None THEN C!None ELSE C!BoundaryOf[f.conf]
    BY <1>1, <1>3, PaceIs, RenamedIs DEF C!BoundaryOf, C!Paces
  <2>3. boundary = C!Budgeted => r.rb \in {C!None, C!Budgeted}
    BY <1>1, <2>2, PaceIs
  <2> HIDE DEF r, G, boundary, budget, m
  <2>4. /\ P \in C!Automation /\ P.conf = C!None /\ P.rb = r.rb
        /\ boundary # C!Budgeted => P.bud = C!Absent
        /\ boundary = C!Budgeted =>
             P.bud = IF C!First(f.bud, G.bud, C!Absent, C!Absent) # budget THEN budget ELSE f.bud
    BY <1>3, <2>1, <2>2, <2>3, CarriedIs DEF r, G
  <2> HIDE DEF P
  <2>5. /\ boundary = C!BoundaryOf[C!LegacyPace(g, f)] /\ budget = C!LegacyBudget(g, f)
    BY DEF boundary, budget
  <2>6. SharedForm(g0, G)
    BY <1>1, <1>3, <2>1, AutomationIs DEF Reachable, SharedForm, C!BoundaryOf, C!Paces, C!None, C!Complete, C!Budgeted
  <2>7. OwnForm(g0, f0, P)
    <3>1. CASE g = g0 /\ f = f0
      BY <1>1, <1>3, <2>1, <2>2, <2>4, <2>5, <3>1, PaceIs, AutomationIs
      DEF OwnForm, C!First, C!BoundaryOf, C!Paces, C!None, C!Complete, C!Budgeted
    <3>2. CASE g = g0 /\ OwnForm(g0, f0, f)
      BY <1>1, <1>3, <2>1, <2>2, <2>4, <2>5, <3>2, PaceIs, AutomationIs, BudgetsAreNumbers
      DEF OwnForm, C!First, C!BoundaryOf, C!Paces, C!None, C!Complete, C!Budgeted
    <3>3. CASE SharedForm(g0, g) /\ OwnForm(g0, f0, f)
      BY <1>1, <1>3, <2>1, <2>2, <2>4, <2>5, <3>3, PaceIs, AutomationIs, BudgetsAreNumbers
      DEF SharedForm, OwnForm, C!First, C!BoundaryOf, C!Paces, C!None, C!Complete, C!Budgeted
    <3> QED
      BY <3>1, <3>2, <3>3 DEF Reachable
  <2>8. G # g => g.conf # C!None \/ g.bud # C!Absent
    BY <1>1, <1>3, <2>1, AutomationIs DEF C!None, C!Complete, C!Budgeted
  <2> QED
    BY <1>3, <2>6, <2>7, <2>8 DEF G, P, m, Closed
<1> QED
  BY <1>1, <1>2, <1>3, MapIs

LEMMA PairKept ==
    ASSUME NEW g0, NEW f0, NEW g, NEW f, Reachable(g0, f0, g, f)
    PROVE  C!Means(g, f, FALSE) \in {C!LegacyPair(g0, f0), C!Unresolved}
<1> DEFINE m == C!MapPace(g, f, FALSE)
           G == m.g
           P == m.p
           boundary == C!BoundaryOf[C!LegacyPace(g0, f0)]
           budget == C!LegacyBudget(g0, f0)
<1>1. /\ g0 \in C!Automation /\ f0 \in C!Automation /\ g \in C!Automation /\ f \in C!Automation
      /\ g0.rb = C!None /\ f0.rb = C!None
  BY LegacyTyped DEF Reachable, SharedForm, OwnForm
<1>2. CASE ~m.ok
  BY <1>2 DEF C!Means
<1>3. CASE m.ok
  <2>1. C!Means(g, f, FALSE) = C!ResolvePace(G, P)
    BY <1>3 DEF C!Means
  <2>2. /\ C!LegacyPair(g0, f0) = IF boundary = C!Complete THEN <<C!Complete, C!Absent>>
                                  ELSE IF budget > 0 THEN <<C!Budgeted, budget>> ELSE C!Unresolved
        /\ boundary \in {C!Complete, C!Budgeted} /\ budget \in Int
    BY <1>1, PaceIs, BudgetsAreNumbers DEF C!LegacyPair, C!BoundaryOf, C!Paces
  <2>3. \/ /\ G = g /\ P = f /\ g.conf = C!None /\ f.conf = C!None
           /\ \/ g.rb # C!None \/ f.rb # C!None
              \/ g.bud = C!Absent /\ f.bud = C!Absent
        \/ SharedForm(g0, G) /\ OwnForm(g0, f0, P)
    <3>1. Closed(g0, f0, g, f, m)
      BY <1>3, MapCloses
    <3> QED
      BY <3>1 DEF Closed
  <2> HIDE DEF m, G, P
  <2>4. boundary = C!BoundaryOf[C!LegacyPace(g0, f0)] /\ budget = C!LegacyBudget(g0, f0)
    OBVIOUS
  <2> HIDE DEF boundary, budget
  <2>8. /\ g0.conf \in {"each-handoff", "until-blocked", C!None} /\ f0.conf \in {"each-handoff", "until-blocked", C!None}
        /\ g0.bud \in Int /\ f0.bud \in Int
        /\ C!BoundaryOf["each-handoff"] = C!Complete /\ C!BoundaryOf["until-blocked"] = C!Budgeted
        /\ boundary = C!BoundaryOf[IF f0.conf # C!None THEN f0.conf ELSE IF g0.conf # C!None THEN g0.conf ELSE "each-handoff"]
    BY <1>1, <2>4, PaceIs, AutomationIs DEF C!BoundaryOf, C!Paces
  <2> DEFINE rb == C!First(P.rb, G.rb, C!Complete, C!None)
             bud == C!First(P.bud, G.bud, C!Absent, C!Absent)
  <2>9. \/ C!ResolvePace(G, P) = C!Unresolved
        \/ C!ResolvePace(G, P) = <<rb, bud>> /\ (rb = C!Budgeted <=> bud # C!Absent)
    BY DEF C!ResolvePace
  <2>10. \/ rb = C!Complete /\ boundary = C!Complete
         \/ rb = C!Budgeted /\ boundary = C!Budgeted /\ budget > 0 /\ (bud = budget \/ bud = C!Absent)
         => C!ResolvePace(G, P) \in {C!LegacyPair(g0, f0), C!Unresolved}
    <3> HIDE DEF rb, bud
    <3> QED
      BY <2>2, <2>9 DEF C!Complete, C!Budgeted
  <2>5. CASE SharedForm(g0, G) /\ OwnForm(g0, f0, P)
    <3>1. rb = boundary
      BY <2>5, <2>8 DEF SharedForm, OwnForm, C!First, C!None, C!Complete, C!Budgeted
    <3>2. boundary = C!Budgeted => budget > 0 /\ (bud = budget \/ bud = C!Absent)
      BY <2>4, <2>5, <2>8, PaceIs, <1>1 DEF SharedForm, OwnForm, C!First
    <3> QED
      BY <2>1, <2>2, <2>10, <3>1, <3>2
  <2>6. CASE /\ g = g0 /\ f = f0 /\ G = g /\ P = f /\ g.conf = C!None /\ f.conf = C!None
             /\ g.bud = C!Absent /\ f.bud = C!Absent
    <3> QED
      BY <1>1, <2>1, <2>2, <2>4, <2>6, PaceIs
      DEF C!ResolvePace, C!Authorable, C!First, C!BoundaryOf, C!Paces, C!None, C!Complete,
          C!Budgeted, C!Absent, C!Unresolved, C!DefaultBudget
  <2>7. CASE g = g0 /\ OwnForm(g0, f0, f) /\ G = g /\ P = f /\ g.conf = C!None /\ f.conf = C!None
    <3>1. rb = boundary
      BY <1>1, <2>7, <2>8 DEF OwnForm, C!First, C!None, C!Complete, C!Budgeted
    <3>2. boundary = C!Budgeted => budget > 0 /\ (bud = budget \/ bud = C!Absent)
      BY <2>4, <2>7, <2>8, PaceIs, <1>1 DEF OwnForm, C!First
    <3> QED
      BY <2>1, <2>2, <2>10, <3>1, <3>2
  <2> QED
    BY <1>1, <2>3, <2>5, <2>6, <2>7 DEF Reachable
<1> QED
  BY <1>2, <1>3

-----------------------------------------------------------------------------
(* The files and the steps, from the files x0 that the operators wrote.    *)

Started(x0) ==
    /\ x0 \in [C!Scopes -> Files]
    /\ \A s \in C!Scopes : x0[s].auto \in C!LegacyForms /\ x0[s].launch = C!NoLaunch

Lends(x0) == x0[C!Shared].hand
Wide(q) == C!Assigned(q) # C!SafeGlobal
Moved(x0, q) == {x \in Files : OwnForm(x0[C!Shared].auto, x0[q].auto, x.auto)}
Granted(q) == {x \in Files : x.launch = C!Assigned(q)}

\* What the shared file no longer says, each project's own file does.
Held(x0, x) ==
    /\ x \in [C!Scopes -> Files]
    /\ \A q \in Projects :
         /\ x[q].auto = x0[q].auto \/ x[q] \in Moved(x0, q)
         /\ x[q].launch = C!NoLaunch \/ (Lends(x0) /\ x[q].launch = C!Assigned(q))
    /\ x[C!Shared].auto = x0[C!Shared].auto \/ SharedForm(x0[C!Shared].auto, x[C!Shared].auto)
    /\ \/ (x[C!Shared].hand <=> Lends(x0)) /\ x[C!Shared].launch = C!NoLaunch
       \/ Lends(x0) /\ ~x[C!Shared].hand /\ x[C!Shared].launch = C!SafeGlobal
    /\ x[C!Shared].auto # x0[C!Shared].auto => \A q \in Projects : x[q] \in Moved(x0, q)
    /\ Lends(x0) /\ ~x[C!Shared].hand => \A q \in Projects : Wide(q) => x[q] \in Granted(q)

Steps == [kind : {"write-project", "materialize", "write-global", "update-marker"},
          scope : C!Scopes, before : Files, after : Files]

FitsOwn(x0, q, b, a) ==
    /\ a.auto = b.auto \/ a \in Moved(x0, q)
    /\ a.launch = b.launch \/ (Lends(x0) /\ a.launch = C!Assigned(q))
FitsShared(x0, b, a) ==
    /\ a.auto = b.auto \/ SharedForm(x0[C!Shared].auto, a.auto)
    /\ \/ (a.hand <=> b.hand) /\ a.launch = b.launch
       \/ Lends(x0) /\ ~a.hand /\ a.launch = C!SafeGlobal

\* A step carries a scope forward.
Fits(x0, s) ==
    /\ s \in Steps
    /\ s.scope \in Projects => FitsOwn(x0, s.scope, s.before, s.after)
    /\ s.scope = C!Shared => FitsShared(x0, s.before, s.after)

\* The run r has the j-th step still to do.
Ahead(r, j) ==
    \/ r.at = "planned"
    \/ r.at \in {"step", "write"} /\ j >= r.i /\ r.applied[j]
    \/ r.at = "checkpoint" /\ j > r.i /\ r.applied[j]

\* The file of q is in S, or the run r puts it there before its i-th step.
Due(x, r, i, q, S) ==
    \/ x[q] \in S
    \/ \E j \in 1 .. i - 1 :
         /\ r.steps[j].scope = q /\ r.steps[j].after \in S /\ Ahead(r, j)
         /\ \A k \in 1 .. j - 1 : r.steps[k].scope # q

Demand(x0, x, r, i, q) ==
    /\ r.steps[i].after.auto # r.steps[i].before.auto => Due(x, r, i, q, Moved(x0, q))
    /\ r.steps[i].before.hand /\ ~r.steps[i].after.hand /\ Wide(q) => Due(x, r, i, q, Granted(q))

Runs == [at : {"idle", "planned", "step", "write", "checkpoint", "final"},
         steps : Seq(Steps), applied : Seq(BOOLEAN), i : Nat]

RunFits(x0, x, r) ==
    /\ r \in Runs
    /\ \A i \in 1 .. Len(r.steps) : Fits(x0, r.steps[i])
    /\ r.at \in {"step", "write", "checkpoint"} => r.i \in 1 .. Len(r.steps)
    /\ r.at # "idle" => r.steps # <<>>
    /\ r.at # "idle" =>
         \A i \in 1 .. Len(r.steps), q \in Projects :
            r.steps[i].scope = C!Shared => Demand(x0, x, r, i, q)

LEMMA ScopesApart ==
    /\ C!Shared \notin Projects /\ C!Scopes = Projects \cup {C!Shared}
    /\ \A q \in Projects : C!Assigned(q) \in SUBSET {"task_run", "task_review"} /\ C!Assigned(q) # C!NoLaunch
    /\ C!SafeGlobal \in SUBSET {"task_run", "task_review"} /\ C!SafeGlobal # C!NoLaunch
BY ConfigAssumption DEF C!Scopes, C!Assigned, C!SafeGlobal, C!NoLaunch

LEMMA HeldIsKept ==
    ASSUME NEW x0, Started(x0), Held(x0, config),
           pace = [p \in Projects |-> C!LegacyPair(x0[C!Shared].auto, x0[p].auto)],
           reach = [p \in Projects |-> IF x0[C!Shared].hand THEN C!Assigned(p) ELSE C!NoLaunch]
    PROVE  C!SettingsKept
<1>1. C!PaceKept
  <2> SUFFICES ASSUME NEW p \in Projects
               PROVE  C!Means(config[C!Shared].auto, config[p].auto, FALSE) \in {pace[p], C!Unresolved}
    BY DEF C!PaceKept
  <2>1. Reachable(x0[C!Shared].auto, x0[p].auto, config[C!Shared].auto, config[p].auto)
    BY ScopesApart DEF Started, Held, Moved, Reachable
  <2>2. pace[p] = C!LegacyPair(x0[C!Shared].auto, x0[p].auto)
    OBVIOUS
  <2> QED
    BY <2>1, <2>2, PairKept
<1>2. C!LaunchKept
  <2> SUFFICES ASSUME NEW p \in Projects
               PROVE  C!MeansLaunch(config[C!Shared], config[p], p) = reach[p]
    BY DEF C!LaunchKept
  <2> DEFINE g == config[C!Shared]
             f == config[p]
  <2>1. g \in Files /\ f \in Files
    BY ScopesApart DEF Held
  <2>2. reach[p] = IF Lends(x0) THEN C!Assigned(p) ELSE C!NoLaunch
    BY DEF Lends
  <2>3. /\ f.launch = C!NoLaunch \/ (Lends(x0) /\ f.launch = C!Assigned(p))
        /\ \/ (g.hand <=> Lends(x0)) /\ g.launch = C!NoLaunch
           \/ Lends(x0) /\ ~g.hand /\ g.launch = C!SafeGlobal
        /\ Lends(x0) /\ ~g.hand /\ C!Assigned(p) # C!SafeGlobal => f.launch = C!Assigned(p)
    BY DEF Held, Wide, Granted
  <2> HIDE DEF g, f
  <2>4. C!MeansLaunch(g, f, p) = IF Lends(x0) THEN C!Assigned(p) ELSE C!NoLaunch
    BY <2>1, <2>3, ScopesApart DEF C!MeansLaunch, C!ResolveLaunch, C!MappedLaunch, C!Materializes, Files
  <2> QED
    BY <2>2, <2>4 DEF g, f
<1> QED
  BY <1>1, <1>2 DEF C!SettingsKept

LEMMA Stable ==
    ASSUME NEW x0, NEW q \in Projects, NEW b \in Files, NEW a \in Files, FitsOwn(x0, q, b, a),
           NEW S, S = Moved(x0, q) \/ S = Granted(q), b \in S
    PROVE  a \in S
BY DEF FitsOwn, Moved, Granted

\* A step, done where its file is what it expects, keeps the files, if what
\* the shared file loses is in the projects' own.
LEMMA WriteKeeps ==
    ASSUME NEW x0, Started(x0), NEW x, Held(x0, x), NEW s, Fits(x0, s), x[s.scope] = s.before,
           s.scope = C!Shared /\ s.after.auto # s.before.auto => \A q \in Projects : x[q] \in Moved(x0, q),
           s.scope = C!Shared /\ s.before.hand /\ ~s.after.hand =>
             \A q \in Projects : Wide(q) => x[q] \in Granted(q)
    PROVE  Held(x0, [x EXCEPT ![s.scope] = s.after])
<1> DEFINE y == [x EXCEPT ![s.scope] = s.after]
           a == s.after
           b == s.before
<1>1. /\ x \in [C!Scopes -> Files] /\ s.scope \in C!Scopes /\ a \in Files /\ b \in Files
      /\ y \in [C!Scopes -> Files] /\ y[s.scope] = a
      /\ \A z \in C!Scopes : z # s.scope => y[z] = x[z]
  BY DEF Held, Fits, Steps
<1>2. CASE s.scope = C!Shared
  <2>1. \A q \in Projects : y[q] = x[q]
    BY <1>1, <1>2, ScopesApart
  <2>2. FitsShared(x0, b, a)
    BY <1>2 DEF Fits
  <2> HIDE DEF y, a, b
  <2> QED
    BY <1>1, <1>2, <2>1, <2>2, ScopesApart DEF Held, FitsShared, a, b
<1>3. CASE s.scope \in Projects
  <2>1. y[C!Shared] = x[C!Shared]
    BY <1>1, <1>3, ScopesApart
  <2>2. FitsOwn(x0, s.scope, b, a) /\ x[s.scope] = b
    BY <1>3 DEF Fits
  <2>3. /\ b \in Moved(x0, s.scope) => a \in Moved(x0, s.scope)
        /\ b \in Granted(s.scope) => a \in Granted(s.scope)
    <3>1. CASE b \in Moved(x0, s.scope)
      BY <1>1, <1>3, <2>2, <3>1 DEF FitsOwn, Moved, Granted
    <3>2. CASE b \notin Moved(x0, s.scope)
      BY <1>1, <1>3, <2>2, <3>2 DEF FitsOwn, Granted
    <3> QED
      BY <3>1, <3>2
  <2> QED
    BY <1>1, <1>3, <2>1, <2>2, <2>3, ScopesApart DEF Held, FitsOwn, y
<1> QED
  BY <1>1, <1>2, <1>3, ScopesApart

LEMMA DueStays ==
    ASSUME NEW x0, NEW x, x \in [C!Scopes -> Files], NEW s, Fits(x0, s), x[s.scope] = s.before,
           NEW q \in Projects, NEW S, S = Moved(x0, q) \/ S = Granted(q),
           NEW r, NEW i, Due(x, r, i, q, S)
    PROVE  Due([x EXCEPT ![s.scope] = s.after], r, i, q, S)
<1>1. /\ s.scope \in C!Scopes /\ q \in C!Scopes /\ s.before \in Files /\ s.after \in Files
  BY ScopesApart DEF Fits, Steps
<1>2. ASSUME x[q] \in S PROVE [x EXCEPT ![s.scope] = s.after][q] \in S
  <2>1. CASE s.scope = q
    BY <1>1, <1>2, <2>1, Stable DEF Fits
  <2>2. CASE s.scope # q
    BY <1>1, <1>2, <2>2
  <2> QED
    BY <2>1, <2>2
<1> QED
  BY <1>2 DEF Due

LEMMA RunStays ==
    ASSUME NEW x0, NEW x, x \in [C!Scopes -> Files], NEW s, Fits(x0, s), x[s.scope] = s.before,
           NEW r, RunFits(x0, x, r)
    PROVE  RunFits(x0, [x EXCEPT ![s.scope] = s.after], r)
<1> DEFINE y == [x EXCEPT ![s.scope] = s.after]
<1>1. ASSUME NEW i, NEW q \in Projects, Demand(x0, x, r, i, q) PROVE Demand(x0, y, r, i, q)
  <2>1. Due(x, r, i, q, Moved(x0, q)) => Due(y, r, i, q, Moved(x0, q))
    BY DueStays
  <2>2. Due(x, r, i, q, Granted(q)) => Due(y, r, i, q, Granted(q))
    BY DueStays
  <2> QED
    BY <1>1, <2>1, <2>2 DEF Demand
<1> HIDE DEF y
<1>2. RunFits(x0, y, r)
  BY <1>1 DEF RunFits
<1> QED
  BY <1>2 DEF y

\* A run goes on to r1 past steps that are done, whoever did them.
LEMMA TurnFits ==
    ASSUME NEW x0, NEW x, NEW r, RunFits(x0, x, r), r.at # "idle",
           NEW r1, r1 \in Runs, r1.steps = r.steps,
           r1.at \in {"step", "write", "checkpoint"} => r1.i \in 1 .. Len(r.steps),
           \A j \in 1 .. Len(r.steps) :
              Ahead(r, j) /\ (\A k \in 1 .. j - 1 : r.steps[k].scope # r.steps[j].scope)
                => Ahead(r1, j) \/ x[r.steps[j].scope] = r.steps[j].after
    PROVE  RunFits(x0, x, r1)
<1>1. Len(r.steps) \in Nat
  BY DEF RunFits, Runs
<1>2. ASSUME NEW i \in 1 .. Len(r.steps), NEW q \in Projects, NEW S, Due(x, r, i, q, S)
      PROVE  Due(x, r1, i, q, S)
  <2>1. CASE x[q] \in S
    BY <2>1 DEF Due
  <2>2. CASE \E j \in 1 .. i - 1 :
               /\ r.steps[j].scope = q /\ r.steps[j].after \in S /\ Ahead(r, j)
               /\ \A k \in 1 .. j - 1 : r.steps[k].scope # q
    <3>1. PICK j \in 1 .. i - 1 :
               /\ r.steps[j].scope = q /\ r.steps[j].after \in S /\ Ahead(r, j)
               /\ \A k \in 1 .. j - 1 : r.steps[k].scope # q
      BY <2>2
    <3>2. j \in 1 .. Len(r.steps)
      BY <1>1
    <3>3. Ahead(r1, j) \/ x[q] \in S
      BY <3>1, <3>2
    <3> QED
      BY <3>1, <3>3 DEF Due
  <2> QED
    BY <1>2, <2>1, <2>2 DEF Due
<1>3. ASSUME NEW i \in 1 .. Len(r.steps), NEW q \in Projects, Demand(x0, x, r, i, q)
      PROVE  Demand(x0, x, r1, i, q)
  BY <1>2, <1>3 DEF Demand
<1> QED
  BY <1>3 DEF RunFits

ConfigInv(x0) ==
    /\ Started(x0) /\ Held(x0, config)
    /\ pace = [p \in Projects |-> C!LegacyPair(x0[C!Shared].auto, x0[p].auto)]
    /\ reach = [p \in Projects |-> IF x0[C!Shared].hand THEN C!Assigned(p) ELSE C!NoLaunch]
    /\ run \in [Projects -> Runs]
    /\ \A p \in Projects : RunFits(x0, config, run[p])

LEMMA IdleFits ==
    ASSUME NEW x0, NEW x
    PROVE  RunFits(x0, x, C!Idle)
BY DEF RunFits, C!Idle, Runs

\* One process of a migration moves on, and no file does.
LEMMA OneMoves ==
    ASSUME NEW x0, ConfigInv(x0), NEW p \in Projects, NEW r1, run' = [run EXCEPT ![p] = r1],
           RunFits(x0, config, r1), UNCHANGED <<config, pace, reach>>
    PROVE  ConfigInv(x0)'
<1>1. r1 \in Runs
  BY DEF RunFits
<1> QED
  BY <1>1 DEF ConfigInv

LEMMA PreflightKeeps ==
    ASSUME NEW x0, ConfigInv(x0), NEW p \in Projects, C!Preflight(p)
    PROVE  ConfigInv(x0)'
<1> DEFINE r == run[p]
           steps == r.steps
           marks == [i \in DOMAIN steps |-> ~C!Recognized(steps, i)]
           r1 == [r EXCEPT !.at = "step", !.i = 1, !.applied = marks]
<1>1. /\ RunFits(x0, config, r) /\ r \in Runs /\ r.at = "planned" /\ UNCHANGED <<config, pace, reach>>
      /\ run' = [run EXCEPT ![p] = IF C!Fresh(steps) THEN r1 ELSE C!Idle]
      /\ config \in [C!Scopes -> Files]
  BY DEF ConfigInv, C!Preflight, C!ghosts, Held
<1>2. CASE ~C!Fresh(steps)
  BY <1>1, <1>2, IdleFits, OneMoves
<1>3. CASE C!Fresh(steps)
  <2>1. marks \in Seq(BOOLEAN) /\ DOMAIN steps = 1 .. Len(steps) /\ Len(steps) \in Nat
    <3>1. DOMAIN steps = 1 .. Len(steps) /\ Len(steps) \in Nat
      BY <1>1 DEF Runs
    <3>2. marks \in [1 .. Len(steps) -> BOOLEAN]
      BY <3>1
    <3> QED
      BY <3>1, <3>2
  <2>2. r1 \in Runs /\ r1.steps = steps /\ r1.at = "step" /\ r1.i = 1 /\ r1.applied = marks
    BY <1>1, <2>1 DEF Runs
  <2>3. 1 \in 1 .. Len(steps)
    BY <1>1, <2>1 DEF Runs, RunFits
  <2>4. ASSUME NEW j \in 1 .. Len(steps), \A k \in 1 .. j - 1 : steps[k].scope # steps[j].scope
        PROVE  marks[j] \/ config[steps[j].scope] = steps[j].after
    BY <2>1, <2>4 DEF C!Recognized, C!Projected
  <2> HIDE DEF marks, r1
  <2>5. ASSUME NEW j \in 1 .. Len(steps), \A k \in 1 .. j - 1 : steps[k].scope # steps[j].scope
        PROVE  Ahead(r1, j) \/ config[steps[j].scope] = steps[j].after
    BY <2>2, <2>4, <2>5 DEF Ahead
  <2>6. RunFits(x0, config, r1)
    BY <1>1, <2>2, <2>3, <2>5, TurnFits
  <2> QED
    BY <1>1, <1>3, <2>6, OneMoves
<1> QED
  BY <1>2, <1>3

\* A run that only changes its place, with every step before it still to do or done.
LEMMA PlaceMoves ==
    ASSUME NEW x0, ConfigInv(x0), NEW p \in Projects, NEW r1, r1 \in Runs, run[p].at # "idle",
           r1.steps = run[p].steps, r1.applied = run[p].applied,
           r1.at \in {"step", "write", "checkpoint"} => r1.i \in 1 .. Len(run[p].steps),
           \A j \in 1 .. Len(run[p].steps) :
              Ahead(run[p], j) => Ahead(r1, j) \/ config[run[p].steps[j].scope] = run[p].steps[j].after,
           run' = [run EXCEPT ![p] = r1], UNCHANGED <<config, pace, reach>>
    PROVE  ConfigInv(x0)'
<1>1. RunFits(x0, config, run[p])
  BY DEF ConfigInv
<1>2. RunFits(x0, config, r1)
  BY <1>1, TurnFits
<1> QED
  BY <1>2, OneMoves

LEMMA ValidateKeeps ==
    ASSUME NEW x0, ConfigInv(x0), NEW p \in Projects, C!Validate(p)
    PROVE  ConfigInv(x0)'
<1> DEFINE r == run[p]
           r1 == [r EXCEPT !.at = "write"]
<1>1. /\ RunFits(x0, config, r) /\ r \in Runs /\ r.at = "step" /\ UNCHANGED <<config, pace, reach>>
      /\ run' = [run EXCEPT ![p] = r1] \/ run' = [run EXCEPT ![p] = C!Idle]
  BY DEF ConfigInv, C!Validate, C!ghosts
<1>2. r1 \in Runs /\ r1.steps = r.steps /\ r1.applied = r.applied /\ r1.at = "write" /\ r1.i = r.i
  BY <1>1 DEF Runs
<1>3. r.i \in 1 .. Len(r.steps)
  BY <1>1 DEF RunFits
<1> HIDE DEF r1
<1>4. \A j \in 1 .. Len(r.steps) : Ahead(r, j) => Ahead(r1, j)
  BY <1>1, <1>2 DEF Ahead
<1>5. CASE run' = [run EXCEPT ![p] = r1]
  BY <1>1, <1>2, <1>3, <1>4, <1>5, PlaceMoves
<1> QED
  BY <1>1, <1>5, IdleFits, OneMoves

LEMMA CheckpointKeeps ==
    ASSUME NEW x0, ConfigInv(x0), NEW p \in Projects, C!Checkpoint(p)
    PROVE  ConfigInv(x0)'
<1> DEFINE r == run[p]
           r1 == [r EXCEPT !.at = "final"]
           r2 == [r EXCEPT !.at = "step", !.i = r.i + 1]
<1>1. /\ RunFits(x0, config, r) /\ r \in Runs /\ r.at = "checkpoint" /\ UNCHANGED <<config, pace, reach>>
      /\ run' = [run EXCEPT ![p] = IF r.i = Len(r.steps) THEN r1 ELSE r2]
  BY DEF ConfigInv, C!Checkpoint, C!ghosts
<1>2. r.i \in 1 .. Len(r.steps) /\ Len(r.steps) \in Nat
  BY <1>1 DEF RunFits, Runs
<1>3. r1 \in Runs /\ r1.steps = r.steps /\ r1.applied = r.applied /\ r1.at = "final"
  BY <1>1 DEF Runs
<1>4. r2 \in Runs /\ r2.steps = r.steps /\ r2.applied = r.applied /\ r2.at = "step" /\ r2.i = r.i + 1
  <2>1. r.i + 1 \in Nat
    BY <1>2
  <2> DEFINE n == r.i + 1
  <2> HIDE DEF n
  <2>2. [r EXCEPT !.at = "step", !.i = n] \in Runs
    BY <1>1, <2>1 DEF Runs, n
  <2> QED
    BY <1>1, <2>1, <2>2 DEF Runs, n
<1> HIDE DEF r1, r2
<1>5. CASE r.i = Len(r.steps)
  <2>1. \A j \in 1 .. Len(r.steps) : ~Ahead(r, j)
    BY <1>1, <1>2, <1>5 DEF Ahead
  <2> QED
    BY <1>1, <1>3, <1>5, <2>1, PlaceMoves
<1>6. CASE r.i # Len(r.steps)
  <2>1. \A j \in 1 .. Len(r.steps) : Ahead(r, j) => Ahead(r2, j)
    BY <1>1, <1>2, <1>4 DEF Ahead
  <2>2. r2.i \in 1 .. Len(r.steps)
    BY <1>2, <1>4, <1>6
  <2> QED
    BY <1>1, <1>4, <1>6, <2>1, <2>2, PlaceMoves
<1> QED
  BY <1>5, <1>6

\* Other processes of a migration are not disturbed by a step of this one.
LEMMA WriteKeepsAll ==
    ASSUME NEW x0, ConfigInv(x0), NEW p \in Projects, C!Write(p)
    PROVE  ConfigInv(x0)'
<1> DEFINE r == run[p]
           s == r.steps[r.i]
           r1 == [r EXCEPT !.at = "checkpoint"]
           y == [config EXCEPT ![s.scope] = s.after]
<1>1. /\ RunFits(x0, config, r) /\ r \in Runs /\ r.at \in {"step", "write"} /\ UNCHANGED <<pace, reach>>
      /\ \/ run' = [run EXCEPT ![p] = C!Idle] /\ config' = config
         \/ /\ ~(r.applied[r.i] /\ config[s.scope] # s.before)
            /\ run' = [run EXCEPT ![p].at = "checkpoint"]
            /\ config' = IF r.applied[r.i] THEN y ELSE config
  BY DEF ConfigInv, C!Write, C!ghosts
<1>2. r.i \in 1 .. Len(r.steps) /\ Len(r.steps) \in Nat /\ r.i \in Nat
  BY <1>1 DEF RunFits, Runs
<1>3. r1 \in Runs /\ r1.steps = r.steps /\ r1.applied = r.applied /\ r1.at = "checkpoint" /\ r1.i = r.i
  BY <1>1 DEF Runs
<1>4. [run EXCEPT ![p].at = "checkpoint"] = [run EXCEPT ![p] = r1]
  OBVIOUS
<1> HIDE DEF r1, y
<1>5. CASE run' = [run EXCEPT ![p] = C!Idle] /\ config' = config
  BY <1>1, <1>5, IdleFits, OneMoves
<1>6. CASE /\ ~r.applied[r.i] /\ run' = [run EXCEPT ![p] = r1] /\ config' = config
  <2>1. \A j \in 1 .. Len(r.steps) : Ahead(r, j) => Ahead(r1, j)
    BY <1>1, <1>2, <1>3, <1>6 DEF Ahead
  <2> QED
    BY <1>1, <1>2, <1>3, <1>6, <2>1, PlaceMoves
<1>7. CASE /\ r.applied[r.i] /\ config[s.scope] = s.before
           /\ run' = [run EXCEPT ![p] = r1] /\ config' = y
  <2>1. Fits(x0, s) /\ s \in Steps /\ s.scope \in C!Scopes
    BY <1>1, <1>2 DEF RunFits, Fits, Steps
  <2>2. ASSUME s.scope = C!Shared, NEW q \in Projects
        PROVE  /\ s.after.auto # s.before.auto => config[q] \in Moved(x0, q)
               /\ s.before.hand /\ ~s.after.hand /\ Wide(q) => config[q] \in Granted(q)
    <3>1. Demand(x0, config, r, r.i, q)
      BY <1>1, <1>2, <2>2 DEF RunFits
    <3>2. \A j \in 1 .. r.i - 1 : ~Ahead(r, j)
      BY <1>1, <1>2 DEF Ahead
    <3> QED
      BY <3>1, <3>2 DEF Demand, Due
  <2>3. config \in [C!Scopes -> Files] /\ Started(x0) /\ Held(x0, config)
    BY DEF ConfigInv, Held
  <2>4. Held(x0, y)
    BY <1>7, <2>1, <2>2, <2>3, WriteKeeps DEF y
  <2>5. \A q \in Projects : RunFits(x0, y, run[q])
    BY <1>7, <2>1, <2>3, RunStays DEF ConfigInv, y
  <2>6. y[s.scope] = s.after
    BY <2>1, <2>3 DEF y
  <2>7. \A j \in 1 .. Len(r.steps) : Ahead(r, j) => Ahead(r1, j) \/ y[r.steps[j].scope] = r.steps[j].after
    BY <1>1, <1>2, <1>3, <1>7, <2>6 DEF Ahead
  <2>8. RunFits(x0, y, r1)
    BY <1>1, <1>2, <1>3, <2>5, <2>7, TurnFits
  <2> QED
    BY <1>1, <1>3, <1>7, <2>3, <2>4, <2>5, <2>8 DEF ConfigInv
<1> QED
  BY <1>1, <1>4, <1>5, <1>6, <1>7

LEMMA MapClosesAt ==
    ASSUME NEW x0, Started(x0), Held(x0, config), NEW p \in Projects, NEW q \in Projects,
           C!MapPace(config[C!Shared].auto, config[q].auto, C!Shareable(p)).ok
    PROVE  LET g == config[C!Shared].auto
               m == C!MapPace(g, config[q].auto, C!Shareable(p))
           IN  /\ m.g \in C!Automation /\ m.p \in C!Automation
               /\ m.g = g \/ SharedForm(x0[C!Shared].auto, m.g)
               /\ m.p = config[q].auto \/ OwnForm(x0[C!Shared].auto, x0[q].auto, m.p)
               /\ m.g # g => /\ OwnForm(x0[C!Shared].auto, x0[q].auto, m.p)
                             /\ g.rb = C!None /\ (g.conf # C!None \/ g.bud # C!Absent)
<1> DEFINE g == config[C!Shared].auto
           f == config[q].auto
           m == C!MapPace(g, f, C!Shareable(p))
<1>1. Reachable(x0[C!Shared].auto, x0[q].auto, g, f)
  BY ScopesApart DEF Started, Held, Moved, Reachable
<1>2. g \in C!Automation /\ f \in C!Automation
  BY ScopesApart DEF Held, Files
<1>3. m = C!MapPace(g, f, TRUE) \/ m = C!MapPace(g, f, FALSE)
  <2>1. CASE C!Shareable(p)
    BY <2>1 DEF C!MapPace, C!SharedBudget
  <2>2. CASE ~C!Shareable(p)
    BY <2>2 DEF C!MapPace, C!SharedBudget
  <2> QED
    BY <2>1, <2>2
<1> HIDE DEF m, g, f
<1>6. m.ok
  BY DEF m, g, f
<1>4. Closed(x0[C!Shared].auto, x0[q].auto, g, f, m)
  <2>1. C!MapPace(g, f, TRUE).ok => Closed(x0[C!Shared].auto, x0[q].auto, g, f, C!MapPace(g, f, TRUE))
    BY <1>1, MapCloses
  <2>2. C!MapPace(g, f, FALSE).ok => Closed(x0[C!Shared].auto, x0[q].auto, g, f, C!MapPace(g, f, FALSE))
    BY <1>1, MapCloses
  <2> QED
    BY <1>3, <1>6, <2>1, <2>2, Zenon
<1>5. /\ m.g \in C!Automation /\ m.p \in C!Automation
      /\ m.g = g \/ SharedForm(x0[C!Shared].auto, m.g)
      /\ m.p = f \/ OwnForm(x0[C!Shared].auto, x0[q].auto, m.p)
      /\ m.g # g => /\ OwnForm(x0[C!Shared].auto, x0[q].auto, m.p)
                    /\ g.rb = C!None /\ (g.conf # C!None \/ g.bud # C!Absent)
  BY <1>2, <1>4 DEF Closed, SharedForm, OwnForm
<1> QED
  BY <1>5 DEF m, g, f

\* What a plan of p would write in both scopes.
LEMMA OwnIs ==
    ASSUME NEW x0, Started(x0), Held(x0, config), NEW p \in Projects, C!Own(p, C!Shareable(p)).ok
    PROVE  LET own == C!Own(p, C!Shareable(p))
               g == config[C!Shared]
               f == config[p]
           IN  /\ own.g \in Files /\ own.f \in Files
               /\ FitsShared(x0, g, own.g) /\ FitsOwn(x0, p, f, own.f)
               /\ own.g.auto # g.auto => /\ own.f \in Moved(x0, p)
                                         /\ g.auto.rb = C!None /\ (g.auto.conf # C!None \/ g.auto.bud # C!Absent)
               /\ own.g.auto = C!MapPace(g.auto, f.auto, C!Shareable(p)).g
               /\ g.hand /\ ~own.g.hand /\ Wide(p) => own.f \in Granted(p) /\ own.changed
               /\ own.f # f => own.changed
               /\ g.hand /\ ~own.g.hand => Lends(x0) /\ own.g.launch = C!SafeGlobal
<1> DEFINE own == C!Own(p, C!Shareable(p))
           g == config[C!Shared]
           f == config[p]
           m == C!MapPace(g.auto, f.auto, C!Shareable(p))
           b == [g EXCEPT !.auto = m.g]
           mat == C!Materializes(g, p)
           l == IF mat THEN C!Assigned(p) ELSE f.launch
           f1 == [f EXCEPT !.auto = m.p, !.launch = l]
<1>1. m.ok /\ own.g = C!MappedLaunch(b) /\ own.f = f1 /\ (own.changed <=> (f1 # f \/ mat))
  BY DEF C!Own
<1>2. /\ m.g \in C!Automation /\ m.p \in C!Automation
      /\ m.g = g.auto \/ SharedForm(x0[C!Shared].auto, m.g)
      /\ m.p = f.auto \/ OwnForm(x0[C!Shared].auto, x0[p].auto, m.p)
      /\ m.g # g.auto => /\ OwnForm(x0[C!Shared].auto, x0[p].auto, m.p)
                         /\ g.auto.rb = C!None /\ (g.auto.conf # C!None \/ g.auto.bud # C!Absent)
  BY <1>1, MapClosesAt, Zenon
<1>3. g \in Files /\ f \in Files /\ (g.hand => Lends(x0) /\ g.launch = C!NoLaunch)
  BY ScopesApart DEF Held
<1>4. mat <=> g.hand /\ Wide(p)
  BY DEF C!Materializes, Wide
<1> HIDE DEF mat, m
<1>5. l \in SUBSET {"task_run", "task_review"} /\ (mat => l = C!Assigned(p)) /\ (~mat => l = f.launch)
  BY <1>3, ScopesApart DEF Files
<1> HIDE DEF l
<1>6. f1 \in Files /\ f1.auto = m.p /\ f1.launch = l
  BY <1>2, <1>3, <1>5 DEF Files
<1>7. b \in Files /\ b.auto = m.g /\ b.hand = g.hand /\ b.launch = g.launch
  BY <1>2, <1>3 DEF Files
<1> HIDE DEF b, f1, g, f
<1>8. /\ C!MappedLaunch(b) \in Files /\ C!MappedLaunch(b).auto = m.g
      /\ g.hand => ~C!MappedLaunch(b).hand /\ C!MappedLaunch(b).launch = C!SafeGlobal
      /\ ~g.hand => C!MappedLaunch(b) = b
  <2>1. CASE g.hand
    <3>1. C!MappedLaunch(b) = [b EXCEPT !.hand = FALSE, !.launch = C!SafeGlobal]
      BY <1>7, <2>1 DEF C!MappedLaunch
    <3> QED
      BY <1>7, <2>1, <3>1, ScopesApart DEF Files
  <2>2. CASE ~g.hand
    BY <1>7, <2>2 DEF C!MappedLaunch
  <2> QED
    BY <2>1, <2>2
<1> HIDE DEF own
<1>9. FitsShared(x0, g, own.g)
  BY <1>1, <1>2, <1>3, <1>7, <1>8 DEF FitsShared
<1>10. FitsOwn(x0, p, f, own.f)
  BY <1>1, <1>2, <1>3, <1>4, <1>5, <1>6 DEF FitsOwn, Moved
<1>11. own.g.auto # g.auto => /\ own.f \in Moved(x0, p)
                              /\ g.auto.rb = C!None /\ (g.auto.conf # C!None \/ g.auto.bud # C!Absent)
  BY <1>1, <1>2, <1>6, <1>8 DEF Moved
<1>12. /\ own.g \in Files /\ own.f \in Files /\ own.g.auto = m.g
       /\ g.hand /\ ~own.g.hand /\ Wide(p) => own.f \in Granted(p) /\ own.changed
       /\ own.f # f => own.changed
       /\ g.hand /\ ~own.g.hand => Lends(x0) /\ own.g.launch = C!SafeGlobal
  BY <1>1, <1>3, <1>4, <1>5, <1>6, <1>8 DEF Granted
<1> QED
  BY <1>9, <1>10, <1>11, <1>12 DEF own, g, f, m

\* The peers that are to be rewritten, listed once each.
LEMMA PeersListed ==
    ASSUME NEW Q \in SUBSET Projects
    PROVE  /\ Cardinality(Q) \in Nat
           /\ C!SetToSeq(Q) \in [1 .. Cardinality(Q) -> Q]
           /\ \A k, l \in 1 .. Cardinality(Q) : C!SetToSeq(Q)[k] = C!SetToSeq(Q)[l] => k = l
           /\ \A q \in Q : \E k \in 1 .. Cardinality(Q) : C!SetToSeq(Q)[k] = q
<1>1. IsFiniteSet(Q) /\ Cardinality(Q) \in Nat /\ ExistsBijection(1 .. Cardinality(Q), Q)
  BY ConfigAssumption, FS_Subset, FS_CardinalityType
<1> DEFINE n == Cardinality(Q)
           L == C!SetToSeq(Q)
<1>2. PICK b \in [1 .. n -> Q] : \A k, l \in 1 .. n : b[k] = b[l] => k = l
  BY <1>1 DEF ExistsBijection, Bijection, Injection, IsInjective
<1>3. L \in [1 .. n -> Q] /\ \A k, l \in 1 .. n : L[k] = L[l] => k = l
  <2>1. C!Cardinality(Q) = n
    BY DEF C!Cardinality, Cardinality
  <2>2. L = CHOOSE h \in [1 .. n -> Q] : \A k, l \in DOMAIN h : h[k] = h[l] => k = l
    BY <2>1 DEF C!SetToSeq, C!IsInjective
  <2>3. \E h \in [1 .. n -> Q] : \A k, l \in DOMAIN h : h[k] = h[l] => k = l
    <3>1. DOMAIN b = 1 .. n
      BY <1>2
    <3> QED
      BY <1>2, <3>1
  <2> HIDE DEF n, L
  <2>4. L \in [1 .. n -> Q] /\ \A k, l \in DOMAIN L : L[k] = L[l] => k = l
    BY <2>2, <2>3
  <2> QED
    BY <2>4
<1>4. L \in Injection(1 .. n, Q)
  BY <1>3 DEF Injection, IsInjective
<1>5. Cardinality(1 .. n) = n
  BY <1>1, FS_Interval
<1>6. L \in Surjection(1 .. n, Q)
  BY <1>1, <1>4, <1>5, FS_Injection
<1> QED
  BY <1>1, <1>3, <1>6 DEF Surjection

Pair(A, D) == A \o D
Three(A, M, s, D) == Pair(Pair(A, Pair(M, <<s>>)), D)

\* Z is A and then D.
IsPair(S, A, D, Z) ==
    /\ Z \in Seq(S) /\ Len(Z) = Len(A) + Len(D) /\ Len(A) \in Nat /\ Len(D) \in Nat
    /\ \A i \in 1 .. Len(A) : Z[i] = A[i]
    /\ \A i \in 1 .. Len(D) : Z[Len(A) + i] = D[i]

IsThree(S, A, M, s, D, Z) ==
    /\ Z \in Seq(S) /\ Len(Z) = Len(A) + Len(M) + 1 + Len(D)
    /\ \A i \in 1 .. Len(A) : Z[i] = A[i]
    /\ \A k \in 1 .. Len(M) : Z[Len(A) + k] = M[k]
    /\ Z[Len(A) + Len(M) + 1] = s
    /\ \A i \in 1 .. Len(D) : Z[Len(A) + Len(M) + 1 + i] = D[i]

LEMMA Paired ==
    ASSUME NEW S, NEW A, A \in Seq(S), NEW D, D \in Seq(S)
    PROVE  IsPair(S, A, D, Pair(A, D))
BY DEF Pair, IsPair

LEMMA Joined ==
    ASSUME NEW S, NEW A, A \in Seq(S), NEW M, M \in Seq(S), NEW D, D \in Seq(S), NEW s, s \in S
    PROVE  IsThree(S, A, M, s, D, Three(A, M, s, D))
<1> DEFINE one == <<s>>
           B == Pair(M, one)
           Y == Pair(A, B)
           Z == Pair(Y, D)
<1>1. one \in Seq(S) /\ Len(one) = 1 /\ one[1] = s
  OBVIOUS
<1> HIDE DEF one
<1>2. /\ B \in Seq(S) /\ Len(B) = Len(M) + 1 /\ B[Len(M) + 1] = s /\ Len(M) \in Nat
      /\ \A k \in 1 .. Len(M) : B[k] = M[k]
  <2>1. IsPair(S, M, one, B)
    BY <1>1, Paired
  <2> QED
    BY <1>1, <2>1 DEF IsPair
<1> HIDE DEF B
<1>3. /\ Y \in Seq(S) /\ Len(Y) = Len(A) + Len(B) /\ Len(A) \in Nat
      /\ \A i \in 1 .. Len(A) : Y[i] = A[i]
      /\ \A k \in 1 .. Len(B) : Y[Len(A) + k] = B[k]
  <2>1. IsPair(S, A, B, Y)
    BY <1>2, Paired
  <2> QED
    BY <2>1 DEF IsPair
<1> HIDE DEF Y
<1>4. /\ Z \in Seq(S) /\ Len(Z) = Len(Y) + Len(D) /\ Len(D) \in Nat
      /\ \A i \in 1 .. Len(Y) : Z[i] = Y[i]
      /\ \A i \in 1 .. Len(D) : Z[Len(Y) + i] = D[i]
  <2>1. IsPair(S, Y, D, Z)
    BY <1>3, Paired
  <2> QED
    BY <2>1 DEF IsPair
<1> HIDE DEF Z
<1>5. Len(Y) = Len(A) + Len(M) + 1
  BY <1>2, <1>3
<1>6. \A i \in 1 .. Len(A) : Z[i] = A[i]
  BY <1>2, <1>3, <1>4, <1>5
<1>7. \A k \in 1 .. Len(M) + 1 : Z[Len(A) + k] = B[k]
  BY <1>2, <1>3, <1>4, <1>5
<1>8. \A k \in 1 .. Len(M) : Z[Len(A) + k] = M[k]
  BY <1>2, <1>7
<1>9. Z[Len(A) + (Len(M) + 1)] = s
  BY <1>2, <1>7
<1>10. Three(A, M, s, D) = Z
  BY DEF Three, Z, Y, B, one
<1> QED
  BY <1>2, <1>3, <1>4, <1>5, <1>6, <1>8, <1>9, <1>10 DEF IsThree

LEMMA StepIs ==
    ASSUME NEW k \in {"write-project", "materialize", "write-global", "update-marker"},
           NEW s \in C!Scopes, NEW b \in Files, NEW a \in Files
    PROVE  /\ C!Step(k, s, b, a) \in Steps /\ C!Step(k, s, b, a).scope = s
           /\ C!Step(k, s, b, a).before = b /\ C!Step(k, s, b, a).after = a
BY DEF C!Step, Steps

\* A peer's file is rewritten only into the new vocabulary.
LEMMA PeerIs ==
    ASSUME NEW x0, Started(x0), Held(x0, config), NEW p \in Projects,
           NEW q \in C!Peers(p), C!MapPace(config[C!Shared].auto, config[q].auto, C!Shareable(p)).ok
    PROVE  /\ C!PeerTarget(p, q) \in Files /\ FitsOwn(x0, q, config[q], C!PeerTarget(p, q))
           /\ C!PeerTarget(p, q).launch = config[q].launch
           /\ C!MapPace(config[C!Shared].auto, config[q].auto, C!Shareable(p)).g # config[C!Shared].auto =>
                C!PeerTarget(p, q) \in Moved(x0, q)
<1> DEFINE g == config[C!Shared].auto
           f == config[q]
           m == C!MapPace(g, f.auto, C!Shareable(p))
           t == C!PeerTarget(p, q)
<1>1. q \in Projects /\ f \in Files
  BY ScopesApart DEF C!Peers, Held
<1>2. /\ m.p \in C!Automation
      /\ m.p = f.auto \/ OwnForm(x0[C!Shared].auto, x0[q].auto, m.p)
      /\ m.g # g => OwnForm(x0[C!Shared].auto, x0[q].auto, m.p)
  BY <1>1, MapClosesAt, Zenon
<1>3. t = [f EXCEPT !.auto = m.p]
  BY DEF C!PeerTarget
<1> HIDE DEF t, m, f, g
<1>4. t \in Files /\ t.auto = m.p /\ t.launch = f.launch
  BY <1>1, <1>2, <1>3 DEF Files
<1>5. FitsOwn(x0, q, f, t) /\ (m.g # g => t \in Moved(x0, q))
  BY <1>1, <1>2, <1>4 DEF FitsOwn, Moved
<1> QED
  BY <1>4, <1>5 DEF t, m, f, g

LEMMA OneOrNone ==
    ASSUME NEW S, NEW s \in S, NEW A, A = <<>> \/ A = <<s>>
    PROVE  /\ A \in Seq(S) /\ Len(A) \in {0, 1} /\ A \o <<>> = A
           /\ \A i \in 1 .. Len(A) : i = 1 /\ A[i] = s
<1>1. CASE A = <<>>
  BY <1>1
<1>2. CASE A = <<s>>
  BY <1>2
<1> QED
  BY <1>1, <1>2

\* A plan makes each project state what the shared file is about to lose before
\* it loses it.
LEMMA PlanFits ==
    ASSUME NEW x0, Started(x0), Held(x0, config), NEW p \in Projects, C!Status(p) = "planned"
    PROVE  RunFits(x0, config, [C!Idle EXCEPT !.at = "planned", !.steps = C!PlanSteps(p)])
<1> DEFINE own == C!Own(p, C!Shareable(p))
           g == config[C!Shared]
           f == config[p]
           Q == {q \in C!Peers(p) : C!PeerTarget(p, q) # config[q]}
           n == Cardinality(Q)
           L == C!SetToSeq(Q)
           sA == C!Step("write-project", p, f, own.f)
           sG == C!Step("write-global", C!Shared, g, own.g)
           mark == [own.f EXCEPT !.mark = TRUE]
           sD == C!Step("update-marker", p, own.f, mark)
           A == C!OwnStep(p, own)
           B == C!SharedSteps(p, own)
           D == C!MarkerStep(p, own)
           M == [k \in 1 .. n |-> C!Step("materialize", L[k], config[L[k]], C!PeerTarget(p, L[k]))]
           Z == C!PlanSteps(p)
           r == [C!Idle EXCEPT !.at = "planned", !.steps = Z]
<1>1. own.ok /\ Z # <<>> /\ (own.g # g => C!PeersAgree(p) /\ C!Unharmed(p))
  BY DEF C!Status
<1>2. /\ own.g \in Files /\ own.f \in Files
      /\ FitsShared(x0, g, own.g) /\ FitsOwn(x0, p, f, own.f)
      /\ own.g.auto # g.auto => /\ own.f \in Moved(x0, p)
                                /\ g.auto.rb = C!None /\ (g.auto.conf # C!None \/ g.auto.bud # C!Absent)
      /\ own.g.auto = C!MapPace(g.auto, f.auto, C!Shareable(p)).g
      /\ g.hand /\ ~own.g.hand /\ Wide(p) => own.f \in Granted(p) /\ own.changed
      /\ own.f # f => own.changed
      /\ g.hand /\ ~own.g.hand => Lends(x0) /\ own.g.launch = C!SafeGlobal
  BY <1>1, OwnIs, Zenon
<1>3. g \in Files /\ f \in Files /\ C!Shared \in C!Scopes /\ p \in C!Scopes /\ p # C!Shared
  BY ScopesApart DEF Held
<1>4. A = <<>> \/ A = <<sA>>
  BY DEF C!OwnStep
<1>5. own.changed => A = <<sA>>
  BY DEF C!OwnStep
<1>6. D = <<>> \/ D = <<sD>>
  BY DEF C!MarkerStep
<1>7. Z = A \o B \o D
  BY DEF C!PlanSteps
<1>8. /\ n \in Nat /\ L \in [1 .. n -> Q]
      /\ \A k, l \in 1 .. n : L[k] = L[l] => k = l
      /\ \A q \in Q : \E k \in 1 .. n : L[k] = q
  <2>1. Q \in SUBSET Projects
    BY DEF C!Peers
  <2> QED
    BY <2>1, PeersListed
<1>9. own.g = g => B = <<>>
  BY DEF C!SharedSteps
<1>10. own.g # g => B = M \o <<sG>>
  BY <1>8 DEF C!SharedSteps
<1>11. /\ sA \in Steps /\ Fits(x0, sA) /\ sA.scope = p /\ sA.after = own.f
       /\ sG \in Steps /\ Fits(x0, sG) /\ sG.scope = C!Shared /\ sG.after = own.g /\ sG.before = g
       /\ sD \in Steps /\ Fits(x0, sD) /\ sD.scope = p
  <2>1. mark \in Files /\ mark.auto = own.f.auto /\ mark.launch = own.f.launch
    BY <1>2 DEF Files
  <2> HIDE DEF own, g, f, mark
  <2>2. sA \in Steps /\ sA.scope = p /\ sA.before = f /\ sA.after = own.f
    BY <1>2, <1>3, StepIs
  <2>3. sG \in Steps /\ sG.scope = C!Shared /\ sG.before = g /\ sG.after = own.g
    BY <1>2, <1>3, StepIs
  <2>4. sD \in Steps /\ sD.scope = p /\ sD.before = own.f /\ sD.after = mark
    BY <1>2, <1>3, <2>1, StepIs
  <2> HIDE DEF sA, sG, sD
  <2> QED
    BY <1>2, <1>3, <2>1, <2>2, <2>3, <2>4, ScopesApart DEF Fits, FitsOwn
<1>12. ASSUME own.g # g, NEW q \in C!Peers(p)
       PROVE  /\ C!PeerTarget(p, q) \in Files /\ FitsOwn(x0, q, config[q], C!PeerTarget(p, q))
              /\ C!PeerTarget(p, q).launch = config[q].launch
              /\ own.g.auto # g.auto => C!PeerTarget(p, q) \in Moved(x0, q)
  <2>1. /\ C!MapPace(g.auto, config[q].auto, C!Shareable(p)).ok
        /\ C!MapPace(g.auto, config[q].auto, C!Shareable(p)).g = own.g.auto
    BY <1>1, <1>12 DEF C!PeersAgree
  <2> QED
    BY <2>1, PeerIs
<1>13. ASSUME own.g # g, NEW k \in 1 .. n
       PROVE  M[k] \in Steps /\ Fits(x0, M[k]) /\ M[k].scope = L[k] /\ M[k].after = C!PeerTarget(p, L[k])
  <2>1. L[k] \in C!Peers(p) /\ L[k] \in Projects /\ L[k] \in C!Scopes /\ config[L[k]] \in Files
    BY <1>8, ScopesApart DEF C!Peers, Held
  <2>2. C!PeerTarget(p, L[k]) \in Files /\ FitsOwn(x0, L[k], config[L[k]], C!PeerTarget(p, L[k]))
    BY <1>12, <1>13, <2>1
  <2> DEFINE s == C!Step("materialize", L[k], config[L[k]], C!PeerTarget(p, L[k]))
  <2>3. M[k] = s
    OBVIOUS
  <2>4. /\ s \in Steps /\ s.scope = L[k] /\ s.before = config[L[k]] /\ s.after = C!PeerTarget(p, L[k])
    BY <2>1, <2>2, StepIs
  <2> HIDE DEF s, L, M, Q
  <2>5. Fits(x0, s)
    BY <2>1, <2>2, <2>4, ScopesApart DEF Fits
  <2>6. M[k] \in Steps /\ Fits(x0, M[k])
    BY <2>3, <2>4, <2>5
  <2>7. M[k].scope = L[k] /\ M[k].after = C!PeerTarget(p, L[k])
    BY <2>3, <2>4
  <2> QED
    BY <2>6, <2>7

<1>16. M \in [1 .. n -> Steps] \/ own.g = g
  BY <1>13
<1> HIDE DEF own, g, f, n, L, sA, sG, sD, mark, A, B, D, Z, M, Q
<1>17. C!Idle \in Runs
  BY IdleFits DEF RunFits
<1>19. /\ A \in Seq(Steps) /\ Len(A) \in {0, 1} /\ A \o <<>> = A
       /\ \A i \in 1 .. Len(A) : i = 1 /\ A[i] = sA
  BY <1>4, <1>11, OneOrNone
<1>20. /\ D \in Seq(Steps) /\ Len(D) \in {0, 1}
       /\ \A i \in 1 .. Len(D) : i = 1 /\ D[i] = sD
  BY <1>6, <1>11, OneOrNone
<1>18. Z \in Seq(Steps) => r \in Runs /\ r.at = "planned" /\ r.steps = Z
  <2> DEFINE idle == C!Idle
  <2> HIDE DEF idle
  <2>1. idle \in Runs /\ r = [idle EXCEPT !.at = "planned", !.steps = Z]
    BY <1>17 DEF idle
  <2> HIDE DEF r
  <2> QED
    BY <2>1 DEF Runs
<1> HIDE DEF r
<1>14. CASE own.g = g
  <2>1. Z = Pair(A, D)
    BY <1>7, <1>9, <1>14, <1>19 DEF Pair
  <2>2. /\ Z \in Seq(Steps)
        /\ \A i \in 1 .. Len(Z) : Fits(x0, Z[i]) /\ Z[i].scope # C!Shared
    <3>1. /\ Z \in Seq(Steps) /\ Len(Z) = Len(A) + Len(D) /\ Len(A) \in Nat /\ Len(D) \in Nat
          /\ \A i \in 1 .. Len(A) : Z[i] = A[i]
          /\ \A i \in 1 .. Len(D) : Z[Len(A) + i] = D[i]
      <4>1. IsPair(Steps, A, D, Z)
        BY <1>19, <1>20, <2>1, Paired
      <4> QED
        BY <4>1 DEF IsPair
    <3>2. ASSUME NEW i \in 1 .. Len(Z) PROVE Z[i] = sA \/ Z[i] = sD
      <4>1. CASE i <= Len(A)
        BY <1>19, <3>1, <4>1
      <4>2. CASE i > Len(A)
        <5>1. i - Len(A) \in 1 .. Len(D) /\ i = Len(A) + (i - Len(A))
          BY <3>1, <4>2
        <5> QED
          BY <1>20, <3>1, <5>1
      <4> QED
        BY <3>1, <4>1, <4>2
    <3> QED
      BY <1>3, <1>11, <3>1, <3>2
  <2>3. r \in Runs /\ r.at = "planned" /\ r.steps = Z
    BY <1>18, <2>2
  <2>4. RunFits(x0, config, r)
    BY <1>1, <2>2, <2>3 DEF RunFits
  <2> QED
    BY <2>4 DEF r, Z
<1>15. CASE own.g # g
  <2>1. M \in Seq(Steps) /\ Len(M) = n
    BY <1>8, <1>15, <1>16
  <2>2. A \in Seq(Steps) /\ D \in Seq(Steps) /\ Len(A) \in {0, 1} /\ Len(D) \in {0, 1}
        /\ (\A i \in 1 .. Len(A) : i = 1 /\ A[i] = sA) /\ (\A i \in 1 .. Len(D) : i = 1 /\ D[i] = sD)
    BY <1>19, <1>20
  <2>3. Z = Three(A, M, sG, D)
    BY <1>7, <1>10, <1>15 DEF Three, Pair
  <2>5. /\ Z \in Seq(Steps) /\ Len(Z) = Len(A) + n + 1 + Len(D)
        /\ \A i \in 1 .. Len(A) : Z[i] = A[i]
        /\ \A k \in 1 .. n : Z[Len(A) + k] = M[k]
        /\ Z[Len(A) + n + 1] = sG
        /\ \A i \in 1 .. Len(D) : Z[Len(A) + n + 1 + i] = D[i]
    <3>1. /\ Z \in Seq(Steps) /\ Len(Z) = Len(A) + Len(M) + 1 + Len(D)
          /\ \A i \in 1 .. Len(A) : Z[i] = A[i]
          /\ \A k \in 1 .. Len(M) : Z[Len(A) + k] = M[k]
          /\ Z[Len(A) + Len(M) + 1] = sG
          /\ \A i \in 1 .. Len(D) : Z[Len(A) + Len(M) + 1 + i] = D[i]
      <4>1. sG \in Steps
        BY <1>11
      <4>2. IsThree(Steps, A, M, sG, D, Z)
        BY <2>1, <2>2, <2>3, <4>1, Joined
      <4> QED
        BY <4>2 DEF IsThree
    <3> QED
      BY <2>1, <3>1
  <2>4. r.at = "planned" /\ r.steps = Z
    BY <1>18, <2>5
  <2>6. ASSUME NEW i \in 1 .. Len(Z)
        PROVE  \/ i = 1 /\ Len(A) = 1 /\ Z[i] = sA
               \/ \E k \in 1 .. n : i = Len(A) + k /\ Z[i] = M[k]
               \/ i = Len(A) + n + 1 /\ Z[i] = sG
               \/ Z[i] = sD
    <3>1. CASE i <= Len(A)
      BY <1>8, <2>2, <2>5, <3>1
    <3>2. CASE i > Len(A) /\ i <= Len(A) + n
      <4>1. i - Len(A) \in 1 .. n /\ i = Len(A) + (i - Len(A))
        BY <1>8, <2>2, <3>2
      <4> QED
        BY <2>5, <4>1
    <3>3. CASE i = Len(A) + n + 1
      BY <2>5, <3>3
    <3>4. CASE i > Len(A) + n + 1
      <4>1. i - (Len(A) + n + 1) \in 1 .. Len(D) /\ i = Len(A) + n + 1 + (i - (Len(A) + n + 1))
        BY <1>8, <2>2, <2>5, <3>4
      <4> QED
        BY <2>2, <2>5, <4>1
    <3> QED
      BY <1>8, <2>2, <3>1, <3>2, <3>3, <3>4
  <2>7. \A k \in 1 .. n : M[k].scope = L[k] /\ L[k] \in Projects /\ L[k] # p
    BY <1>8, <1>13, <1>15 DEF C!Peers, Q
  <2>8. ASSUME NEW i \in 1 .. Len(Z)
        PROVE  Fits(x0, Z[i]) /\ (Z[i].scope = C!Shared => i = Len(A) + n + 1 /\ Z[i] = sG)
    BY <1>3, <1>11, <1>13, <1>15, <2>6, <2>7, ScopesApart
  \* Where a peer's file is rewritten.
  <2>9. ASSUME NEW q \in Q, NEW S, C!PeerTarget(p, q) \in S
        PROVE  Due(config, r, Len(A) + n + 1, q, S)
    <3>1. PICK k \in 1 .. n : L[k] = q
      BY <1>8
    <3> DEFINE j == Len(A) + k
    <3>2. j \in 1 .. (Len(A) + n + 1) - 1 /\ Z[j] = M[k] /\ Z[j].scope = q /\ Z[j].after \in S
      BY <1>8, <1>13, <1>15, <2>2, <2>5, <2>9, <3>1
    <3>3. ASSUME NEW l \in 1 .. j - 1 PROVE Z[l].scope # q
      <4>1. l \in 1 .. Len(Z) /\ l < Len(A) + k
        BY <1>8, <2>2, <2>5
      <4>2. CASE l = 1 /\ Len(A) = 1 /\ Z[l] = sA
        BY <1>11, <2>7, <3>1, <4>2
      <4>3. CASE \E h \in 1 .. n : l = Len(A) + h /\ Z[l] = M[h]
        BY <1>8, <2>2, <2>7, <3>1, <4>1, <4>3
      <4>4. CASE l = Len(A) + n + 1
        BY <1>8, <2>2, <4>1, <4>4
      <4>5. CASE Z[l] = sD
        BY <1>11, <2>7, <3>1, <4>5
      <4> QED
        BY <2>6, <4>1, <4>2, <4>3, <4>4, <4>5
    <3> QED
      BY <2>4, <3>2, <3>3 DEF Due, Ahead
  \* Where the project's own file is.
  <2>10. ASSUME NEW S, own.f \in S PROVE Due(config, r, Len(A) + n + 1, p, S)
    <3>1. CASE own.f = f
      BY <2>10, <3>1 DEF Due, f
    <3>2. CASE own.f # f
      <4>3. own.changed
        BY <1>2, <3>2
      <4>4. A = <<sA>>
        BY <1>5, <4>3
      <4>5. Len(A) = 1 /\ A[1] = sA
        BY <4>4
      <4>1. Len(A) = 1 /\ Z[1] = sA
        BY <2>5, <4>5
      <4>2. 1 \in 1 .. (Len(A) + n + 1) - 1
        BY <1>8, <4>1
      <4> QED
        BY <1>11, <2>4, <2>10, <4>1, <4>2 DEF Due, Ahead
    <3> QED
      BY <3>1, <3>2
  <2>11. ASSUME NEW q \in Projects, own.g.auto # g.auto
         PROVE  Due(config, r, Len(A) + n + 1, q, Moved(x0, q))
    <3>1. CASE q = p
      BY <1>2, <2>10, <2>11, <3>1
    <3>2. CASE q # p
      <4>1. q \in C!Peers(p)
        BY <1>2, <2>11, <3>2 DEF C!Peers, g
      <4>2. C!PeerTarget(p, q) \in Moved(x0, q)
        BY <1>12, <1>15, <2>11, <4>1
      <4>3. CASE q \in Q
        BY <2>9, <4>2, <4>3
      <4>4. CASE q \notin Q
        BY <4>1, <4>2, <4>4 DEF Due, Q
      <4> QED
        BY <4>3, <4>4
    <3> QED
      BY <3>1, <3>2
  <2>12. ASSUME NEW q \in Projects, g.hand, ~own.g.hand, Wide(q)
         PROVE  Due(config, r, Len(A) + n + 1, q, Granted(q))
    <3>1. CASE q = p
      BY <1>2, <2>10, <2>12, <3>1
    <3>2. CASE q # p
      <4> DEFINE t == C!PeerTarget(p, q)
      <4>1. C!MeansLaunch(own.g, t, q) = C!MeansLaunch(g, config[q], q)
        BY <1>1, <1>15, <2>12, <3>2 DEF C!Unharmed, own, g
      <4>2. t.launch = config[q].launch
        BY <1>12, <1>15 DEF C!PeerTarget
      <4>3. config[q] \in Files /\ (config[q].launch = C!NoLaunch \/ config[q].launch = C!Assigned(q))
        BY ScopesApart DEF Held
      <4> HIDE DEF t
      <4>4. C!MeansLaunch(own.g, t, q) = IF config[q].launch # C!NoLaunch THEN config[q].launch ELSE C!SafeGlobal
        BY <1>2, <2>12, <4>2 DEF C!MeansLaunch, C!ResolveLaunch, C!MappedLaunch, C!Materializes
      <4>5. C!MeansLaunch(g, config[q], q) = C!Assigned(q)
        BY <1>3, <2>12, <4>3, ScopesApart DEF C!MeansLaunch, C!ResolveLaunch, C!MappedLaunch, C!Materializes, Wide, Files
      <4>6. config[q].launch = C!Assigned(q)
        BY <2>12, <4>1, <4>4, <4>5 DEF Wide
      <4> QED
        BY <4>3, <4>6 DEF Due, Granted
    <3> QED
      BY <3>1, <3>2
  <2>13. ASSUME NEW i \in 1 .. Len(Z), NEW q \in Projects, Z[i].scope = C!Shared
         PROVE  Demand(x0, config, r, i, q)
    <3>1. i = Len(A) + n + 1 /\ Z[i].after = own.g /\ Z[i].before = g
      BY <1>11, <2>8, <2>13
    <3> QED
      BY <2>4, <2>11, <2>12, <3>1 DEF Demand
  <2>14. r \in Runs
    BY <1>18, <2>5
  <2>15. RunFits(x0, config, r)
    BY <1>1, <2>4, <2>8, <2>13, <2>14 DEF RunFits
  <2> QED
    BY <2>15 DEF r, Z
<1> QED
  BY <1>14, <1>15

LEMMA PlanKeeps ==
    ASSUME NEW x0, ConfigInv(x0), NEW p \in Projects, C!Plan(p)
    PROVE  ConfigInv(x0)'
<1> DEFINE r1 == [C!Idle EXCEPT !.at = "planned", !.steps = C!PlanSteps(p)]
<1>1. C!Status(p) = "planned" /\ run' = [run EXCEPT ![p] = r1] /\ UNCHANGED <<config, pace, reach>>
  BY DEF C!Plan, C!ghosts
<1> HIDE DEF r1
<1>2. RunFits(x0, config, r1)
  BY <1>1, PlanFits DEF ConfigInv, r1
<1> QED
  BY <1>1, <1>2, OneMoves

LEMMA StepKeeps ==
    ASSUME NEW x0, ConfigInv(x0), C!Next
    PROVE  ConfigInv(x0)'
<1>1. PICK p \in Projects : C!Advance(p) \/ C!Plan(p) \/ C!PlanNothing(p) \/ C!Crash(p)
  BY DEF C!Next
<1>2. CASE C!Conform(p) \/ C!PlanNothing(p)
  BY <1>2 DEF C!Conform, C!PlanNothing, C!ghosts, ConfigInv
<1>3. CASE C!Finish(p) \/ C!Crash(p)
  <2>1. run' = [run EXCEPT ![p] = C!Idle] /\ UNCHANGED <<config, pace, reach>>
    BY <1>3 DEF C!Finish, C!Crash, C!ghosts
  <2> QED
    BY <2>1, IdleFits, OneMoves
<1> QED
  BY <1>1, <1>2, <1>3, PlanKeeps, PreflightKeeps, ValidateKeeps, CheckpointKeeps, WriteKeepsAll DEF C!Advance

LEMMA StartKeeps ==
    ASSUME C!Init
    PROVE  ConfigInv(config)
<1>1. PICK auto \in [C!Scopes -> C!LegacyForms], hand \in BOOLEAN :
         config = [s \in C!Scopes |-> C!Fresh0(auto[s], hand /\ s = C!Shared)]
  BY DEF C!Init
<1>2. \A s \in C!Scopes : /\ config[s] \in Files /\ config[s].auto \in C!LegacyForms
                          /\ config[s].launch = C!NoLaunch
  BY <1>1, LegacyTyped DEF C!Fresh0, Files, C!NoLaunch
<1>3. config \in [C!Scopes -> Files]
  BY <1>1, <1>2
<1>4. Started(config)
  BY <1>2, <1>3 DEF Started
<1>5. Held(config, config)
  BY <1>2, <1>3, ScopesApart DEF Held, Lends
<1>6. run = [p \in Projects |-> C!Idle] /\ C!Idle \in Runs
  BY IdleFits DEF C!Init, RunFits
<1>7. run \in [Projects -> Runs] /\ \A p \in Projects : RunFits(config, config, run[p])
  BY <1>6, IdleFits
<1> QED
  BY <1>4, <1>5, <1>7 DEF ConfigInv, C!Init

\* Some files that operators wrote are those the present ones descend from.
Settled == part = "config" => \E x0 : ConfigInv(x0)

\* No file that migrate-config writes, in whatever order and wherever a run dies,
\* makes a project resolve to another pace (it may be refused as conflicting), and
\* what its agents may launch by themselves is neither widened nor lost.
THEOREM MigrationKeepsSettings == MCSpec => []SettingsKept
<1>1. (Entering \/ Configuring) => Settled
  BY StartKeeps DEF Entering, Configuring, Settled
<1>2. Settled /\ [EntryNext \/ ConfigNext]_<<part, vars, configuration>> => Settled'
  <2> SUFFICES ASSUME Settled, [EntryNext \/ ConfigNext]_<<part, vars, configuration>>, part' = "config"
               PROVE  \E x0 : ConfigInv(x0)'
    BY DEF Settled
  <2>1. CASE EntryNext
    BY <2>1 DEF EntryNext
  <2>2. CASE ConfigNext
    <3>1. part = "config" /\ C!Next
      BY <2>2 DEF ConfigNext
    <3>2. PICK x0 : ConfigInv(x0)
      BY <3>1 DEF Settled
    <3> QED
      BY <3>1, <3>2, StepKeeps
  <2>3. CASE UNCHANGED <<part, vars, configuration>>
    <3>1. PICK x0 : ConfigInv(x0)
      BY <2>3 DEF Settled
    <3>2. UNCHANGED <<config, pace, reach, run>>
      BY <2>3 DEF configuration
    <3> QED
      BY <3>1, <3>2 DEF ConfigInv
  <2> QED
    BY <2>1, <2>2, <2>3
<1>3. Settled => SettingsKept
  <2> SUFFICES ASSUME Settled, part = "config" PROVE C!SettingsKept
    BY DEF SettingsKept
  <2>1. PICK x0 : ConfigInv(x0)
    BY DEF Settled
  <2> QED
    BY <2>1, HeldIsKept DEF ConfigInv
<1> QED
  BY <1>1, <1>2, <1>3, PTL DEF MCSpec

-----------------------------------------------------------------------------
(***************************************************************************)
(* The entries.                                                            *)
(***************************************************************************)
\* An application in progress, as a record.
Planned(j) ==
    j = [writes |-> j.writes, deletes |-> j.deletes, dirs |-> j.dirs, landed |-> j.landed]

EntryTypes ==
    /\ entry \in {"v0.2.0", "v0.3.0", "v0.6.0", "v0.10.0"} /\ entry \in Entries
    /\ file \in [Paths -> Texts \cup {Nothing}] /\ file[Old(Doc)] = Nothing
    /\ archive \in Forms /\ edits \in Nat /\ behind \in BOOLEAN
    /\ job # Nothing => Planned(job)

\* What a file may still mention: what the entry looks for, and of the names that
\* retire only those still there, unless its canonical copy is.
Says(p) ==
    /\ entry = "v0.2.0" => file[p].old \subseteq {"gate"}
    /\ entry = "v0.3.0" => p[2] = "canonical" /\ file[p].old \subseteq {"subpath n/a", "subpath"}
    /\ entry = "v0.6.0" /\ p[2] = "canonical" => file[p].old = {}
    /\ entry = "v0.10.0" /\ (p[2] = "canonical" \/ file[New(p[1])] = Nothing) => file[p].old \subseteq Replaced

\* No artifact is lost: it is under one of its names, if it is to have another.
Whole ==
    ~Kept(entry) => \A a \in Concerned :
                      a \in Artifacts /\ (file[Old(a)] # Nothing \/ file[New(a)] # Nothing)

Fitting(w) ==
    /\ w.path \in Paths /\ w.after \in Texts
    /\ w.path[2] = "canonical" \/ w.before # Nothing
    /\ entry = "v0.2.0" => w.after.old \subseteq {"gate"}
    /\ entry = "v0.3.0" => w.path[2] = "canonical" /\ w.after.old \subseteq {"subpath n/a", "subpath"}
    /\ entry # "v0.6.0"
    /\ entry = "v0.10.0" => w.path[2] = "canonical" /\ w.after.old = {}

ToWrite(p) == \E w \in job.writes : w.path = p

\* What an application has still to do is all that is left to do: a name still
\* to be copied and a mention still there have their writes, and the archive
\* its rename.
JobFits ==
    /\ told = "none"
    /\ \A w \in job.writes : Fitting(w)
    /\ \A d \in job.deletes : \E a \in Artifacts : d.path = Old(a)
    /\ ~Kept(entry) => \A a \in Renamed : file[New(a)] # Nothing \/ ToWrite(New(a))
    /\ entry = "v0.10.0" => /\ \A p \in Present : p[2] = "canonical" => file[p].old = {} \/ ToWrite(p)
                            /\ archive = "retired" => job.dirs
    /\ ~behind /\ entry # "v0.10.0" => job.writes = {} /\ job.deletes = {}

\* Nothing is left of the entry in the files.
Done ==
    /\ Renamed = {} /\ \A p \in Present : file[p].old = {}
    /\ ~Kept(entry) => \A a \in Concerned : file[New(a)] # Nothing

EntryInv ==
    /\ EntryTypes /\ Whole /\ \A p \in Present : Says(p)
    /\ job # Nothing => JobFits
    /\ entry # "v0.10.0" => archive = "canonical" /\ (told = "complete" \/ ~behind => Done)

LEMMA EntriesNamed == DOMAIN Mentions = {"v0.2.0", "v0.3.0", "v0.6.0", "v0.10.0"}
BY Zenon DEF Mentions

LEMMA MentionsAre ==
    /\ Mentions["v0.2.0"] = {"gate"} /\ Mentions["v0.3.0"] = {"subpath n/a", "subpath"}
    /\ Mentions["v0.10.0"] = Artifacts \cup {Archive}
BY Zenon DEF Mentions

LEMMA ConcernedAre ==
    /\ entry = "v0.10.0" => Concerned = Artifacts
    /\ entry = "v0.3.0" => Concerned = {}
<1>1. entry = "v0.10.0" => Concerned = Artifacts
  BY Zenon DEF Concerned
<1>2. entry = "v0.3.0" => Concerned = {}
  BY Zenon DEF Concerned
<1> QED
  BY <1>1, <1>2

LEMMA PlanEntryIs ==
    /\ ~behind /\ entry # "v0.10.0" => PlanEntry = NothingToDo
    /\ behind /\ entry = "v0.2.0" => PlanEntry = PlanStandards
    /\ behind /\ entry = "v0.3.0" => PlanEntry = PlanSubpaths
    /\ behind /\ entry = "v0.6.0" => PlanEntry = PlanConventions
    /\ entry = "v0.10.0" => PlanEntry = PlanNames
<1>1. ~behind /\ entry # "v0.10.0" => PlanEntry = NothingToDo
  BY Zenon DEF PlanEntry
<1>2. behind /\ entry = "v0.2.0" => PlanEntry = PlanStandards
  BY Zenon DEF PlanEntry
<1>3. behind /\ entry = "v0.3.0" => PlanEntry = PlanSubpaths
  BY Zenon DEF PlanEntry
<1>4. behind /\ entry = "v0.6.0" => PlanEntry = PlanConventions
  BY Zenon DEF PlanEntry
<1>5. entry = "v0.10.0" => PlanEntry = PlanNames
  BY Zenon DEF PlanEntry
<1> QED
  BY <1>1, <1>2, <1>3, <1>4, <1>5

LEMMA TextIs ==
    ASSUME NEW t \in Texts
    PROVE  /\ t # Nothing
           /\ \A f : Without(t, f) \in Texts /\ Without(t, f).old = t.old \ f
           /\ \A n \in Nat : [t EXCEPT !.v = n] \in Texts /\ [t EXCEPT !.v = n].old = t.old
<1> DEFINE Words == UNION {Mentions[e] : e \in DOMAIN Mentions}
<1>1. Texts = [v : Nat, old : SUBSET Words]
  BY DEF Texts
<1>2. Nothing \notin Texts
  BY EntryAssumption
<1> HIDE DEF Words
<1> QED
  BY <1>1, <1>2 DEF Without

LEMMA PathsAre ==
    /\ \A a \in Artifacts : Old(a) \in Paths /\ New(a) \in Paths
    /\ Old(Doc) \in Paths /\ New(Doc) \in Paths
    /\ \A p \in Paths : /\ p[2] \in Forms
                        /\ p[2] = "retired" => p = Old(p[1]) /\ (p[1] \in Artifacts \/ p[1] = Doc)
                        /\ p[2] = "canonical" => p = New(p[1])
    /\ \A a, b : Old(a) # New(b) /\ (Old(a) = Old(b) => a = b) /\ (New(a) = New(b) => a = b)
    /\ \A a : Old(a)[1] = a /\ Old(a)[2] = "retired" /\ New(a)[1] = a /\ New(a)[2] = "canonical"
BY DEF Paths, Names, Forms, Old, New

LEMMA KeptAre == Kept(entry) <=> entry \in {"v0.3.0", "v0.6.0"}
BY DEF Kept

LEMMA CopiesAre ==
    ASSUME NEW forms
    PROVE  /\ \A w \in Copies(forms) :
                 \E a \in Renamed : /\ file[New(a)] = Nothing /\ w.path = New(a)
                                    /\ w.after = Without(file[Old(a)], forms)
           /\ \A a \in Renamed : file[New(a)] = Nothing => \E w \in Copies(forms) : w.path = New(a)
<1> DEFINE Copy(a) == Write(New(a), Nothing, Without(file[Old(a)], forms))
<1>1. Copies(forms) = {Copy(a) : a \in {b \in Renamed : file[New(b)] = Nothing}}
  BY DEF Copies
<1>2. \A a : Copy(a).path = New(a) /\ Copy(a).after = Without(file[Old(a)], forms)
  BY DEF Write
<1> HIDE DEF Copy
<1> QED
  BY <1>1, <1>2

LEMMA AnchorsAre ==
    ASSUME NEW forms
    PROVE  /\ \A w \in Anchors(forms) :
                 w.path \in Present /\ w.before = file[w.path] /\ w.after = Without(file[w.path], forms)
           /\ \A p \in Present : file[p].old \cap forms # {} => \E w \in Anchors(forms) : w.path = p
<1> DEFINE Anchor(p) == Write(p, file[p], Without(file[p], forms))
<1>1. Anchors(forms) = {Anchor(p) : p \in {q \in Present : file[q].old \cap forms # {}}}
  BY DEF Anchors
<1>2. \A p : Anchor(p).path = p /\ Anchor(p).before = file[p] /\ Anchor(p).after = Without(file[p], forms)
  BY DEF Write
<1> HIDE DEF Anchor
<1> QED
  BY <1>1, <1>2

LEMMA DeletesAre ==
    /\ \A d \in {Delete(Old(a)) : a \in Renamed} : \E a \in Artifacts : d.path = Old(a)
    /\ {Delete(Old(a)) : a \in Renamed} = {} => Renamed = {}
<1> DEFINE Gone(a) == Delete(Old(a))
<1>1. \A a : Gone(a).path = Old(a)
  BY DEF Delete
<1>2. Renamed \subseteq Artifacts
  BY DEF Renamed
<1> HIDE DEF Gone
<1>3. /\ \A d \in {Gone(a) : a \in Renamed} : \E a \in Artifacts : d.path = Old(a)
      /\ {Gone(a) : a \in Renamed} = {} => Renamed = {}
  BY <1>1, <1>2
<1> QED
  BY <1>3 DEF Gone

\* The plans, field by field.
LEMMA PlansAre ==
    /\ NothingToDo.kind = "plan" /\ NothingToDo.writes = {} /\ NothingToDo.deletes = {}
    /\ PlanStandards.kind = "plan" =>
         /\ \A a \in Concerned : file[Old(a)] # Nothing \/ file[New(a)] # Nothing
         /\ PlanStandards.writes = Copies({}) \cup Anchors({"gate"})
         /\ PlanStandards.deletes = {Delete(Old(a)) : a \in Renamed}
    /\ PlanSubpaths.kind = "plan" =>
         /\ \A p \in Present : "subpath" \notin file[p].old
         /\ PlanSubpaths.writes = Anchors({"subpath n/a"}) /\ PlanSubpaths.deletes = {}
    /\ PlanConventions.kind = "plan" =>
         /\ PlanConventions.writes = {}
         /\ PlanConventions.deletes \in {{}, {Delete(Old(a)) : a \in Renamed}}
         /\ PlanConventions.deletes = {} => Renamed = {}
    /\ PlanNames.kind = "plan" =>
         /\ PlanNames.writes = Copies(Replaced) \cup {w \in Anchors(Replaced) : w.path \notin {Old(a) : a \in Renamed}}
         /\ PlanNames.deletes = {Delete(Old(a)) : a \in Renamed}
         /\ PlanNames.dirs = (archive = "retired")
<1> DEFINE D == {Delete(Old(a)) : a \in Renamed}
<1>0. /\ NothingToDo = [kind |-> "plan", writes |-> {}, deletes |-> {}, dirs |-> FALSE]
      /\ Blocked.kind = "refused" /\ Pending.kind = "pending"
  BY DEF NothingToDo, Blocked, Pending
<1>1. D = {} => Renamed = {}
  BY DeletesAre
<1> HIDE DEF D
<1>2. ASSUME PlanStandards.kind = "plan"
      PROVE  /\ \A a \in Concerned : file[Old(a)] # Nothing \/ file[New(a)] # Nothing
             /\ PlanStandards.writes = Copies({}) \cup Anchors({"gate"})
             /\ PlanStandards.deletes = D
  <2>1. /\ ~\E a \in Concerned : Collision(a) \/ (file[Old(a)] = Nothing /\ file[New(a)] = Nothing)
        /\ PlanStandards = [NothingToDo EXCEPT !.writes = Copies({}) \cup Anchors({"gate"}), !.deletes = D]
    BY <1>0, <1>2 DEF PlanStandards, D
  <2> QED
    BY <1>0, <2>1
<1>3. ASSUME PlanSubpaths.kind = "plan"
      PROVE  /\ \A p \in Present : "subpath" \notin file[p].old
             /\ PlanSubpaths.writes = Anchors({"subpath n/a"}) /\ PlanSubpaths.deletes = {}
  <2>1. /\ ~\E p \in Present : "subpath" \in file[p].old
        /\ PlanSubpaths = [NothingToDo EXCEPT !.writes = Anchors({"subpath n/a"})]
    BY <1>0, <1>3 DEF PlanSubpaths
  <2> QED
    BY <1>0, <2>1
<1>4. ASSUME PlanConventions.kind = "plan"
      PROVE  /\ PlanConventions.writes = {} /\ PlanConventions.deletes \in {{}, D}
             /\ PlanConventions.deletes = {} => Renamed = {}
  <2>1. \/ Renamed = {} /\ PlanConventions = NothingToDo
        \/ PlanConventions = [NothingToDo EXCEPT !.deletes = D]
    BY <1>0, <1>4 DEF PlanConventions, D
  <2> QED
    BY <1>0, <1>1, <2>1
<1>5. ASSUME PlanNames.kind = "plan"
      PROVE  /\ PlanNames.writes = Copies(Replaced) \cup {w \in Anchors(Replaced) : w.path \notin {Old(a) : a \in Renamed}}
             /\ PlanNames.deletes = D
             /\ PlanNames.dirs = (archive = "retired")
  <2>1. PlanNames = [NothingToDo EXCEPT
          !.writes = Copies(Replaced) \cup {w \in Anchors(Replaced) : w.path \notin {Old(a) : a \in Renamed}},
          !.deletes = D, !.dirs = (archive = "retired")]
    BY <1>0, <1>5 DEF PlanNames, D
  <2> QED
    BY <1>0, <2>1
<1> QED
  BY <1>0, <1>2, <1>3, <1>4, <1>5 DEF D

LEMMA SaysOf ==
    ASSUME EntryInv, NEW p \in Present
    PROVE  p \in Paths /\ file[p] \in Texts /\ Says(p)
BY DEF EntryInv, EntryTypes, Present

\* What an entry plans is all that is left to do.
LEMMA EntryPlanFits ==
    ASSUME EntryInv, PlanEntry.kind = "plan"
    PROVE  /\ \A w \in PlanEntry.writes : Fitting(w)
           /\ \A d \in PlanEntry.deletes : \E a \in Artifacts : d.path = Old(a)
           /\ ~Kept(entry) => \A a \in Renamed : file[New(a)] # Nothing \/ \E w \in PlanEntry.writes : w.path = New(a)
           /\ entry = "v0.10.0" =>
                /\ \A p \in Present : p[2] = "canonical" => file[p].old = {} \/ \E w \in PlanEntry.writes : w.path = p
                /\ archive = "retired" => PlanEntry.dirs
           /\ ~behind /\ entry # "v0.10.0" => PlanEntry.writes = {} /\ PlanEntry.deletes = {}
<1> USE DEF Renamed
<1>1. CASE ~behind /\ entry # "v0.10.0"
  <2>1. ~Kept(entry) => Renamed = {}
    BY <1>1 DEF EntryInv, Done
  <2> QED
    BY <1>1, <2>1, PlanEntryIs, PlansAre
<1>2. CASE behind /\ entry = "v0.2.0"
  <2>1. /\ PlanEntry.writes = Copies({}) \cup Anchors({"gate"})
        /\ PlanEntry.deletes = {Delete(Old(a)) : a \in Renamed}
    BY <1>2, PlanEntryIs, PlansAre
  <2>2. ASSUME NEW w \in Copies({}) PROVE Fitting(w)
    <3>1. PICK a \in Renamed : /\ file[New(a)] = Nothing /\ w.path = New(a)
                               /\ w.after = Without(file[Old(a)], {})
      BY <2>2, CopiesAre
    <3>2. Old(a) \in Present
      BY PathsAre DEF Present
    <3>3. file[Old(a)] \in Texts /\ file[Old(a)].old \subseteq {"gate"}
      BY <1>2, <3>2, SaysOf DEF Says
    <3> QED
      BY <1>2, <3>1, <3>3, PathsAre, TextIs DEF Fitting
  <2>3. ASSUME NEW w \in Anchors({"gate"}) PROVE Fitting(w)
    <3>1. w.path \in Present /\ w.before = file[w.path] /\ w.after = Without(file[w.path], {"gate"})
      BY <2>3, AnchorsAre
    <3>2. file[w.path] \in Texts /\ file[w.path].old \subseteq {"gate"} /\ w.path \in Paths
      BY <1>2, <3>1, SaysOf DEF Says
    <3> QED
      BY <1>2, <3>1, <3>2, PathsAre, TextIs DEF Fitting
  <2>4. \A a \in Renamed : file[New(a)] # Nothing \/ \E w \in PlanEntry.writes : w.path = New(a)
    BY <2>1, CopiesAre
  <2> HIDE DEF Renamed
  <2> QED
    BY <1>2, <2>1, <2>2, <2>3, <2>4, DeletesAre
<1>3. CASE behind /\ entry = "v0.3.0"
  <2>1. /\ PlanEntry.writes = Anchors({"subpath n/a"}) /\ PlanEntry.deletes = {}
    BY <1>3, PlanEntryIs, PlansAre
  <2> DEFINE S == {"subpath n/a"}
  <2>2. PlanEntry.writes = Anchors(S)
    BY <2>1
  <2> HIDE DEF S
  <2>3. ASSUME NEW w \in Anchors(S) PROVE Fitting(w)
    <3>1. w.path \in Present /\ w.before = file[w.path] /\ w.after = Without(file[w.path], S)
      BY <2>3, AnchorsAre
    <3>2. file[w.path] \in Texts /\ w.path \in Paths
      BY <3>1, SaysOf
    <3>3. w.after \in Texts /\ w.after.old \subseteq file[w.path].old
      BY <3>1, <3>2, TextIs
    <3>4. w.path[2] = "canonical" /\ file[w.path].old \subseteq {"subpath n/a", "subpath"}
      BY <1>3, <3>1, SaysOf DEF Says
    <3> QED
      BY <1>3, <3>1, <3>2, <3>3, <3>4 DEF Fitting
  <2> QED
    BY <1>3, <2>1, <2>2, <2>3, KeptAre
<1>4. CASE behind /\ entry = "v0.6.0"
  <2>1. /\ PlanEntry.writes = {}
        /\ PlanEntry.deletes \in {{}, {Delete(Old(a)) : a \in Renamed}}
    BY <1>4, PlanEntryIs, PlansAre
  <2> HIDE DEF Renamed
  <2> QED
    BY <1>4, <2>1, DeletesAre, KeptAre
<1>5. CASE entry = "v0.10.0"
  <2> DEFINE Kin == {w \in Anchors(Replaced) : w.path \notin {Old(a) : a \in Renamed}}
  <2>1. /\ PlanEntry.writes = Copies(Replaced) \cup Kin
        /\ PlanEntry.deletes = {Delete(Old(a)) : a \in Renamed}
        /\ PlanEntry.dirs = (archive = "retired")
    BY <1>5, PlanEntryIs, PlansAre
  <2>2. ASSUME NEW w \in Copies(Replaced) PROVE Fitting(w)
    <3>1. PICK a \in Renamed : /\ file[New(a)] = Nothing /\ w.path = New(a)
                               /\ w.after = Without(file[Old(a)], Replaced)
      BY <2>2, CopiesAre
    <3>2. Old(a) \in Present
      BY PathsAre DEF Present
    <3>3. file[Old(a)] \in Texts /\ file[Old(a)].old \subseteq Replaced
      BY <1>5, <3>1, <3>2, SaysOf, PathsAre DEF Says
    <3> QED
      BY <1>5, <3>1, <3>3, PathsAre, TextIs DEF Fitting
  <2>3. ASSUME NEW w \in Kin PROVE Fitting(w)
    <3>1. /\ w.path \in Present /\ w.before = file[w.path] /\ w.after = Without(file[w.path], Replaced)
          /\ w.path \notin {Old(a) : a \in Renamed}
      BY <2>3, AnchorsAre
    <3>2. w.path[2] = "canonical"
      BY <3>1, PathsAre DEF Forms, Present, EntryInv, EntryTypes
    <3>3. file[w.path] \in Texts /\ file[w.path].old \subseteq Replaced /\ w.path \in Paths
      BY <1>5, <3>1, <3>2, SaysOf DEF Says
    <3> QED
      BY <1>5, <3>1, <3>2, <3>3, PathsAre, TextIs DEF Fitting
  <2>4. \A a \in Renamed : file[New(a)] # Nothing \/ \E w \in PlanEntry.writes : w.path = New(a)
    BY <2>1, CopiesAre
  <2>5. ASSUME NEW p \in Present, p[2] = "canonical", file[p].old # {}
        PROVE  \E w \in PlanEntry.writes : w.path = p
    <3>1. file[p].old \subseteq Replaced
      BY <1>5, <2>5, SaysOf DEF Says
    <3>2. PICK w \in Anchors(Replaced) : w.path = p
      BY <2>5, <3>1, AnchorsAre
    <3>3. p \notin {Old(a) : a \in Renamed}
      BY <2>5, PathsAre
    <3> QED
      BY <2>1, <3>2, <3>3
  <2> HIDE DEF Renamed, Kin
  <2> QED
    BY <1>5, <2>1, <2>2, <2>3, <2>4, <2>5, DeletesAre
<1> QED
  BY <1>1, <1>2, <1>3, <1>4, <1>5 DEF EntryInv, EntryTypes

\* One present file gets a text that mentions no more.
LEMMA Touched ==
    ASSUME EntryInv, NEW p \in Present, NEW t \in Texts, t.old \subseteq file[p].old,
           file' = [file EXCEPT ![p] = t], edits' \in Nat,
           UNCHANGED <<entry, archive, behind, job, told>>
    PROVE  EntryInv'
<1>1. /\ p \in Paths /\ file \in [Paths -> Texts \cup {Nothing}] /\ t # Nothing /\ file[p] # Nothing
      /\ file[Old(Doc)] = Nothing
  BY TextIs DEF Present, EntryInv, EntryTypes
<1>2. /\ file' \in [Paths -> Texts \cup {Nothing}]
      /\ \A q \in Paths : /\ file'[q] = Nothing <=> file[q] = Nothing
                          /\ file[q] # Nothing => file'[q].old \subseteq file[q].old
                          /\ file[q] = Nothing => file'[q] = Nothing
  BY <1>1
<1>3. Present' = Present /\ \A q \in Present : q \in Paths /\ file'[q].old \subseteq file[q].old
  BY <1>2 DEF Present
<1>4. Renamed' = Renamed
  BY <1>2, PathsAre DEF Renamed
<1>5. Replaced' = Replaced /\ Concerned' = Concerned
  BY <1>4 DEF Replaced, Concerned
<1>6. EntryTypes'
  BY <1>1, <1>2, PathsAre DEF EntryInv, EntryTypes, Planned
<1>7. \A q \in Present' : Says(q)'
  <2> SUFFICES ASSUME NEW q \in Present PROVE Says(q)'
    BY <1>3
  <2>1. Says(q) /\ file'[q].old \subseteq file[q].old /\ q \in Paths
    BY <1>3, SaysOf
  <2>2. (q[2] = "canonical" \/ file[New(q[1])] = Nothing) \/ ~(q[2] = "canonical" \/ file'[New(q[1])] = Nothing)
    <3>1. q[2] = "retired" => New(q[1]) \in Paths
      BY <2>1, PathsAre
    <3> QED
      BY <2>1, <3>1, <1>2, PathsAre DEF Forms
  <2> QED
    BY <2>1, <2>2, <1>5 DEF Says
<1>8. Whole'
  BY <1>2, <1>5, PathsAre DEF EntryInv, Whole
<1>9. (job # Nothing => JobFits)'
  <2> SUFFICES ASSUME job # Nothing PROVE JobFits'
    OBVIOUS
  <2>1. JobFits
    BY DEF EntryInv
  <2>2. \A w \in job.writes : Fitting(w)'
    BY <2>1 DEF JobFits, Fitting
  <2>3. \A q : ToWrite(q)' <=> ToWrite(q)
    BY DEF ToWrite
  <2>4. \A a \in Renamed : file[New(a)] # Nothing => file'[New(a)] # Nothing
    BY <1>2, PathsAre DEF Renamed
  <2>5. \A q \in Present : file[q].old = {} => file'[q].old = {}
    BY <1>3
  <2> QED
    BY <1>3, <1>4, <2>1, <2>2, <2>3, <2>4, <2>5 DEF JobFits
<1>10. Done => Done'
  <2>1. \A a \in Artifacts : file[New(a)] # Nothing => file'[New(a)] # Nothing
    BY <1>2, PathsAre
  <2>2. ~Kept(entry) => Concerned \subseteq Artifacts
    BY DEF EntryInv, Whole
  <2> QED
    BY <1>3, <1>4, <1>5, <2>1, <2>2 DEF Done
<1> QED
  BY <1>6, <1>7, <1>8, <1>9, <1>10 DEF EntryInv

\* The files, and what is known of the project, stay.
LEMMA FilesStay ==
    ASSUME EntryInv, UNCHANGED <<entry, file, archive, edits>>, behind' \in BOOLEAN,
           job' # Nothing => Planned(job') /\ JobFits',
           entry # "v0.10.0" /\ (told' = "complete" \/ ~behind') => Done
    PROVE  EntryInv'
<1>1. /\ Present' = Present /\ Renamed' = Renamed /\ Concerned' = Concerned
  BY DEF Present, Renamed, Concerned
<1>2. Replaced' = Replaced
  BY <1>1 DEF Replaced
<1>3. EntryTypes' /\ Whole' /\ \A p \in Present' : Says(p)'
  BY <1>1, <1>2 DEF EntryInv, EntryTypes, Whole, Says, Planned
<1>4. Done => Done'
  BY <1>1 DEF Done
<1> QED
  BY <1>3, <1>4 DEF EntryInv

LEMMA RenamedStay == UNCHANGED file => Renamed' = Renamed
BY DEF Renamed

\* One planned write lands.
LEMMA LandKeeps ==
    ASSUME EntryInv, Land
    PROVE  EntryInv'
<1>1. /\ job # Nothing /\ JobFits /\ Planned(job)
      /\ UNCHANGED <<entry, archive, edits, behind>>
  BY DEF Land, EntryInv, EntryTypes
<1>2. PICK w \in job.writes :
       \/ /\ file[w.path] = w.before /\ file' = [file EXCEPT ![w.path] = w.after]
          /\ job' = [job EXCEPT !.writes = @ \ {w},
                                !.landed = [path |-> w.path, text |-> w.after, by |-> w.by]]
          /\ told' = told
       \/ told' = "blocked" /\ job' = Nothing /\ UNCHANGED file
  BY DEF Land, Report
<1>3. Fitting(w)
  BY <1>1 DEF JobFits
<1>4. CASE told' = "blocked" /\ job' = Nothing /\ UNCHANGED file
  BY <1>1, <1>4, FilesStay DEF EntryInv, EntryTypes
<1>5. CASE /\ file[w.path] = w.before /\ file' = [file EXCEPT ![w.path] = w.after]
           /\ job' = [job EXCEPT !.writes = @ \ {w},
                                 !.landed = [path |-> w.path, text |-> w.after, by |-> w.by]]
           /\ told' = told
  <2>0. told = "none" /\ ~(~behind /\ entry # "v0.10.0")
    BY <1>1 DEF JobFits
  <2>1. /\ job'.writes = job.writes \ {w} /\ job'.deletes = job.deletes /\ job'.dirs = job.dirs
        /\ Planned(job')
    BY <1>1, <1>5 DEF Planned
  <2>2. /\ w.path \in Paths /\ file \in [Paths -> Texts \cup {Nothing}] /\ w.after \in Texts /\ w.after # Nothing
        /\ w.path[2] = "canonical" \/ file[w.path] # Nothing
        /\ file[Old(Doc)] = Nothing
    BY <1>3, <1>5, TextIs DEF Fitting, EntryInv, EntryTypes
  <2>3. /\ file' \in [Paths -> Texts \cup {Nothing}] /\ file'[w.path] = w.after
        /\ \A q \in Paths : q # w.path => file'[q] = file[q]
        /\ \A q \in Paths : file[q] # Nothing => file'[q] # Nothing
    BY <1>5, <2>2
  <2>4. \A a \in Artifacts : file'[Old(a)] = Nothing <=> file[Old(a)] = Nothing
    BY <2>2, <2>3, PathsAre
  <2>5. Renamed' = Renamed /\ file'[Old(Doc)] = Nothing
    BY <2>2, <2>3, <2>4, PathsAre DEF Renamed
  <2>6. Replaced' = Replaced /\ Concerned' = Concerned
    BY <1>1, <2>5 DEF Replaced, Concerned
  <2>7. EntryTypes'
    BY <1>1, <2>1, <2>3, <2>5 DEF EntryInv, EntryTypes
  <2>8. Whole'
    BY <1>1, <2>3, <2>6, PathsAre DEF EntryInv, Whole
  <2>9. ASSUME NEW q \in Present' PROVE Says(q)'
    <3>1. q \in Paths
      BY DEF Present
    <3>2. CASE q = w.path
      <4>1. file'[q] = w.after
        BY <2>3, <3>2
      <4>2. w.path[2] = "canonical" \/ entry # "v0.10.0"
        BY <1>3 DEF Fitting
      <4> QED
        BY <1>1, <1>3, <3>2, <4>1, <4>2 DEF Says, Fitting
    <3>3. CASE q # w.path
      <4>1. file'[q] = file[q] /\ q \in Present
        BY <2>3, <3>1, <3>3 DEF Present
      <4>2. file'[New(q[1])] = Nothing => q[2] = "canonical" \/ file[New(q[1])] = Nothing
        <5>1. q[2] = "retired" => New(q[1]) \in Paths
          BY <3>1, PathsAre
        <5> QED
          BY <2>3, <3>1, <5>1, PathsAre DEF Forms
      <4> QED
        BY <1>1, <2>6, <4>1, <4>2, SaysOf DEF Says
    <3> QED
      BY <3>2, <3>3
  <2>10. JobFits'
    <3>1. \A v \in job'.writes : Fitting(v)'
      BY <1>1, <2>1 DEF JobFits, Fitting
    <3>2. \A d \in job'.deletes : \E a \in Artifacts : d.path = Old(a)
      BY <1>1, <2>1 DEF JobFits
    <3>3. \A q : ToWrite(q) => q = w.path \/ ToWrite(q)'
      BY <2>1 DEF ToWrite
    <3>4. ~Kept(entry) => \A a \in Renamed : file'[New(a)] # Nothing \/ ToWrite(New(a))'
      BY <1>1, <2>2, <2>3, <3>3, PathsAre DEF JobFits, Renamed
    <3>5. entry = "v0.10.0" =>
            /\ \A q \in Present' : q[2] = "canonical" => file'[q].old = {} \/ ToWrite(q)'
            /\ archive = "retired" => job'.dirs
      <4> SUFFICES ASSUME entry = "v0.10.0"
                   PROVE /\ \A q \in Present' : q[2] = "canonical" => file'[q].old = {} \/ ToWrite(q)'
                         /\ archive = "retired" => job'.dirs
        OBVIOUS
      <4>1. w.after.old = {}
        BY <1>3 DEF Fitting
      <4>2. \A q \in Present' : q # w.path => q \in Present /\ file'[q] = file[q]
        BY <2>3 DEF Present
      <4> QED
        BY <1>1, <2>1, <2>3, <3>3, <4>1, <4>2 DEF JobFits
    <3> QED
      BY <1>1, <1>5, <2>0, <2>5, <3>1, <3>2, <3>4, <3>5 DEF JobFits
  <2> QED
    BY <1>1, <1>5, <2>0, <2>7, <2>8, <2>9, <2>10 DEF EntryInv
<1> QED
  BY <1>2, <1>4, <1>5

\* A source goes, when everything planned has been written.
LEMMA RetireKeeps ==
    ASSUME EntryInv, Retire
    PROVE  EntryInv'
<1>1. /\ job # Nothing /\ JobFits /\ Planned(job) /\ job.writes = {}
      /\ UNCHANGED <<entry, archive, edits, behind>>
  BY DEF Retire, EntryInv, EntryTypes
<1>2. PICK d \in job.deletes :
       \/ /\ file' = [file EXCEPT ![d.path] = Nothing]
          /\ job' = [job EXCEPT !.deletes = @ \ {d},
                                !.landed = [path |-> d.path, text |-> Deleted, by |-> "name"]]
          /\ told' = told
       \/ told' = "blocked" /\ job' = Nothing /\ UNCHANGED file
  BY DEF Retire, Report
<1>4. CASE told' = "blocked" /\ job' = Nothing /\ UNCHANGED file
  BY <1>1, <1>4, FilesStay DEF EntryInv, EntryTypes
<1>5. CASE /\ file' = [file EXCEPT ![d.path] = Nothing]
           /\ job' = [job EXCEPT !.deletes = @ \ {d},
                                 !.landed = [path |-> d.path, text |-> Deleted, by |-> "name"]]
           /\ told' = told
  <2>0. told = "none" /\ ~(~behind /\ entry # "v0.10.0")
    BY <1>1 DEF JobFits
  <2>1. /\ job'.writes = job.writes /\ job'.deletes = job.deletes \ {d} /\ job'.dirs = job.dirs
        /\ Planned(job')
    BY <1>1, <1>5 DEF Planned
  <2>2. PICK b \in Artifacts : d.path = Old(b)
    BY <1>1 DEF JobFits
  <2>3. /\ file \in [Paths -> Texts \cup {Nothing}] /\ file[Old(Doc)] = Nothing /\ Old(b) \in Paths
        /\ file' \in [Paths -> Texts \cup {Nothing}] /\ file'[Old(b)] = Nothing
        /\ \A q \in Paths : q # Old(b) => file'[q] = file[q]
    BY <1>5, <2>2, PathsAre DEF EntryInv, EntryTypes
  <2>4. /\ Present' = Present \ {Old(b)} /\ Renamed' = Renamed \ {b}
        /\ \A q \in Present' : file'[q] = file[q]
        /\ \A a \in Artifacts : file'[New(a)] = file[New(a)]
        /\ file'[Old(Doc)] = Nothing
    BY <2>3, PathsAre DEF Present, Renamed
  <2>5. Concerned' = Concerned
    BY <1>1 DEF Concerned
  <2>6. EntryTypes'
    BY <1>1, <2>1, <2>3, <2>4 DEF EntryInv, EntryTypes
  <2>7. \A q : ~ToWrite(q)
    BY <1>1 DEF ToWrite
  <2>8. ~Kept(entry) => \A a \in Renamed : file[New(a)] # Nothing
    BY <1>1, <2>7 DEF JobFits
  <2>9. Whole'
    <3> SUFFICES ASSUME ~Kept(entry), NEW a \in Concerned
                 PROVE  a \in Artifacts /\ (file'[Old(a)] # Nothing \/ file'[New(a)] # Nothing)
      BY <1>1, <2>5 DEF Whole
    <3>1. a \in Artifacts /\ (file[Old(a)] # Nothing \/ file[New(a)] # Nothing)
      BY DEF EntryInv, Whole
    <3>2. file[Old(a)] # Nothing => file[New(a)] # Nothing
      BY <2>8, <3>1 DEF Renamed
    <3> QED
      BY <2>4, <3>1, <3>2
  <2>10. ASSUME NEW q \in Present' PROVE Says(q)'
    <3>1. q \in Present /\ q \in Paths /\ file'[q] = file[q] /\ Says(q)
      BY <2>4, SaysOf
    <3>2. CASE entry # "v0.10.0"
      BY <1>1, <3>1, <3>2 DEF Says
    <3>3. CASE entry = "v0.10.0" /\ q[2] = "canonical"
      <4>1. file[q].old = {}
        BY <1>1, <2>7, <3>1, <3>3 DEF JobFits
      <4> QED
        BY <1>1, <3>1, <3>3, <4>1 DEF Says
    <3>4. CASE entry = "v0.10.0" /\ q[2] = "retired"
      <4>1. q = Old(q[1]) /\ q[1] \in Artifacts
        BY <3>1, <3>4, PathsAre DEF Present, EntryInv, EntryTypes
      <4>2. q[1] \in Renamed
        BY <3>1, <4>1 DEF Renamed, Present
      <4>3. file[New(q[1])] # Nothing
        BY <2>8, <3>4, <4>2, KeptAre
      <4> QED
        BY <1>1, <2>4, <3>4, <4>1, <4>3 DEF Says
    <3> QED
      BY <3>1, <3>2, <3>3, <3>4, PathsAre DEF Forms
  <2>11. JobFits'
    <3>1. \A w \in job'.writes : Fitting(w)'
      BY <1>1, <2>1
    <3>2. \A e \in job'.deletes : \E a \in Artifacts : e.path = Old(a)
      BY <1>1, <2>1 DEF JobFits
    <3>3. ~Kept(entry) => \A a \in Renamed' : file'[New(a)] # Nothing
      BY <2>4, <2>8 DEF Renamed
    <3>4. entry = "v0.10.0" => \A q \in Present' : q[2] = "canonical" => file'[q].old = {}
      BY <1>1, <2>4, <2>7 DEF JobFits
    <3>5. entry = "v0.10.0" /\ archive = "retired" => job'.dirs
      BY <1>1, <2>1 DEF JobFits
    <3> QED
      BY <1>1, <1>5, <2>0, <3>1, <3>2, <3>3, <3>4, <3>5 DEF JobFits
  <2> QED
    BY <1>1, <1>5, <2>0, <2>6, <2>9, <2>10, <2>11 DEF EntryInv
<1> QED
  BY <1>2, <1>4, <1>5

LEMMA NothingMoves ==
    ASSUME EntryInv, UNCHANGED <<entry, file, archive, edits, behind, job, told>>
    PROVE  EntryInv'
<1>1. job # Nothing => Planned(job') /\ JobFits'
  <2> SUFFICES ASSUME job # Nothing PROVE Planned(job') /\ JobFits'
    OBVIOUS
  <2>1. Planned(job) /\ JobFits
    BY DEF EntryInv, EntryTypes
  <2>2. Present' = Present /\ Renamed' = Renamed
    BY DEF Present, Renamed
  <2> QED
    BY <2>1, <2>2 DEF JobFits, Fitting, ToWrite
<1>2. behind' \in BOOLEAN /\ (entry # "v0.10.0" /\ (told' = "complete" \/ ~behind') => Done)
  BY DEF EntryInv, EntryTypes
<1> QED
  BY <1>1, <1>2, FilesStay

\* What only records, reports, dies or decides.
LEMMA RecordKeeps ==
    ASSUME EntryInv, Record \/ Crash \/ Decide
    PROVE  EntryInv'
<1>0. UNCHANGED <<entry, file, archive, edits, behind>> /\ behind' \in BOOLEAN
  BY DEF Record, Crash, Decide, EntryInv, EntryTypes
<1>1. CASE job' = Nothing /\ told' \in {told, "blocked"}
  BY <1>0, <1>1, FilesStay DEF EntryInv
<1>2. CASE job' = [job EXCEPT !.landed = Nothing] /\ job # Nothing /\ told' = told
  <2>1. Planned(job) /\ JobFits
    BY <1>2 DEF EntryInv, EntryTypes
  <2>2. /\ Planned(job') /\ job'.writes = job.writes /\ job'.deletes = job.deletes /\ job'.dirs = job.dirs
    BY <1>2, <2>1 DEF Planned
  <2>3. Present' = Present /\ Renamed' = Renamed
    BY <1>0 DEF Present, Renamed
  <2>4. JobFits'
    BY <1>0, <1>2, <2>1, <2>2, <2>3 DEF JobFits, Fitting, ToWrite
  <2> QED
    BY <1>0, <1>2, <2>2, <2>4, FilesStay DEF EntryInv
<1>3. CASE job' = job /\ told' = told
  BY <1>0, <1>3, NothingMoves
<1> QED
  BY <1>1, <1>2, <1>3 DEF Record, Crash, Decide, Report

LEMMA BeginKeeps ==
    ASSUME EntryInv, Begin
    PROVE  EntryInv'
<1>1. UNCHANGED <<entry, file, archive, edits, behind>> /\ job = Nothing /\ behind' \in BOOLEAN
  BY DEF Begin, EntryInv, EntryTypes
<1>2. CASE told' \in {"blocked", "pending"} /\ job' = Nothing
  BY <1>1, <1>2, FilesStay DEF EntryInv
<1>3. CASE /\ PlanEntry.kind = "plan" /\ told' = "none"
           /\ job' = [writes |-> PlanEntry.writes, deletes |-> PlanEntry.deletes,
                      dirs |-> PlanEntry.dirs, landed |-> Nothing]
  <2>1. /\ Planned(job') /\ job'.writes = PlanEntry.writes /\ job'.deletes = PlanEntry.deletes
        /\ job'.dirs = PlanEntry.dirs
    BY <1>3 DEF Planned
  <2>2. Present' = Present /\ Renamed' = Renamed
    BY <1>1 DEF Present, Renamed
  <2>3. JobFits'
    BY <1>1, <1>3, <2>1, <2>2, EntryPlanFits DEF JobFits, Fitting, ToWrite
  <2> QED
    BY <1>1, <1>3, <2>1, <2>3, FilesStay DEF EntryInv
<1> QED
  BY <1>2, <1>3 DEF Begin, Report

\* What the second plan finds, when nothing is left to apply.
LEMMA VerifyFinds ==
    ASSUME EntryInv, job # Nothing, job.writes = {}, job.deletes = {}, ~job.dirs,
           PlanEntry.kind = "plan", PlanEntry.writes = {}, PlanEntry.deletes = {}
    PROVE  Done /\ archive = "canonical"
<1>1. JobFits /\ \A q : ~ToWrite(q)
  BY DEF EntryInv, ToWrite
<1>2. CASE ~behind /\ entry # "v0.10.0"
  BY <1>2 DEF EntryInv
<1>3. CASE behind /\ entry = "v0.2.0"
  <2> DEFINE S == {"gate"}
  <2>1. /\ \A a \in Concerned : file[Old(a)] # Nothing \/ file[New(a)] # Nothing
        /\ Anchors(S) = {} /\ Renamed = {}
    BY <1>3, PlanEntryIs, PlansAre, DeletesAre
  <2>2. \A p \in Present : file[p].old \cap S = {}
    <3> HIDE DEF S
    <3> QED
      BY <2>1, AnchorsAre
  <2>3. \A p \in Present : file[p].old = {}
    BY <1>3, <2>2, SaysOf DEF Says
  <2>4. \A a \in Concerned : file[New(a)] # Nothing
    BY <1>3, <2>1, KeptAre DEF Renamed, EntryInv, Whole
  <2> QED
    BY <1>3, <2>1, <2>3, <2>4 DEF Done, EntryInv
<1>4. CASE behind /\ entry = "v0.3.0"
  <2> DEFINE S == {"subpath n/a"}
  <2>1. /\ \A p \in Present : "subpath" \notin file[p].old
        /\ Anchors(S) = {}
    BY <1>4, PlanEntryIs, PlansAre
  <2>2. \A p \in Present : file[p].old \cap S = {}
    <3> HIDE DEF S
    <3> QED
      BY <2>1, AnchorsAre
  <2>3. \A p \in Present : file[p].old = {} /\ p[2] = "canonical"
    BY <1>4, <2>1, <2>2, SaysOf DEF Says
  <2>4. Renamed = {}
    <3>1. \A a \in Artifacts : file[Old(a)] # Nothing => Old(a) \in Present
      BY PathsAre DEF Present
    <3> QED
      BY <2>3, <3>1, PathsAre DEF Renamed
  <2> QED
    BY <1>4, <2>3, <2>4, KeptAre DEF Done, EntryInv
<1>5. CASE behind /\ entry = "v0.6.0"
  <2>1. Renamed = {}
    BY <1>5, PlanEntryIs, PlansAre
  <2>2. ASSUME NEW p \in Present PROVE file[p].old = {}
    <3>1. p[2] = "canonical"
      BY <2>1, PathsAre DEF Renamed, Present, Forms, EntryInv, EntryTypes
    <3> QED
      BY <1>5, <3>1, SaysOf DEF Says
  <2> QED
    BY <1>5, <2>1, <2>2, KeptAre DEF Done, EntryInv
<1>6. CASE entry = "v0.10.0"
  <2>1. Renamed = {}
    BY <1>6, PlanEntryIs, PlansAre, DeletesAre
  <2>2. ASSUME NEW p \in Present PROVE file[p].old = {}
    <3>1. p[2] = "canonical"
      BY <2>1, PathsAre DEF Renamed, Present, Forms, EntryInv, EntryTypes
    <3> QED
      BY <1>1, <1>6, <3>1 DEF JobFits
  <2>3. ~Kept(entry) => \A a \in Concerned : file[New(a)] # Nothing
    BY <2>1 DEF Renamed, EntryInv, Whole
  <2>4. archive = "canonical"
    BY <1>1, <1>6 DEF JobFits, EntryInv, EntryTypes, Forms
  <2> QED
    BY <2>1, <2>2, <2>3, <2>4 DEF Done
<1> QED
  BY <1>2, <1>3, <1>4, <1>5, <1>6 DEF EntryInv, EntryTypes

LEMMA VerifyTells ==
    ASSUME EntryInv, Verify
    PROVE  /\ EntryInv'
           /\ told' = "complete" => Done /\ archive = "canonical"
<1>1. /\ UNCHANGED <<entry, file, archive, edits, behind>> /\ job' = Nothing /\ behind' \in BOOLEAN
      /\ job # Nothing /\ job.writes = {} /\ job.deletes = {} /\ ~job.dirs
      /\ told' = "blocked" \/ (PlanEntry.kind = "plan" /\ PlanEntry.writes = {} /\ PlanEntry.deletes = {})
      /\ told' \in {"blocked", "complete"}
  BY DEF Verify, Report, EntryInv, EntryTypes
<1>2. told' = "complete" => Done /\ archive = "canonical"
  BY <1>1, VerifyFinds
<1> QED
  BY <1>1, <1>2, FilesStay DEF EntryInv

LEMMA RenameArchiveKeeps ==
    ASSUME EntryInv, RenameArchive
    PROVE  EntryInv'
<1>1. /\ UNCHANGED <<entry, file, edits, behind, told>> /\ job # Nothing
      /\ job.writes = {} /\ job.deletes = {} /\ archive' = "canonical"
      /\ job' = [job EXCEPT !.dirs = FALSE] /\ JobFits /\ Planned(job)
  BY DEF RenameArchive, EntryInv, EntryTypes
<1>2. Planned(job') /\ job'.writes = {} /\ job'.deletes = {}
  BY <1>1 DEF Planned
<1>3. Present' = Present /\ Renamed' = Renamed /\ Concerned' = Concerned
  BY <1>1 DEF Present, Renamed, Concerned
<1>4. \A q : ~ToWrite(q) /\ ~ToWrite(q)'
  BY <1>1, <1>2 DEF ToWrite
<1>5. ASSUME NEW p \in Present PROVE Says(p)'
  <2>1. p \in Paths /\ Says(p)
    BY SaysOf
  <2>2. CASE entry # "v0.10.0"
    BY <1>1, <2>1, <2>2 DEF Says
  <2>3. CASE entry = "v0.10.0" /\ p[2] = "canonical"
    <3>1. file[p].old = {}
      BY <1>1, <1>4, <2>3 DEF JobFits
    <3> QED
      BY <1>1, <2>3, <3>1 DEF Says
  <2>4. CASE entry = "v0.10.0" /\ p[2] = "retired"
    <3>1. p[1] \in Renamed
      BY <2>1, <2>4, PathsAre DEF Renamed, Present, EntryInv, EntryTypes
    <3>2. file[New(p[1])] # Nothing
      BY <1>1, <1>4, <2>4, <3>1, KeptAre DEF JobFits
    <3> QED
      BY <1>1, <2>4, <3>2 DEF Says
  <2> QED
    BY <2>1, <2>2, <2>3, <2>4, PathsAre DEF Forms
<1>6. JobFits'
  BY <1>1, <1>2, <1>3, <1>4 DEF JobFits
<1>7. EntryTypes' /\ Whole'
  BY <1>1, <1>2, <1>3 DEF EntryInv, EntryTypes, Whole, Forms
<1>8. Done => Done'
  BY <1>1, <1>3 DEF Done
<1> QED
  BY <1>1, <1>3, <1>5, <1>6, <1>7, <1>8 DEF EntryInv

LEMMA AroundKeeps ==
    ASSUME EntryInv, Edit \/ MapSubpath
    PROVE  EntryInv'
<1>1. CASE Edit
  <2>1. PICK p \in Present : file' = [file EXCEPT ![p].v = edits + 1]
    BY <1>1 DEF Edit
  <2>2. edits' \in Nat /\ edits' = edits + 1 /\ UNCHANGED <<entry, archive, behind, job, told>>
    BY <1>1 DEF Edit, EntryInv, EntryTypes
  <2> DEFINE t == [file[p] EXCEPT !.v = edits']
  <2>3. file' = [file EXCEPT ![p] = t]
    BY <2>1, <2>2
  <2>4. t \in Texts /\ t.old \subseteq file[p].old
    BY <2>2, SaysOf, TextIs
  <2> HIDE DEF t
  <2> QED
    BY <2>2, <2>3, <2>4, Touched
<1>2. CASE MapSubpath
  <2>1. PICK p \in Present : file' = [file EXCEPT ![p] = Without(file[p], {"subpath"})]
    BY <1>2 DEF MapSubpath
  <2>2. edits' \in Nat /\ UNCHANGED <<entry, archive, behind, job, told>>
    BY <1>2 DEF MapSubpath, EntryInv, EntryTypes
  <2> DEFINE t == Without(file[p], {"subpath"})
  <2>3. file' = [file EXCEPT ![p] = t]
    BY <2>1
  <2>4. t \in Texts /\ t.old \subseteq file[p].old
    BY SaysOf, TextIs
  <2> HIDE DEF t
  <2> QED
    BY <2>2, <2>3, <2>4, Touched
<1> QED
  BY <1>1, <1>2

\* The repair of names is planned whatever the marker says; before a marker that is
\* ahead of another entry a patient manager has seen it complete.
LEMMA AdvanceKeeps ==
    ASSUME Patient \/ Entries \subseteq {"v0.10.0"}, EntryInv, AdvanceMarker
    PROVE  EntryInv'
<1>1. /\ UNCHANGED <<entry, file, archive, edits, told, job>> /\ behind' = FALSE
      /\ entry # "v0.10.0" => told = "complete" /\ job = Nothing
  BY DEF AdvanceMarker, EntryInv, EntryTypes
<1>2. job # Nothing => Planned(job') /\ JobFits'
  <2> SUFFICES ASSUME job # Nothing PROVE Planned(job') /\ JobFits'
    OBVIOUS
  <2>1. Planned(job) /\ JobFits /\ entry = "v0.10.0"
    BY <1>1 DEF EntryInv, EntryTypes
  <2>2. Present' = Present /\ Renamed' = Renamed
    BY <1>1 DEF Present, Renamed
  <2> QED
    BY <1>1, <2>1, <2>2 DEF JobFits, Fitting, ToWrite
<1> QED
  BY <1>1, <1>2, FilesStay DEF EntryInv

\* A project as it is before its entry.
LEMMA EntryStarts ==
    ASSUME Init
    PROVE  EntryInv
<1> DEFINE Words == UNION {Mentions[e] : e \in DOMAIN Mentions}
<1>1. /\ entry \in {"v0.2.0", "v0.3.0", "v0.6.0", "v0.10.0"} /\ entry \in DOMAIN Mentions
      /\ behind = TRUE /\ job = Nothing /\ told = "none" /\ edits = 0
      /\ archive \in Forms /\ (entry # "v0.10.0" => archive = "canonical")
  BY EntriesNamed, EntryAssumption DEF Init, Forms
<1>2. PICK retired \in SUBSET Artifacts :
       /\ retired \subseteq Concerned /\ (entry # "v0.10.0" => retired = Concerned)
       /\ LET said == IF entry = "v0.10.0"
                      THEN retired \cup (IF archive = "retired" THEN {Archive} ELSE {})
                      ELSE Mentions[entry]
          IN file \in [Paths -> {Nothing} \cup [v : {0}, old : SUBSET said]]
       /\ \A a \in Artifacts : (file[Old(a)] # Nothing) <=> (a \in retired)
       /\ \A a \in Artifacts : (file[New(a)] # Nothing) <=> (a \in Concerned \ retired)
       /\ file[Old(Doc)] = Nothing /\ file[New(Doc)] # Nothing
       /\ entry = "v0.6.0" => file[New(Doc)].old = {}
       /\ entry = "v0.2.0" => \A p \in Present : p[1] # Doc => file[p].old = {}
  BY Zenon DEF Init
<1> DEFINE said == IF entry = "v0.10.0"
                   THEN retired \cup (IF archive = "retired" THEN {Archive} ELSE {})
                   ELSE Mentions[entry]
<1>3. file \in [Paths -> {Nothing} \cup [v : {0}, old : SUBSET said]]
  BY <1>2
<1>4. said \subseteq Words
  <2>1. CASE entry = "v0.10.0"
    <3>1. said \subseteq Artifacts \cup {Archive}
      BY <2>1
    <3> QED
      BY <1>1, <2>1, <3>1, MentionsAre
  <2>2. CASE entry # "v0.10.0"
    BY <1>1, <2>2
  <2> QED
    BY <2>1, <2>2
<1> HIDE DEF said, Words
<1>5. file \in [Paths -> Texts \cup {Nothing}] /\ \A p \in Present : p \in Paths /\ file[p].old \subseteq said
  <2>1. [v : {0}, old : SUBSET said] \subseteq Texts
    BY <1>4 DEF Texts, Words
  <2> QED
    BY <1>3, <2>1 DEF Present
<1>6. EntryTypes
  BY <1>1, <1>2, <1>5 DEF EntryTypes, Init
<1>7. Renamed = retired
  BY <1>2 DEF Renamed
<1>8. Whole
  <2>1. CASE entry = "v0.10.0"
    BY <1>2, <2>1, ConcernedAre DEF Whole
  <2>2. CASE entry # "v0.10.0"
    BY <1>2, <2>2 DEF Whole
  <2> QED
    BY <2>1, <2>2
<1>9. ASSUME NEW p \in Present PROVE Says(p)
  <2>1. p \in Paths /\ file[p].old \subseteq said /\ file[p] # Nothing
    BY <1>5 DEF Present
  <2>2. CASE entry = "v0.10.0"
    <3>1. said = Replaced
      BY <1>7, <2>2 DEF said, Replaced
    <3> QED
      BY <2>1, <2>2, <3>1 DEF Says
  <2>3. CASE entry = "v0.2.0"
    BY <2>1, <2>3, MentionsAre DEF Says, said
  <2>4. CASE entry = "v0.3.0"
    <3>1. p[2] = "canonical"
      BY <1>2, <2>1, <2>4, ConcernedAre, PathsAre DEF Forms
    <3>2. said = Mentions["v0.3.0"]
      BY <2>4 DEF said
    <3> QED
      BY <2>1, <2>4, <3>1, <3>2, MentionsAre DEF Says
  <2>5. CASE entry = "v0.6.0"
    <3>1. p[2] = "canonical" => p = New(Doc)
      BY <1>2, <2>1, <2>5, PathsAre DEF Paths, Names, Forms
    <3> QED
      BY <1>2, <2>5, <3>1 DEF Says
  <2> QED
    BY <1>1, <2>2, <2>3, <2>4, <2>5
<1> QED
  BY <1>1, <1>6, <1>8, <1>9 DEF EntryInv

LEMMA EntryKeeps ==
    ASSUME Patient \/ Entries \subseteq {"v0.10.0"}, EntryInv, Next
    PROVE  EntryInv' /\ (told' = "complete" => told = "complete" \/ (Done /\ archive = "canonical"))
<1>1. CASE Verify
  BY <1>1, VerifyTells
<1>2. CASE ~Verify
  <2>1. told' = "complete" => told = "complete"
    BY <1>2 DEF Next, Begin, Land, Retire, Record, RenameArchive, Crash, Edit, MapSubpath, Decide,
                AdvanceMarker, Report
  <2> QED
    BY <1>2, <2>1, BeginKeeps, LandKeeps, RetireKeeps, RecordKeeps, RenameArchiveKeeps, AroundKeeps,
       AdvanceKeeps DEF Next
<1> QED
  BY <1>1, <1>2

Migrating == part = "entries" => EntryInv

\* When apply-migration-entry says complete, nothing is left of the entry: for any
\* artifacts, however often it was refused, killed or run again, and whatever was
\* edited, ruled or mapped meanwhile.  Of v0.10.0 that holds unconditionally; the
\* earlier entries plan nothing once the marker is ahead, and need a manager who
\* advances it when the entry is complete.
THEOREM CompleteLeavesNothing ==
    ASSUME Patient \/ Entries \subseteq {"v0.10.0"}
    PROVE  MCSpec => CompleteIsDone
<1>1. (Entering \/ Configuring) => Migrating
  BY EntryStarts DEF Entering, Configuring, Migrating
<1>2. ASSUME Migrating, [EntryNext \/ ConfigNext]_<<part, vars, configuration>>
      PROVE  /\ Migrating'
             /\ \/ told # "complete" /\ told' = "complete" => Done /\ archive = "canonical"
                \/ UNCHANGED vars
  <2>1. CASE EntryNext
    <3>1. part = "entries" /\ part' = part /\ EntryInv /\ Next
      BY <1>2, <2>1 DEF EntryNext, Migrating
    <3> QED
      BY <3>1, EntryKeeps DEF Migrating
  <2>2. CASE ConfigNext
    BY <2>2 DEF ConfigNext, Migrating
  <2>3. CASE UNCHANGED <<part, vars, configuration>>
    <3>1. part' = part /\ UNCHANGED vars
      BY <2>3
    <3>2. UNCHANGED <<entry, file, archive, latest, receipts, behind, job, told, edits, crashes, faults>>
      BY <3>1 DEF vars
    <3>3. EntryInv => EntryInv'
      BY <3>2, NothingMoves
    <3> QED
      BY <1>2, <3>1, <3>3 DEF Migrating
  <2> QED
    BY <1>2, <2>1, <2>2, <2>3
<1>3. Migrating /\ [EntryNext \/ ConfigNext]_<<part, vars, configuration>>
        => /\ Migrating'
           /\ [told # "complete" /\ told' = "complete" =>
                 /\ Renamed = {} /\ (entry = "v0.10.0" => archive = "canonical")
                 /\ \A p \in Present : file[p].old = {}
                 /\ ~Kept(entry) => \A a \in Concerned : file[New(a)] # Nothing]_vars
  BY <1>2 DEF Done
<1> QED
  BY <1>1, <1>3, PTL DEF MCSpec, CompleteIsDone
=============================================================================
