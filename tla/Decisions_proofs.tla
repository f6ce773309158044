-------------------------- MODULE Decisions_proofs --------------------------
(***************************************************************************)
(* The register of decisions, for any ids, any bodies and any number of    *)
(* writes, resets and deaths: an id in a header keeps its meaning, a pin   *)
(* holds, and no ruling of an earlier plan rules by accident.              *)
(***************************************************************************)
EXTENDS Decisions, TLAPS

-----------------------------------------------------------------------------
(* The inductive invariant.                                                *)

DecisionType ==
  /\ body = [x \in DOMAIN body |-> body[x]]
  /\ DOMAIN body \subseteq Ids
  /\ \A x \in DOMAIN body :
       /\ body[x].restates \in Ids \cup {None}
       /\ body[x].carries \subseteq Ids
       /\ body[x].plan \in Nat /\ body[x].plan <= resets
  /\ clock \in Nat /\ resets \in Nat /\ torn \in BOOLEAN
  /\ \/ doing = Idle
     \/ doing.at = "index"
     \/ /\ doing.at \in {"clear", "regenerate"}
        /\ doing = [at |-> doing.at, keep |-> doing.keep, rows |-> doing.rows]

\* A restatement retires another decision, the one it restates.
Linked ==
  \A x \in DOMAIN body : body[x].restates # None =>
    /\ body[x].restates \in body[x].supersedes
    /\ body[x].restates # x

Unscoped(b, x) == b[x].status = "locked" /\ ~PlanScoped(b, x)

\* What a reset keeps is whole, and each of it is a ruling that binds no plan or
\* is retired by another that is kept.
KeptStands(b, keep) ==
  /\ keep \subseteq DOMAIN b
  /\ \A x \in keep : Chain(b, x) \cap DOMAIN b \subseteq keep
  /\ \A x \in keep : Unscoped(b, x) \/ \E y \in keep \ {x} : x \in b[y].supersedes

ResetSound ==
  doing.at \in {"clear", "regenerate"} =>
    /\ KeptStands(body, doing.keep)
    /\ doing.at = "regenerate" => DOMAIN body = doing.keep

\* Decisions of earlier plans are settled: none of them can be written again, so
\* what one of them retires stays retired.
Old(x) == body[x].plan < resets
OldSettled ==
  doing.at \in {"idle", "index"} /\ ~torn =>
    \A x \in DOMAIN body : Old(x) =>
      \/ Unscoped(body, x)
      \/ \E y \in DOMAIN body \ {x} : Old(y) /\ x \in body[y].supersedes

DecisionInv ==
  DecisionType /\ Linked /\ NoMistakenName /\ PinsHold /\ ResetSound /\ OldSettled

-----------------------------------------------------------------------------
(* Chains.                                                                 *)

\* Every file there is links to an id or to nothing.
LinksTyped(b) == \A y \in DOMAIN b : b[y].restates \in Ids \cup {None}

LEMMA ChainHas == ASSUME NEW b, NEW x \in Ids
                  PROVE  x \in Chain(b, x) /\ Chain(b, x) \subseteq Ids
  BY DEF Chain

LEMMA ChainLeast ==
  ASSUME NEW b, NEW x, NEW S \in SUBSET Ids, x \in S, LinkClosed(b, S)
  PROVE  Chain(b, x) \subseteq S
  BY DEF Chain

LEMMA ChainClosed ==
  ASSUME NEW b, LinksTyped(b), NEW x
  PROVE  LinkClosed(b, Chain(b, x))
<1> SUFFICES ASSUME NEW y \in Chain(b, x), y \in DOMAIN b, b[y].restates # None
             PROVE  b[y].restates \in Chain(b, x)
  BY DEF LinkClosed
<1>1. b[y].restates \in Ids
  BY DEF LinksTyped
<1>2. ASSUME NEW S \in SUBSET Ids, x \in S, LinkClosed(b, S)
      PROVE  b[y].restates \in S
  <2>1. y \in S
    BY <1>2 DEF Chain
  <2> QED BY <1>2, <2>1 DEF LinkClosed
<1> QED BY <1>1, <1>2 DEF Chain

LEMMA ChainNested ==
  ASSUME NEW b, LinksTyped(b), NEW n, NEW x \in Chain(b, n)
  PROVE  Chain(b, x) \subseteq Chain(b, n)
<1>1. Chain(b, n) \in SUBSET Ids
  BY DEF Chain
<1> QED BY <1>1, ChainClosed, ChainLeast

\* Whatever is in a chain, other than where it starts, is restated in it.
LEMMA ChainStep ==
  ASSUME NEW b, LinksTyped(b), NEW x \in Ids, NEW y \in Chain(b, x), y # x
  PROVE  \E z \in Chain(b, x) \cap DOMAIN b : b[z].restates = y
<1> SUFFICES ASSUME \A z \in Chain(b, x) \cap DOMAIN b : b[z].restates # y
             PROVE  FALSE
  OBVIOUS
<1> DEFINE S == Chain(b, x) \ {y}
<1>1. S \in SUBSET Ids /\ x \in S
  BY ChainHas
<1>2. LinkClosed(b, S)
  BY ChainClosed DEF LinkClosed
<1>3. Chain(b, x) \subseteq S
  BY <1>1, <1>2, ChainLeast
<1> QED BY <1>3

\* Two registers alike on a chain.
Alike(b, c, S) == \A y \in S : /\ y \in DOMAIN b <=> y \in DOMAIN c
                               /\ y \in DOMAIN b => b[y] = c[y]

LEMMA ChainLocal ==
  ASSUME NEW b, NEW c, LinksTyped(b), LinksTyped(c), NEW x \in Ids,
         Alike(b, c, Chain(b, x))
  PROVE  Chain(c, x) = Chain(b, x)
<1>1. Chain(c, x) \subseteq Chain(b, x)
  <2>1. LinkClosed(c, Chain(b, x))
    BY ChainClosed DEF LinkClosed, Alike
  <2> QED BY <2>1, ChainHas, ChainLeast
<1>2. Chain(b, x) \subseteq Chain(c, x)
  <2>1. LinkClosed(b, Chain(c, x))
    BY <1>1, ChainClosed DEF LinkClosed, Alike
  <2> QED BY <2>1, ChainHas, ChainLeast
<1> QED BY <1>1, <1>2

\* Whether a ruling binds its plan is said by the files of its chain alone.
LEMMA ScopeLocal ==
  ASSUME NEW b, NEW c, LinksTyped(b), LinksTyped(c),
         NEW x \in Ids, x \in DOMAIN b, Alike(b, c, Chain(b, x))
  PROVE  Unscoped(c, x) <=> Unscoped(b, x)
<1> DEFINE C == Chain(b, x)
<1>1. Chain(c, x) = C /\ x \in C /\ x \in DOMAIN c /\ b[x] = c[x]
  BY ChainLocal, ChainHas DEF Alike
<1>2. LinkClosed(b, C)
  BY ChainClosed
<1> HIDE DEF C
<1>3. Resolves(c, x) <=> Resolves(b, x)
  <2>1. C \subseteq DOMAIN b <=> C \subseteq DOMAIN c
    BY DEF Alike, C
  <2>2. CASE C \subseteq DOMAIN b
    <3>1. \A y \in C : b[y] = c[y]
      BY <2>2 DEF Alike, C
    <3>2. \A y \in C : b[y].restates # None => b[b[y].restates] = c[c[y].restates]
      BY <3>1, <1>2, <2>2 DEF LinkClosed
    <3> QED BY <1>1, <2>1, <2>2, <3>1, <3>2 DEF Resolves, C
  <2> QED BY <1>1, <2>1, <2>2 DEF Resolves, C
<1>4. Texts(c, x) = Texts(b, x)
  <2>1. CASE Resolves(b, x)
    <3>1. \A y \in C : b[y] = c[y]
      BY <2>1 DEF Alike, C, Resolves
    <3> QED BY <1>1, <1>3, <2>1, <3>1 DEF Texts, C
  <2> QED BY <1>1, <1>3, <2>1 DEF Texts
<1> QED BY <1>1, <1>4 DEF Unscoped, PlanScoped, Markers, Disposes

-----------------------------------------------------------------------------
(* reset-plan.                                                             *)

\* What a reset sets out to keep stands.
LEMMA KeptAtStart ==
  ASSUME DecisionType, Linked, NEW cs \in SUBSET DOMAIN body,
         \A c \in cs : CarrierStands(body, c)
  PROVE  KeptStands(body, Kept(body, cs))
<1> DEFINE named == cs \cup UNION {body[c].carries : c \in cs}
           keep == Kept(body, cs)
<1>1. \A y : y \in keep <=> y \in DOMAIN body /\ \E n \in named : y \in Chain(body, n)
  <2> DEFINE reached == UNION {Chain(body, n) : n \in named}
  <2>1. keep = reached \cap DOMAIN body
    BY Zenon DEF Kept
  <2>2. \A y : y \in reached <=> \E n \in named : y \in Chain(body, n)
    <3> HIDE DEF named
    <3> QED OBVIOUS
  <2> HIDE DEF keep, named, reached
  <2> QED BY <2>1, <2>2
<1>2. LinksTyped(body) /\ DOMAIN body \subseteq Ids
  BY DEF DecisionType, LinksTyped
<1>3. \A n \in named : n \in DOMAIN body /\ Unscoped(body, n)
  <2>1. ASSUME NEW c \in cs
        PROVE  \A n \in body[c].carries \cup {c} : n \in DOMAIN body /\ Unscoped(body, n)
    <3>1. InForce(body, c) /\ CarryHolds(body, c)
      BY <2>1 DEF CarrierStands
    <3>2. \A t \in body[c].carries \cup {c} : InForce(body, t) /\ ~PlanScoped(body, t)
      BY <3>1 DEF CarryHolds
    <3> QED BY <3>2 DEF InForce, Unscoped
  <2> QED BY <2>1
<1> HIDE DEF named, keep
<1>4. ASSUME NEW x \in keep
      PROVE  /\ Chain(body, x) \cap DOMAIN body \subseteq keep
             /\ Unscoped(body, x) \/ \E y \in keep \ {x} : x \in body[y].supersedes
  <2>1. PICK n \in named : x \in Chain(body, n)
    BY <1>1
  <2>2. Chain(body, n) \cap DOMAIN body \subseteq keep
    BY <1>1
  <2>3. Chain(body, x) \subseteq Chain(body, n)
    BY <1>2, <2>1, ChainNested
  <2>4. CASE x = n
    BY <1>3, <2>2, <2>3, <2>4
  <2>5. CASE x # n
    <3>1. n \in Ids
      BY <1>2, <1>3
    <3>2. PICK z \in Chain(body, n) \cap DOMAIN body : body[z].restates = x
      BY <1>2, <2>1, <2>5, <3>1, ChainStep
    <3>3. x # None
      BY <2>1, IdsAssumption DEF Chain
    <3>4. x \in body[z].supersedes /\ x # z
      BY <3>2, <3>3 DEF Linked
    <3> QED BY <2>2, <2>3, <3>2, <3>4
  <2> QED BY <2>4, <2>5
<1>5. keep \subseteq DOMAIN body
  BY <1>1
<1> QED BY <1>4, <1>5 DEF KeptStands, keep

\* It still does when something else is removed.
LEMMA KeptThroughUnlink ==
  ASSUME NEW b, LinksTyped(b), DOMAIN b \subseteq Ids, NEW keep,
         KeptStands(b, keep), NEW w \in DOMAIN b, w \notin keep
  PROVE  KeptStands(Others(b, w), keep)
<1> DEFINE c == Others(b, w)
<1>1. DOMAIN c = DOMAIN b \ {w} /\ \A y \in DOMAIN c : c[y] = b[y]
  BY DEF Others
<1> HIDE DEF c
<1>2. LinksTyped(c)
  BY <1>1 DEF LinksTyped
<1>3. keep \subseteq DOMAIN c
  BY <1>1 DEF KeptStands
<1>4. ASSUME NEW x \in keep
      PROVE  /\ Chain(c, x) \cap DOMAIN c \subseteq keep
             /\ Unscoped(c, x) \/ \E y \in keep \ {x} : x \in c[y].supersedes
  <2>1. Chain(b, x) \cap DOMAIN b \subseteq keep /\ x \in Ids /\ x \in DOMAIN b
    BY DEF KeptStands
  <2>2. Alike(b, c, Chain(b, x))
    BY <1>1, <2>1 DEF Alike
  <2>3. Chain(c, x) = Chain(b, x)
    BY <1>2, <2>1, <2>2, ChainLocal
  <2>4. Unscoped(c, x) <=> Unscoped(b, x)
    BY <1>2, <2>1, <2>2, ScopeLocal
  <2>5. Unscoped(b, x) \/ \E y \in keep \ {x} : x \in b[y].supersedes
    BY DEF KeptStands
  <2> QED BY <1>1, <1>3, <2>1, <2>3, <2>4, <2>5
<1> QED BY <1>3, <1>4 DEF KeptStands, c

-----------------------------------------------------------------------------
(* write-decision.                                                         *)

\* What an accepted body says of itself.
LEMMA Written ==
  ASSUME DecisionType, NEW x \in Ids, NEW draft \in Drafts, WriteBody(x, draft)
  PROVE  \E d :
    /\ body' = With(body, x, d)
    /\ d.restates \in Ids \cup {None} /\ d.carries \subseteq Ids /\ d.plan = resets
    /\ d.restates # None =>
         /\ d.restates \in DOMAIN body \ {x}
         /\ d.restates \in d.supersedes
         /\ d.pin = body[d.restates].stamp
    /\ x \in DOMAIN body => d.born = body[x].born
    /\ x \in Names(d) => d.meant[x] = d.born
    /\ \A y \in Names(d) \cap DOMAIN body : y # x => d.meant[y] = body[y].born
<1> DEFINE p == Pinned(body, x, draft)
           d == Declared(body, x, p)
<1>1. body' = With(body, x, d) /\ Accepted(body, x, d)
  BY DEF WriteBody
<1>2. draft \in Draft
  BY DraftsAssumption
<1>3. /\ p.restates = draft.restates /\ p.supersedes = draft.supersedes
      /\ p.carries = draft.carries /\ p.plan = resets
      /\ p.pin = IF draft.restates \in DOMAIN body THEN body[draft.restates].stamp ELSE 0
      /\ p.born = IF x \in DOMAIN body THEN body[x].born ELSE clock + 1
      /\ Names(p) = Names(draft)
      /\ p.meant = [y \in Names(draft) |->
                      IF y = x THEN p.born
                      ELSE IF y \in DOMAIN body THEN body[y].born ELSE 0]
  BY DEF Pinned, Names
<1>4. /\ d.restates = p.restates /\ d.supersedes = p.supersedes
      /\ d.carries = p.carries /\ d.plan = p.plan /\ d.pin = p.pin
      /\ d.born = p.born /\ d.meant = p.meant /\ Names(d) = Names(p)
  <2>1. d = p \/ \E v : d = [p EXCEPT !.authority = v]
    BY DEF Declared
  <2>2. p = [status |-> p.status, authority |-> p.authority, markers |-> p.markers,
             supersedes |-> p.supersedes, amends |-> p.amends,
             ratifies |-> p.ratifies, carries |-> p.carries,
             restates |-> p.restates, closes |-> p.closes, disposes |-> p.disposes,
             pin |-> p.pin, stamp |-> p.stamp, born |-> p.born, plan |-> p.plan,
             meant |-> p.meant, adopted |-> p.adopted]
    BY DEF Pinned
  <2> HIDE DEF d, p
  <2> QED BY <2>1, <2>2 DEF Names
<1> HIDE DEF d, p
<1>5. d.restates # None =>
        d.restates \in DOMAIN body \ {x} /\ d.restates \in d.supersedes
  <2> HAVE d.restates # None
  <2>1. d.restates \in DOMAIN body \ {x} /\ Resolves(With(body, x, d), x)
    BY <1>1 DEF Accepted
  <2>2. x \in Chain(With(body, x, d), x) /\ With(body, x, d)[x] = d
    BY ChainHas DEF With
  <2> QED BY <2>1, <2>2 DEF Resolves
<1>6. draft.restates \in Ids \cup {None} /\ draft.carries \subseteq Ids
  BY <1>2 DEF Draft
<1>7. \A y \in Names(d) : d.meant[y] = IF y = x THEN d.born
                                       ELSE IF y \in DOMAIN body THEN body[y].born ELSE 0
  BY <1>3, <1>4
<1> WITNESS d
<1> QED BY <1>1, <1>3, <1>4, <1>5, <1>6, <1>7

\* No other file speaks of a decision that may be written.
LEMMA Unspoken ==
  ASSUME NEW x \in Ids, NEW draft \in Drafts, WriteBody(x, draft)
  PROVE  /\ x \in DOMAIN body =>
              /\ body[x].status # "locked"
              /\ \A y \in DOMAIN body \ {x} : x \notin body[y].supersedes
         /\ x \notin DOMAIN body => \A y \in DOMAIN body : x \notin Names(body[y])
<1>1. PICK d : Accepted(body, x, d)
  BY DEF WriteBody
<1> QED BY <1>1 DEF Accepted, Rewritable, Reserved

-----------------------------------------------------------------------------
(* The invariant, step by step.                                            *)

LEMMA Start == Init => DecisionInv
<1> SUFFICES ASSUME Init PROVE DecisionInv
  OBVIOUS
<1>1. DOMAIN body = {} /\ body = [x \in DOMAIN body |-> body[x]]
  BY DEF Init
<1>2. doing = Idle /\ clock = 0 /\ resets = 0 /\ torn = FALSE
  BY DEF Init
<1>3. DecisionType
  BY <1>1, <1>2 DEF DecisionType
<1>4. Linked /\ NoMistakenName /\ PinsHold /\ OldSettled
  BY <1>1 DEF Linked, NoMistakenName, PinsHold, OldSettled
<1>5. ResetSound
  BY <1>2 DEF ResetSound, Idle
<1> QED BY <1>3, <1>4, <1>5 DEF DecisionInv

\* A decision of an earlier plan is not the one that is written.
LEMMA OldFixed ==
  ASSUME DecisionInv, NEW x \in Ids, NEW draft \in Drafts, WriteBody(x, draft),
         ~torn, x \in DOMAIN body, Old(x)
  PROVE  FALSE
<1>1. doing.at = "idle"
  BY DEF WriteBody, Idle
<1>2. Unscoped(body, x) \/ \E y \in DOMAIN body \ {x} : x \in body[y].supersedes
  BY <1>1 DEF DecisionInv, OldSettled
<1> QED BY <1>2, Unspoken DEF Unscoped

LEMMA WriteBodyStep ==
  ASSUME DecisionInv, NEW x \in Ids, NEW draft \in Drafts, WriteBody(x, draft)
  PROVE  DecisionInv'
<1>1. PICK d :
        /\ body' = With(body, x, d)
        /\ d.restates \in Ids \cup {None} /\ d.carries \subseteq Ids /\ d.plan = resets
        /\ d.restates # None =>
             /\ d.restates \in DOMAIN body \ {x}
             /\ d.restates \in d.supersedes
             /\ d.pin = body[d.restates].stamp
        /\ x \in DOMAIN body => d.born = body[x].born
        /\ x \in Names(d) => d.meant[x] = d.born
        /\ \A y \in Names(d) \cap DOMAIN body : y # x => d.meant[y] = body[y].born
  BY Written DEF DecisionInv
<1>2. /\ DOMAIN body' = DOMAIN body \cup {x}
      /\ body'[x] = d
      /\ \A y \in DOMAIN body : y # x => body'[y] = body[y]
  BY <1>1 DEF With
<1>3. /\ clock' = clock + 1 /\ resets' = resets /\ torn' = torn
      /\ doing = Idle /\ doing' = [at |-> "index", id |-> x]
  BY DEF WriteBody
<1>4. /\ x \in DOMAIN body =>
           /\ body[x].status # "locked"
           /\ \A y \in DOMAIN body \ {x} : x \notin body[y].supersedes
      /\ x \notin DOMAIN body => \A y \in DOMAIN body : x \notin Names(body[y])
  BY Unspoken
<1>5. \A y \in DOMAIN body \ {x} : body[y].restates # x
  <2> SUFFICES ASSUME NEW y \in DOMAIN body \ {x}, body[y].restates = x
               PROVE  FALSE
    OBVIOUS
  <2>1. x # None
    BY IdsAssumption
  <2>2. x \in body[y].supersedes
    BY <2>1 DEF DecisionInv, Linked
  <2> QED BY <1>4, <2>2 DEF Names
<1>6. DecisionType'
  <2>1. body' = [y \in DOMAIN body' |-> body'[y]]
    BY <1>1 DEF With
  <2> QED BY <1>1, <1>2, <1>3, <2>1 DEF DecisionInv, DecisionType
<1>7. Linked'
  BY <1>1, <1>2 DEF DecisionInv, Linked
<1>8. NoMistakenName'
  <2> SUFFICES ASSUME NEW z \in DOMAIN body', NEW y \in Names(body'[z]) \cap DOMAIN body'
               PROVE  body'[z].meant[y] = body'[y].born
    BY DEF NoMistakenName
  <2>1. CASE z = x
    BY <1>1, <1>2, <2>1
  <2>2. CASE z # x /\ y = x
    BY <1>1, <1>2, <1>4, <2>2 DEF DecisionInv, NoMistakenName
  <2>3. CASE z # x /\ y # x
    BY <1>2, <2>3 DEF DecisionInv, NoMistakenName
  <2> QED BY <2>1, <2>2, <2>3
<1>9. PinsHold'
  <2> SUFFICES ASSUME NEW z \in DOMAIN body', body'[z].restates \in DOMAIN body'
               PROVE  body'[body'[z].restates].stamp = body'[z].pin
    BY DEF PinsHold
  <2>1. body'[z].restates # None
    BY <1>2, IdsAssumption DEF DecisionInv, DecisionType
  <2>2. CASE z = x
    BY <1>1, <1>2, <2>1, <2>2
  <2>3. CASE z # x
    <3>1. body'[z] = body[z] /\ body[z].restates # x /\ z \in DOMAIN body
      BY <1>2, <1>5, <2>3
    <3> QED BY <1>2, <3>1 DEF DecisionInv, PinsHold
  <2> QED BY <2>2, <2>3
<1>10. ResetSound'
  BY <1>3 DEF ResetSound
<1>11. OldSettled'
  <2> SUFFICES ASSUME ~torn, NEW z \in DOMAIN body', Old(z)'
               PROVE  \/ Unscoped(body', z)
                      \/ \E y \in DOMAIN body' \ {z} : Old(y)' /\ z \in body'[y].supersedes
    BY <1>3 DEF OldSettled, Unscoped, PlanScoped, Markers, Disposes, Texts, Resolves, Chain, LinkClosed
  <2>1. z # x
    BY <1>1, <1>2, <1>3 DEF Old, DecisionInv, DecisionType
  <2>2. z \in DOMAIN body /\ Old(z) /\ body'[z] = body[z] /\ z \in Ids
    BY <1>2, <1>3, <2>1 DEF Old, DecisionInv, DecisionType
  <2>3. CASE \E y \in DOMAIN body \ {z} : Old(y) /\ z \in body[y].supersedes
    <3>1. PICK y \in DOMAIN body \ {z} : Old(y) /\ z \in body[y].supersedes
      BY <2>3
    <3>2. y # x
      BY <3>1, OldFixed
    <3> QED BY <1>2, <1>3, <3>1, <3>2 DEF Old
  <2>4. CASE Unscoped(body, z)
    <3>1. LinksTyped(body) /\ LinksTyped(body')
      BY <1>6 DEF LinksTyped, DecisionInv, DecisionType
    <3>2. x \notin Chain(body, z)
      <4> SUFFICES ASSUME x \in Chain(body, z)
                   PROVE  FALSE
        OBVIOUS
      <4>1. PICK w \in Chain(body, z) \cap DOMAIN body : body[w].restates = x
        BY <2>1, <2>2, <3>1, ChainStep
      <4>2. w = x
        BY <1>5, <4>1
      <4> QED BY <4>1, <4>2, IdsAssumption DEF DecisionInv, Linked
    <3>3. Alike(body, body', Chain(body, z))
      BY <1>2, <3>2 DEF Alike
    <3> QED BY <2>2, <2>4, <3>1, <3>3, ScopeLocal
  <2>5. Unscoped(body, z) \/ \E y \in DOMAIN body \ {z} : Old(y) /\ z \in body[y].supersedes
    BY <1>3, <2>2 DEF DecisionInv, OldSettled, Idle
  <2> QED BY <2>3, <2>4, <2>5
<1> QED BY <1>6, <1>7, <1>8, <1>9, <1>10, <1>11 DEF DecisionInv

LEMMA StartResetStep ==
  ASSUME DecisionInv, NEW cs \in SUBSET DOMAIN body, StartReset(cs)
  PROVE  DecisionInv'
<1>1. /\ body' = body /\ clock' = clock /\ resets' = resets /\ torn' = torn
      /\ doing' = [at |-> "clear", keep |-> Kept(body, cs),
                   rows |-> Prior(index, Kept(body, cs))]
  BY DEF StartReset
<1>2. KeptStands(body, Kept(body, cs))
  BY KeptAtStart DEF StartReset, DecisionInv
<1> HIDE DEF Prior, Kept
<1>3. DecisionType'
  BY <1>1 DEF DecisionInv, DecisionType
<1>4. Linked' /\ NoMistakenName' /\ PinsHold'
  BY <1>1 DEF DecisionInv, Linked, NoMistakenName, PinsHold, Names
<1>5. ResetSound'
  BY <1>1, <1>2 DEF ResetSound
<1>6. OldSettled'
  BY <1>1 DEF OldSettled
<1> QED BY <1>3, <1>4, <1>5, <1>6 DEF DecisionInv

LEMMA UnlinkStep == ASSUME DecisionInv, Unlink PROVE DecisionInv'
<1>1. /\ doing.at = "clear" /\ clock' = clock /\ resets' = resets /\ torn' = torn
      /\ doing = [at |-> doing.at, keep |-> doing.keep, rows |-> doing.rows]
      /\ KeptStands(body, doing.keep)
  BY DEF Unlink, DecisionInv, DecisionType, ResetSound, Idle
<1>2. CASE DOMAIN body \ doing.keep = {}
  <2>1. body' = body /\ doing' = [doing EXCEPT !.at = "regenerate"]
    BY <1>2 DEF Unlink
  <2>2. doing' = [at |-> "regenerate", keep |-> doing.keep, rows |-> doing.rows]
    BY <1>1, <2>1
  <2>3. DecisionType'
    BY <1>1, <2>1, <2>2 DEF DecisionInv, DecisionType
  <2>4. Linked' /\ NoMistakenName' /\ PinsHold'
    BY <2>1 DEF DecisionInv, Linked, NoMistakenName, PinsHold, Names
  <2>5. ResetSound'
    BY <1>1, <1>2, <2>1, <2>2 DEF ResetSound, KeptStands
  <2>6. OldSettled'
    BY <2>2 DEF OldSettled
  <2> QED BY <2>3, <2>4, <2>5, <2>6 DEF DecisionInv
<1>3. CASE DOMAIN body \ doing.keep # {}
  <2>1. PICK w \in DOMAIN body \ doing.keep : body' = Others(body, w)
    BY <1>3 DEF Unlink
  <2>2. doing' = doing
    BY <1>3 DEF Unlink
  <2>3. /\ DOMAIN body' = DOMAIN body \ {w}
        /\ \A y \in DOMAIN body' : body'[y] = body[y]
        /\ body' = [y \in DOMAIN body' |-> body'[y]]
    BY <2>1 DEF Others
  <2>4. DecisionType'
    BY <1>1, <2>2, <2>3 DEF DecisionInv, DecisionType
  <2>5. Linked' /\ NoMistakenName' /\ PinsHold'
    BY <2>3 DEF DecisionInv, Linked, NoMistakenName, PinsHold, Names
  <2>6. ResetSound'
    <3>1. LinksTyped(body) /\ DOMAIN body \subseteq Ids
      BY DEF DecisionInv, DecisionType, LinksTyped
    <3>2. KeptStands(body', doing.keep)
      BY <1>1, <2>1, <3>1, KeptThroughUnlink
    <3> QED BY <1>1, <2>2, <3>2 DEF ResetSound
  <2>7. OldSettled'
    BY <1>1, <2>2 DEF OldSettled
  <2> QED BY <2>4, <2>5, <2>6, <2>7 DEF DecisionInv
<1> QED BY <1>2, <1>3

\* The reset is complete: every decision there is belongs to an earlier plan.
LEMMA RegenerateStep == ASSUME DecisionInv, Regenerate PROVE DecisionInv'
<1>1. /\ doing.at = "regenerate" /\ doing' = Idle /\ body' = body
      /\ resets' = resets + 1 /\ torn' = FALSE /\ clock' = clock
      /\ KeptStands(body, doing.keep) /\ DOMAIN body = doing.keep
  BY DEF Regenerate, DecisionInv, ResetSound
<1>2. DecisionType'
  <2>1. \A x \in DOMAIN body : body[x].plan \in Nat /\ body[x].plan <= resets + 1
    BY DEF DecisionInv, DecisionType
  <2>2. resets \in Nat /\ clock \in Nat
    BY DEF DecisionInv, DecisionType
  <2>3. /\ body = [x \in DOMAIN body |-> body[x]] /\ DOMAIN body \subseteq Ids
        /\ \A x \in DOMAIN body : body[x].restates \in Ids \cup {None}
                                  /\ body[x].carries \subseteq Ids
    BY DEF DecisionInv, DecisionType
  <2>4. body' = [x \in DOMAIN body' |-> body'[x]] /\ DOMAIN body' \subseteq Ids
    BY <1>1, <2>3
  <2>5. \A x \in DOMAIN body' :
          /\ body'[x].restates \in Ids \cup {None} /\ body'[x].carries \subseteq Ids
          /\ body'[x].plan \in Nat /\ body'[x].plan <= resets'
    BY <1>1, <2>1, <2>3
  <2>6. clock' \in Nat /\ resets' \in Nat /\ doing' = Idle
    BY <1>1, <2>2
  <2>7. torn' \in BOOLEAN
    BY <1>1
  <2> QED BY <2>4, <2>5, <2>6, <2>7 DEF DecisionType
<1>3. Linked' /\ NoMistakenName' /\ PinsHold'
  BY <1>1 DEF DecisionInv, Linked, NoMistakenName, PinsHold, Names
<1>4. ResetSound'
  BY <1>1 DEF ResetSound, Idle
<1>5. OldSettled'
  <2>1. \A x \in DOMAIN body : Old(x)'
    BY <1>1 DEF Old, DecisionInv, DecisionType
  <2>2. \A x \in DOMAIN body :
          Unscoped(body, x) \/ \E y \in DOMAIN body \ {x} : x \in body[y].supersedes
    BY <1>1 DEF KeptStands
  <2>3. \A x \in DOMAIN body' :
          \/ Unscoped(body', x)
          \/ \E y \in DOMAIN body' \ {x} : Old(y)' /\ x \in body'[y].supersedes
    BY <1>1, <2>1, <2>2
  <2> QED BY <2>3 DEF OldSettled
<1> QED BY <1>2, <1>3, <1>4, <1>5 DEF DecisionInv

\* Steps that leave the files alone.
LEMMA OtherSteps ==
  ASSUME DecisionInv, WriteIndex \/ Crash \/ UNCHANGED vars
  PROVE  DecisionInv'
<1>1. body' = body /\ clock' = clock /\ resets' = resets
  BY DEF WriteIndex, Crash, vars
<1>2. Linked' /\ NoMistakenName' /\ PinsHold'
  BY <1>1 DEF DecisionInv, Linked, NoMistakenName, PinsHold, Names
<1>3. CASE UNCHANGED vars
  <2>1. DecisionType'
    BY <1>3 DEF vars, DecisionInv, DecisionType
  <2>2. doing' = doing /\ torn' = torn
    BY <1>3 DEF vars
  <2>3. ResetSound'
    BY <1>1, <2>2 DEF DecisionInv, ResetSound
  <2>4. OldSettled'
    BY <1>1, <2>2 DEF DecisionInv, OldSettled, Old
  <2> QED BY <1>2, <2>1, <2>3, <2>4 DEF DecisionInv
<1>4. CASE WriteIndex \/ Crash
  <2>1. doing' = Idle /\ torn' \in BOOLEAN
    BY <1>4 DEF WriteIndex, Crash, DecisionInv, DecisionType
  <2>2. ~torn' => ~torn /\ doing.at = "index"
    BY <1>4 DEF WriteIndex, Crash, DecisionInv, DecisionType
  <2>3. DecisionType'
    BY <1>1, <2>1 DEF DecisionInv, DecisionType
  <2>4. ResetSound'
    BY <2>1 DEF ResetSound, Idle
  <2>5. OldSettled'
    BY <1>1, <2>1, <2>2 DEF DecisionInv, OldSettled, Old, Unscoped, PlanScoped, Markers,
                            Disposes, Texts, Resolves, Chain, LinkClosed
  <2> QED BY <1>2, <2>3, <2>4, <2>5 DEF DecisionInv
<1> QED BY <1>3, <1>4

LEMMA Inductive == Spec => []DecisionInv
<1>1. DecisionInv /\ [Next]_vars => DecisionInv'
  BY WriteBodyStep, StartResetStep, UnlinkStep, RegenerateStep, OtherSteps DEF Next
<1> QED BY Start, <1>1, PTL DEF Spec

-----------------------------------------------------------------------------
(* What it gives.                                                          *)

\* write-decision refuses an id that a file names and a rewrite of what another
\* retires (_naming_decisions, _immutability_error), and reset-plan only removes: an
\* id in a header means, over any plans and deaths, the decision it meant.
THEOREM NamesKept == Spec => []NoMistakenName
  BY Inductive, PTL DEF DecisionInv

\* pin_restatement's pointer is as good as a copy: what it pins is retired by the
\* restatement and cannot be written again while it is there.
THEOREM PinsKept == Spec => []PinsHold
  BY Inductive, PTL DEF DecisionInv

\* carry_problems asks only of the carriers and their targets whether they bind the
\* plan; what they restate comes along and may bind it, but stays retired.
THEOREM NothingStale == Spec => []NoStaleRuling
<1>1. DecisionInv => NoStaleRuling
  <2> SUFFICES ASSUME DecisionInv, doing.at # "clear", ~torn, NEW x \in DOMAIN body,
                      Old(x), InForce(body, x)
               PROVE  ~PlanScoped(body, x)
    BY DEF NoStaleRuling, Old
  <2>1. Unscoped(body, x) \/ \E y \in DOMAIN body : x \in body[y].supersedes
    <3>1. CASE doing.at = "regenerate"
      BY <3>1 DEF DecisionInv, ResetSound, KeptStands
    <3>2. CASE doing.at # "regenerate"
      BY <3>2 DEF DecisionInv, DecisionType, OldSettled, Idle
    <3> QED BY <3>1, <3>2
  <2>2. x \notin Retired(body)
    BY DEF InForce
  <2> QED BY <2>1, <2>2 DEF Retired, Unscoped
<1> QED BY Inductive, <1>1, PTL

=============================================================================
