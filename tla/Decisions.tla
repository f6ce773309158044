----------------------------- MODULE Decisions -----------------------------
(***************************************************************************)
(* The decision register: decisions/DEC-NNN.md, the index generated from   *)
(* the files, write-decision, and the part of reset-plan that clears or    *)
(* carries decisions.                                                      *)
(*                                                                         *)
(* A decision is the record of what its readers tell apart: its headers,   *)
(* the units its evidence markers bind, and a stamp that stands for its    *)
(* exact bytes.  Ghost fields say when the id was first given out (born),  *)
(* in which plan the text was written (plan), which decision each id in a  *)
(* header meant then (meant), and which bytes were ratified (adopted).     *)
(***************************************************************************)
EXTENDS Naturals

CONSTANTS Ids,         \* the DEC-NNN ids
          Drafts,      \* the bodies a caller may hand to write-decision
          None,
          MaxWrites,   \* bounds: writes, resets, crashes
          MaxResets,
          MaxCrashes

\* What the headers, the body and its evidence markers say.
Draft == [status : {"open", "locked"}, authority : {"", "pm", "operator"},
          markers : SUBSET STRING, supersedes : SUBSET Ids, amends : SUBSET Ids,
          ratifies : SUBSET Ids, carries : SUBSET Ids, restates : Ids \cup {None},
          closes : BOOLEAN, disposes : BOOLEAN]

ASSUME IdsAssumption == None \notin Ids
ASSUME DraftsAssumption == Drafts \subseteq Draft
ASSUME BoundsAssumption == MaxWrites \in Nat /\ MaxResets \in Nat /\ MaxCrashes \in Nat

VARIABLES body,        \* id -> decision, for the files there are
          index,       \* id -> row of INDEX.md, or None when there is no index
          doing,       \* the step the command in progress is at
          clock,       \* stamps given out so far
          resets,
          crashes,
          torn         \* a reset died, and none has been completed since

vars == <<body, index, doing, clock, resets, crashes, torn>>

Idle == [at |-> "idle"]

-----------------------------------------------------------------------------
(* Reading decisions.  b is a register: a function from ids to decisions.  *)

Names(d) == d.supersedes \cup d.amends \cup d.ratifies \cup d.carries
              \cup ({d.restates} \ {None})

\* The ruling and every decision it restates, link by link: what no closed set
\* of ids that has x leaves out.
LinkClosed(b, S) == \A y \in S \cap DOMAIN b : b[y].restates \in S \cup {None}
Chain(b, x) ==
  {y \in Ids : \A S \in SUBSET (Ids \ {y}) : x \in S => ~LinkClosed(b, S)}

\* A pointer fails closed: missing, changed, circular or not superseded.
Resolves(b, x) ==
  LET links == Chain(b, x) IN
  /\ links \subseteq DOMAIN b
  /\ \E y \in links : b[y].restates = None
  /\ \A y \in links : b[y].restates # None =>
       /\ b[y].restates \in b[y].supersedes
       /\ b[y].pin = b[b[y].restates].stamp

\* The files whose text speaks in decision x.
Texts(b, x) == IF Resolves(b, x) THEN {b[y] : y \in Chain(b, x)} ELSE {b[x]}

Markers(b, x) == UNION {d.markers : d \in Texts(b, x)}
Disposes(b, x) == \E d \in Texts(b, x) : d.disposes

Retired(b) == UNION {b[x].supersedes : x \in DOMAIN b}
InForce(b, x) == x \in DOMAIN b \ Retired(b) /\ b[x].status = "locked"

\* Who the text itself speaks for.
BaseAuthority(b, x) ==
  IF b[x].authority \in {"", "operator"} /\ Markers(b, x) # {}
  THEN "operator" ELSE "pm"

\* Operator rulings in force that ratify or carry x.
Ratifiers(b, x) ==
  {r \in DOMAIN b \ {x} : /\ InForce(b, r)
                          /\ x \in b[r].ratifies \cup b[r].carries
                          /\ BaseAuthority(b, r) = "operator"}

Amenders(b, x) == {a \in DOMAIN b \ {x} : InForce(b, a) /\ x \in b[a].amends}

Authority(b, x) ==
  IF BaseAuthority(b, x) = "operator" \/ Ratifiers(b, x) # {}
  THEN "operator" ELSE "pm"

PlanScoped(b, x) == b[x].closes \/ Disposes(b, x) \/ "task" \in Markers(b, x)

\* Mutant: what a carry keeps may be bound to the plan.
CarryHoldsUnscoped(b, c) ==
  LET kept == b[c].carries \cup {c} IN
  /\ b[c].carries # {}
  /\ \A t \in b[c].carries \ {c} : InForce(b, t) /\ Amenders(b, t) \subseteq kept
  /\ \A t \in kept : b[t].amends \subseteq kept

\* The carry of c can outlive the plan.
CarryHolds(b, c) ==
  LET kept == b[c].carries \cup {c} IN
  /\ b[c].carries # {}
  /\ \A t \in b[c].carries \ {c} : InForce(b, t) /\ Amenders(b, t) \subseteq kept
  /\ \A t \in kept : ~PlanScoped(b, t) /\ b[t].amends \subseteq kept

-----------------------------------------------------------------------------
(* The generated index: one row per file.                                  *)

Row(b, x, title) ==
  [stamp |-> b[x].stamp, title |-> title,
   retiredBy |-> {y \in DOMAIN b \ {x} : x \in b[y].supersedes},
   authority |-> BaseAuthority(b, x),
   ratifiedBy |-> Ratifiers(b, x),
   amendedBy |-> Amenders(b, x)]

\* Titles and dates come from the caller for the decision just written and
\* from the earlier index for the others; lost, the file's own heading stands.
Render(b, prior, just) ==
  [x \in DOMAIN b |->
     Row(b, x, IF x = just THEN "given"
               ELSE IF prior # None /\ x \in DOMAIN prior THEN prior[x].title
               ELSE "heading")]

Prior(i, kept) == IF i = None THEN None ELSE [x \in DOMAIN i \cap kept |-> i[x]]

-----------------------------------------------------------------------------
(* write-decision.                                                         *)

Others(b, x) == [y \in DOMAIN b \ {x} |-> b[y]]
With(b, x, d) == [y \in DOMAIN b \cup {x} |-> IF y = x THEN d ELSE b[y]]

\* Mutant: a retired draft may still be re-issued.
RewritableRetired(b, x) == x \in DOMAIN b => b[x].status # "locked"

\* A ruling in force, or one that was retired, is history.
Rewritable(b, x) ==
  x \in DOMAIN b =>
    /\ b[x].status # "locked"
    /\ \A y \in DOMAIN b \ {x} : x \notin b[y].supersedes

\* Mutant: only rulings in force reserve the ids they name.
ReservedByRulings(b, x) ==
  x \notin DOMAIN b /\ \E y \in DOMAIN b : InForce(b, y) /\ x \in Names(b[y])

\* A new id that a file already names would be read as the one it means.
Reserved(b, x) == x \notin DOMAIN b /\ \E y \in DOMAIN b : x \in Names(b[y])

\* The body as it will be written: the pointer pinned, the ghosts filled in.
Pinned(b, x, d) ==
  LET born == [y \in DOMAIN b |-> b[y].born]
      self == IF x \in DOMAIN b THEN b[x].born ELSE clock + 1
      bornOf(y) == IF y = x THEN self ELSE IF y \in DOMAIN b THEN born[y] ELSE 0
  IN  [status |-> d.status, authority |-> d.authority, markers |-> d.markers,
       supersedes |-> d.supersedes, amends |-> d.amends, ratifies |-> d.ratifies,
       carries |-> d.carries, restates |-> d.restates,
       closes |-> d.closes, disposes |-> d.disposes,
       pin |-> IF d.restates \in DOMAIN b THEN b[d.restates].stamp ELSE 0,
       stamp |-> clock + 1, born |-> self, plan |-> resets,
       meant |-> [y \in Names(d) |-> bornOf(y)],
       adopted |-> [y \in (d.ratifies \cup d.carries) \cap DOMAIN b |-> b[y].stamp]]

\* An undeclared authority is inferred from the evidence and stamped.
Declared(b, x, d) ==
  IF d.authority # "" THEN d
  ELSE [d EXCEPT !.authority = IF Markers(With(b, x, d), x) # {}
                               THEN "operator" ELSE "pm"]

\* What this decision does to earlier ones: the targets stand and ...
TargetsStand(prior, x, d) ==
  /\ d.amends \subseteq DOMAIN prior \ (Retired(prior) \cup d.supersedes)
  /\ d.ratifies \subseteq DOMAIN prior \ Retired(prior)
  /\ \A t \in d.ratifies : Authority(prior, t) = "pm"
  /\ ~(d.closes /\ d.carries # {})

CarryStands(prior, x, d) == d.carries # {} => CarryHolds(With(prior, x, d), x)

\* ... a PM decision stays out of what is the operator's.
WithinAuthority(prior, x, d) ==
  \/ d.authority = "operator"
  \/ /\ d.ratifies = {}
     /\ \A t \in (d.supersedes \cup d.amends) \cap DOMAIN prior :
          Authority(prior, t) = "pm"
     /\ d.status = "locked" =>
          ~d.closes /\ d.carries = {} /\ ~Disposes(With(prior, x, d), x)

Evidenced(b, x, d) == d.authority = "operator" => Markers(With(b, x, d), x) # {}

Accepted(b, x, d) ==
  /\ Rewritable(b, x)
  /\ ~Reserved(b, x)
  /\ d.restates # None =>
       d.restates \in DOMAIN b \ {x} /\ Resolves(With(b, x, d), x)
  /\ TargetsStand(Others(b, x), x, d)
  /\ CarryStands(Others(b, x), x, d)
  /\ WithinAuthority(Others(b, x), x, d)
  /\ Evidenced(b, x, d)

\* The checks and the mediated write of the body; a refusal changes nothing.
WriteBody(x, draft) ==
  LET d == Declared(body, x, Pinned(body, x, draft)) IN
  /\ doing = Idle
  /\ clock < MaxWrites
  /\ Accepted(body, x, d)
  /\ body' = With(body, x, d)
  /\ clock' = clock + 1
  /\ doing' = [at |-> "index", id |-> x]
  /\ UNCHANGED <<index, resets, crashes, torn>>

\* The index is regenerated from every file on disk.
WriteIndex ==
  /\ doing.at = "index"
  /\ index' = Render(body, index, doing.id)
  /\ doing' = Idle
  /\ UNCHANGED <<body, clock, resets, crashes, torn>>

-----------------------------------------------------------------------------
(* reset-plan --carry c ...                                                *)

\* Every named carrier must stand, checked again before anything is removed.
CarrierStands(b, c) ==
  /\ InForce(b, c)
  /\ BaseAuthority(b, c) = "operator"
  /\ CarryHolds(b, c)

\* The carriers, their targets, and every decision a kept one restates.
Kept(b, cs) == LET named == cs \cup UNION {b[c].carries : c \in cs}
               IN  (UNION {Chain(b, x) : x \in named}) \cap DOMAIN b

StartReset(cs) ==
  /\ doing = Idle
  /\ resets < MaxResets
  /\ \A c \in cs : CarrierStands(body, c)
  /\ doing' = [at |-> "clear", keep |-> Kept(body, cs),
               rows |-> Prior(index, Kept(body, cs))]
  /\ UNCHANGED <<body, index, clock, resets, crashes, torn>>

\* Files are unlinked one at a time, the index after the decisions.  The code
\* takes them by name; ids are interchangeable here, so any order will do.
Unlink ==
  /\ doing.at = "clear"
  /\ LET doomed == DOMAIN body \ doing.keep IN
     IF doomed # {}
     THEN /\ \E x \in doomed : body' = Others(body, x)
          /\ UNCHANGED <<index, doing>>
     ELSE /\ index' = None
          /\ doing' = [doing EXCEPT !.at = "regenerate"]
          /\ UNCHANGED body
  /\ UNCHANGED <<clock, resets, crashes, torn>>

\* The index over the carried rulings, when there are any.
Regenerate ==
  /\ doing.at = "regenerate"
  /\ index' = IF doing.keep = {} THEN None ELSE Render(body, doing.rows, None)
  /\ doing' = Idle
  /\ resets' = resets + 1
  /\ torn' = FALSE
  /\ UNCHANGED <<body, clock, crashes>>

\* The command dies between two of its writes.
Crash ==
  /\ doing # Idle
  /\ crashes < MaxCrashes
  /\ crashes' = crashes + 1
  /\ torn' = (torn \/ doing.at \in {"clear", "regenerate"})
  /\ doing' = Idle
  /\ UNCHANGED <<body, index, clock, resets>>

Init ==
  /\ body = [x \in {} |-> None]
  /\ index = None
  /\ doing = Idle
  /\ clock = 0 /\ resets = 0 /\ crashes = 0
  /\ torn = FALSE

Next ==
  \/ \E x \in Ids, d \in Drafts : WriteBody(x, d)
  \/ WriteIndex
  \/ \E cs \in SUBSET DOMAIN body : StartReset(cs)
  \/ Unlink
  \/ Regenerate
  \/ Crash

Spec == Init /\ [][Next]_vars
-----------------------------------------------------------------------------
(* Properties.                                                             *)

\* An id in a header never comes to mean another decision than the one it
\* named when it was written, over resets that free ids and crashes that leave
\* a register half cleared (decision-id-reserved).
NoMistakenName ==
  \A x \in DOMAIN body : \A y \in Names(body[x]) \cap DOMAIN body :
    body[x].meant[y] = body[y].born

\* A pinned pointer is as good as a copy: as long as the restated file is there
\* it is the bytes that were pinned, so no restatement fails by a change.
PinsHold ==
  \A x \in DOMAIN body : body[x].restates \in DOMAIN body =>
    body[body[x].restates].stamp = body[x].pin

\* No ruling that binds one plan rules in a later one: not an early close, not
\* a disposition of requests, not evidence for a task whose id is reused.  While
\* a reset clears, and after one died, a ruling may be gone before the earlier one
\* it retired (reset-plan removes the files by name, whichever retires which).
NoStaleRuling ==
  doing.at # "clear" /\ ~torn =>
    \A x \in DOMAIN body :
      body[x].plan < resets /\ InForce(body, x) => ~PlanScoped(body, x)

OperatorRuling(b, x) == x \in DOMAIN b /\ InForce(b, x) /\ Authority(b, x) = "operator"

\* A ruling that speaks for the operator by ratification is the text the
\* operator's decision adopted.
RatifiedAsRead ==
  \A x \in DOMAIN body :
    OperatorRuling(body, x) /\ BaseAuthority(body, x) = "pm" =>
      \E r \in Ratifiers(body, x) : /\ x \in DOMAIN body[r].adopted
                                    /\ body[r].adopted[x] = body[x].stamp
=============================================================================
