---------------------------- MODULE MCDecisions ----------------------------
(***************************************************************************)
(* An instance of Decisions.  A body says one thing about one other        *)
(* decision, or carries one or two, as a proposal or a ruling, with or     *)
(* without the operator's evidence.                                        *)
(***************************************************************************)
EXTENDS Decisions, FiniteSets, TLC

CONSTANTS d1, d2, d3

MCIds == {d1, d2, d3}
Symmetry == Permutations(MCIds)

Plain == [status |-> "locked", authority |-> "", markers |-> {}, supersedes |-> {},
          amends |-> {}, ratifies |-> {}, carries |-> {}, restates |-> None,
          closes |-> FALSE, disposes |-> FALSE]

\* What a caller may say in either voice ...
Relations ==
  {Plain} \cup {[Plain EXCEPT !.supersedes = {t}] : t \in MCIds}
    \cup {[Plain EXCEPT !.supersedes = {t}, !.restates = t] : t \in MCIds}
    \cup {[Plain EXCEPT !.amends = {t}] : t \in MCIds}

\* ... and what only the operator's voice makes a ruling of.
Reserves ==
  {[Plain EXCEPT !.closes = TRUE], [Plain EXCEPT !.disposes = TRUE]}
    \cup {[Plain EXCEPT !.ratifies = {t}] : t \in MCIds}
    \cup {[Plain EXCEPT !.carries = ts] : ts \in {s \in SUBSET MCIds : Cardinality(s) \in 1 .. 2}}

Statuses(S) == {[s EXCEPT !.status = st] : s \in S, st \in {"open", "locked"}}
Voices(S) == {[s EXCEPT !.markers = m] : s \in S, m \in {{}, {"turn"}}}

MCDrafts ==
  Statuses(Voices(Relations)) \cup Voices(Reserves)
    \cup {[Plain EXCEPT !.markers = {"task"}]}
    \cup {[Plain EXCEPT !.authority = "pm", !.markers = {"turn"}]}
    \cup {[Plain EXCEPT !.supersedes = {t}, !.carries = {u}, !.markers = {"turn"}] :
             t, u \in MCIds}
=============================================================================
