------------------------------ MODULE MCBacklog ------------------------------
(***************************************************************************)
(* What a plan leaves behind, for TLC: the backlog, which outlives every   *)
(* plan, and beside it what was captured in it: the prompt evidence of     *)
(* PlanCloseout, which must not, and the operator's turns, of              *)
(* EvidenceStore.  The three share no variable: a behaviour is one of one  *)
(* of them, as part says.                                                  *)
(***************************************************************************)
EXTENDS Backlog

CONSTANTS Units, Allowance, Slots, MaxPlans, MaxArchives, MaxEvents, MaxFaults, MaxCrashes,
          Session, Project, Proc, BufferMax, MaxHooks, MaxRacing, MaxCommands, MaxOps,
          StopText, NoSession, NoProject

VARIABLES part, work, reports, surface, journal, log, archives, listed, cmd, plan,
          seen, projected, events, faults, crashes,
          ses, handles, turns, pairs, pb, revoked, op, overlap, overtaken, nh, turn, sent, asked,
          died

\* A unit's closure and the close of its plan each have a slot; a buffer has a size.
ASSUME HostedAssumption == /\ Slots \in Nat /\ Slots >= 2 /\ Allowance \in Nat
                           /\ BufferMax \in Nat

C == INSTANCE PlanCloseout
E == INSTANCE EvidenceStore WITH log <- turns, crashes <- died, MaxEvents <- MaxHooks

\* NoSession is no session's record.
ASSUME NoSessionAssumption == NoSession \notin E!Record

closeout == <<work, reports, surface, journal, log, archives, listed, cmd, plan,
              seen, projected, events, faults, crashes>>

evidence == <<ses, handles, turns, pairs, pb, revoked, op, overlap, overtaken, nh, turn, sent,
              asked, died>>

MCInit == /\ part \in {"backlog", "closeout", "evidence"} /\ Init /\ C!Init /\ E!Init
          /\ part # "evidence" => ~overlap

MCNext == \/ part = "backlog" /\ Next /\ UNCHANGED <<part, closeout, evidence>>
          \/ part = "closeout" /\ C!Next /\ UNCHANGED <<part, vars, evidence>>
          \/ part = "evidence" /\ E!Next /\ UNCHANGED <<part, vars, closeout>>

MCSpec == MCInit /\ [][MCNext]_<<part, vars, closeout, evidence>>

\* A summary counts what happened or says it does not know (PlanCloseout!CountsTrue).
CountsTrue == C!CountsTrue

\* A closing projection leaves no approved unit waiting (PlanCloseout!PadCounted).
PadCounted == C!PadCounted

\* No evidence outlives its plan (PlanCloseout!NoneOutlives).
NoneOutlives == C!NoneOutlives

\* A turn is evidence of one project only (EvidenceStore!OneProjectPerTurn).
OneProjectPerTurn == E!OneProjectPerTurn

\* A later select heals an interrupted one (EvidenceStore!SelectHeals).
SelectHeals == E!SelectHeals

\* A reply answers the last that was said (EvidenceStore!PairedMeansLast).
PairedMeansLast == E!PairedMeansLast
=============================================================================
