--------------------------- MODULE MCTaskClosure ---------------------------
(***************************************************************************)
(* TaskClosure for TLC, and beside it ReportAcceptance and AcceptanceTrace, *)
(* the two judgements a closure rests on.  They share no variable: a       *)
(* behaviour is one of one of the three, as part says.                     *)
(***************************************************************************)
EXTENDS TaskClosure, Sequences, TLC

CONSTANTS c1, Slots, ClaimLists, MaxWorld, Ids, SpecLists, TaskLists, MaxEdits, LateEdits

VARIABLES part, aSlot, aReport, aReview, aTask, aGuidance, aContext, aPrompt, aJob, aWorld,
          tContract, tInforce, tBlock, tPrompt, tReview, tDone, tElsewhere, tRuling, tClosed,
          tEdits

MCRows == [claim : {None}, weight : {"none"}]
          \cup [claim : {c1}, weight : {"minor", "decisive", "unreadable"}]
\* Bound: at most two rows, the second one of two kinds.
MCPairs == {<<x, y>> : x \in MCRows, y \in {z \in MCRows : z.weight \in {"none", "decisive"}}}
MCClaimLists == {<<>>} \cup {<<x>> : x \in MCRows} \cup MCPairs

\* A specification of one criterion, of either text; a task that adds one or not.
MCSpecLists == {<<"a">>, <<"b">>}
MCTaskLists == {<<>>, <<"c">>}

Weights == {"none", "minor", "decisive", "unreadable"}

ASSUME HostedAssumption ==
  /\ Slots \subseteq {"task", "review"}
  /\ ClaimLists \subseteq Seq([claim : {None, c1}, weight : Weights])

A == INSTANCE ReportAcceptance
       WITH slot <- aSlot, report <- aReport, review <- aReview,
            task <- aTask, guidance <- aGuidance, context <- aContext, prompt <- aPrompt,
            job <- aJob, world <- aWorld

T == INSTANCE AcceptanceTrace
       WITH contract <- tContract,
            inforce <- tInforce, block <- tBlock, prompt <- tPrompt, review <- tReview,
            done <- tDone, elsewhere <- tElsewhere, ruling <- tRuling, closed <- tClosed,
            edits <- tEdits

Symmetry == Permutations(Ids)

acceptance == <<aSlot, aReport, aReview, aTask, aGuidance, aContext, aPrompt, aJob, aWorld>>

upstream == <<tContract, tInforce, tBlock, tPrompt, tReview, tDone, tElsewhere, tRuling,
              tClosed, tEdits>>

NoReport ==
  /\ aSlot = None /\ aReport = None /\ aReview = None /\ aTask = None /\ aGuidance = None
  /\ aContext = None /\ aPrompt = None /\ aJob = None /\ aWorld = None
NoTrace ==
  /\ tContract = None /\ tInforce = None /\ tBlock = None /\ tPrompt = None /\ tReview = None
  /\ tDone = None /\ tElsewhere = None /\ tRuling = None /\ tClosed = None /\ tEdits = None

Reporting == part = "acceptance" /\ A!Init /\ Init /\ NoTrace

MCInit == \/ part = "closure" /\ Init /\ NoReport /\ NoTrace
          \/ Reporting
          \/ part = "trace" /\ T!Init /\ Init /\ NoReport

MCNext == \/ part = "closure" /\ Next /\ UNCHANGED <<part, acceptance, upstream>>
          \/ part = "acceptance" /\ A!Next /\ UNCHANGED <<part, vars, upstream>>
          \/ part = "trace" /\ T!Next /\ UNCHANGED <<part, vars, acceptance>>

MCSpec == MCInit /\ [][MCNext]_<<part, acceptance, upstream, vars>>

\* The correction alone, for the one statement about it that fails.
CorrectionSpec ==
  Reporting /\ [][A!Next /\ UNCHANGED <<part, vars, upstream>>]_<<part, acceptance, upstream, vars>>

\* validate-report and report-action agree on every report
\* (ReportAcceptance!ReadersAgree).
ReadersAgree == part = "acceptance" => A!ReadersAgree

\* correct-report leaves what the producer said readably
\* (ReportAcceptance!CorrectionKeeps).
CorrectionKeeps == A!CorrectionKeeps

\* A task closes on the trace its reviewer judged (AcceptanceTrace!ClosedAsJudged).
ClosedAsJudged == T!ClosedAsJudged

\* No request is lost with the plan (AcceptanceTrace!IntentKept).
IntentKept == part = "trace" => T!IntentKept

\* A recorded drift stays recorded (ReportAcceptance!DriftKept).
DriftKept == A!DriftKept
=============================================================================
