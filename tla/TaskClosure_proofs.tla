------------------------ MODULE TaskClosure_proofs ------------------------
(***************************************************************************)
(* The life of a task, for every bound: its type, that recovery never      *)
(* moves a started task under a running assignee, and, for a manager who   *)
(* routes reports before he moves on them, that a reviewed task closes     *)
(* only on the work and the request its review judged.                     *)
(*                                                                         *)
(* Then the two judgements a closure rests on, where MCTaskClosure hosts   *)
(* them: for all lists of criteria and of claims, any number of requests   *)
(* and of edits, a task closes on the trace its reviewer judged, no        *)
(* request is lost with the plan, the readers of a report agree on it, and *)
(* a correction keeps what its producer said.                              *)
(***************************************************************************)
EXTENDS MCTaskClosure, TLAPS

\* One disjunct of Next per operation, the parameters bound.
Checks == \E to \in Status : CheckMove(to) \/ CheckRecovery(to)
Prompts == \E kind \in {"coder", "review"} : WritePrompt(kind)
Deletes == \E s \in Slot, statusOnly \in BOOLEAN : DeleteReport(s, statusOnly)
Reviews == \E v \in Verdict : ReviewerWrites(v)

\* The next-state relation by operation.
LEMMA Steps ==
    [Next]_vars =>
        \/ Checks \/ Rename \/ Prompts \/ DispatchCoder \/ DispatchReviewer
        \/ RouteCompletion \/ RouteReview \/ DeletePrompt \/ Deletes \/ Restart
        \/ CoderReports \/ Rewrite \/ Reviews \/ AssigneeEnds
        \/ CaptureRequest \/ SetPolicy \/ UNCHANGED vars
BY DEF Next, Checks, Prompts, Deletes, Reviews

---------------------------------------------------------------------------
\* What the coder or a process he left behind writes is a report.
LEMMA WriteReportType ==
    ASSUME TypeOK, WriteReport PROVE TypeOK'
<1> USE ClosureAssumption
<1>1. CASE work < MaxWork /\ work' = work + 1 /\ report' = work + 1
  <2>1. work' \in 0..MaxWork /\ report' \in Work \cup {None, Unfinished}
    BY <1>1 DEF TypeOK, Work
  <2> QED
    BY <2>1 DEF TypeOK, WriteReport, companions
<1>2. CASE work' = work /\ report' = Unfinished
  BY <1>2 DEF TypeOK, WriteReport, companions
<1> QED
  BY <1>1, <1>2 DEF WriteReport

\* Every variable of the task keeps its type.
THEOREM TypeCorrect == Spec => []TypeOK
<1> USE ClosureAssumption
<1>1. Init => TypeOK
  BY DEF Init, TypeOK, Status, Slot
<1>2. TypeOK /\ [Next]_vars => TypeOK'
  <2> SUFFICES ASSUME TypeOK, [Next]_vars PROVE TypeOK'
    OBVIOUS
  <2>1. CASE Checks
    <3>1. PICK to \in Status : CheckMove(to) \/ CheckRecovery(to)
      BY <2>1 DEF Checks
    <3>2. \E admin \in BOOLEAN : move' = [to |-> to, admin |-> admin]
      BY <3>1 DEF CheckMove, CheckRecovery
    <3>3. UNCHANGED <<place, world, artifacts, companions, live, routed>>
      BY <3>1 DEF CheckMove, CheckRecovery
    <3>4. move' \in Move
      BY <3>2 DEF Move
    <3> QED
      BY <3>3, <3>4 DEF TypeOK, world, artifacts, companions
  <2>2. CASE Rename
    BY <2>2 DEF TypeOK, Rename, Move, world, artifacts, companions
  <2>3. CASE Prompts
    <3>1. prompt' \in Prompt \cup {None}
      BY <2>3 DEF TypeOK, Prompts, WritePrompt, Binding, Complete, Prompt, Work
    <3> QED
      BY <2>3, <3>1 DEF TypeOK, Prompts, WritePrompt, world, companions
  <2>4. CASE DispatchCoder
    <3>1. live' \in Assignee /\ live'.role = "completion"
      BY <2>4 DEF TypeOK, DispatchCoder, Launch, Assignee, Slot
    <3>2. status' \subseteq Slot /\ log' \subseteq Slot
      BY <2>4 DEF TypeOK, DispatchCoder, Launch, Slot
    <3> QED
      BY <2>4, <3>1, <3>2 DEF TypeOK, DispatchCoder, Launch, world
  <2>5. CASE DispatchReviewer
    <3>1. live' \in Assignee /\ live'.work \in Work
      BY <2>5 DEF TypeOK, DispatchReviewer, BindingCurrent, Complete, Launch, Assignee, Slot, Work
    <3>2. status' \subseteq Slot /\ log' \subseteq Slot
      BY <2>5 DEF TypeOK, DispatchReviewer, Launch, Slot
    <3> QED
      BY <2>5, <3>1, <3>2 DEF TypeOK, DispatchReviewer, Launch, world
  <2>6. CASE RouteCompletion
    BY <2>6 DEF TypeOK, RouteCompletion, Status, world, artifacts, companions
  <2>7. CASE RouteReview
    BY <2>7 DEF TypeOK, RouteReview, Target, Status, world, artifacts, companions
  <2>8. CASE DeletePrompt
    BY <2>8 DEF TypeOK, DeletePrompt, world, companions
  <2>9. CASE Deletes
    BY <2>9 DEF TypeOK, Deletes, DeleteReport, world
  <2>10. CASE Restart
    BY <2>10 DEF TypeOK, Restart, world, artifacts, companions
  <2>11. CASE CoderReports \/ Rewrite
    BY <2>11, WriteReportType DEF CoderReports, Rewrite
  <2>12. CASE Reviews
    <3> PICK v \in Verdict : ReviewerWrites(v)
      BY <2>12 DEF Reviews
    <3>1. [verdict |-> v, work |-> live.work, trace |-> live.trace] \in Judgment
      BY DEF TypeOK, ReviewerWrites, Judgment, Assignee
    <3>2. review' \in Judgment \cup {None} /\ slot' \in Judgment \cup {None}
      BY <3>1 DEF TypeOK, ReviewerWrites
    <3> QED
      BY <3>2 DEF TypeOK, ReviewerWrites, world, companions
  <2>13. CASE AssigneeEnds
    <3>1. log' \subseteq Slot
      BY <2>13 DEF TypeOK, AssigneeEnds, Assignee
    <3> QED
      BY <2>13, <3>1 DEF TypeOK, AssigneeEnds, world, artifacts
  <2>14. CASE CaptureRequest
    BY <2>14 DEF TypeOK, CaptureRequest, artifacts, companions
  <2>15. CASE SetPolicy
    BY <2>15 DEF TypeOK, SetPolicy, artifacts, companions
  <2>16. CASE UNCHANGED vars
    BY <2>16 DEF TypeOK, vars, world, artifacts, companions
  <2> QED
    BY Steps, <2>1, <2>2, <2>3, <2>4, <2>5, <2>6, <2>7, <2>8, <2>9, <2>10, <2>11,
       <2>12, <2>13, <2>14, <2>15, <2>16
<1> QED
  BY <1>1, <1>2, PTL DEF Spec

---------------------------------------------------------------------------
\* dispatch announces a launch before it starts, and only the manager, when the
\* launch has ended, takes the companion away.
LiveMarked == live # None => live.role \in status

RecoveryInv == LiveMarked /\ RecoveryFindsNoWriter

\* What recovery into a started task was granted on.
LEMMA RecoveryGrant ==
    ASSUME RecoveryInv, NEW to \in Status, CheckRecovery(to), place # "open"
    PROVE  live = None
<1>1. MayRecover(to)
  BY DEF CheckRecovery
<1>2. status = {}
  BY <1>1 DEF MayRecover, NeverStarted, Reopenable
<1> QED
  BY <1>2 DEF RecoveryInv, LiveMarked

\* No command of the manager, no assignee and no change of the policy puts a
\* writer under a recovery that passed its guards.
THEOREM RecoverySafe == Spec => []RecoveryFindsNoWriter
<1>1. Init => RecoveryInv
  BY DEF Init, RecoveryInv, LiveMarked, RecoveryFindsNoWriter
<1>2. RecoveryInv /\ [Next]_vars => RecoveryInv'
  <2> SUFFICES ASSUME RecoveryInv, [Next]_vars PROVE RecoveryInv'
    OBVIOUS
  <2> USE DEF RecoveryInv, LiveMarked, RecoveryFindsNoWriter
  <2>1. CASE Checks
    <3>1. PICK to \in Status : CheckMove(to) \/ CheckRecovery(to)
      BY <2>1 DEF Checks
    <3>2. LiveMarked'
      BY <3>1 DEF CheckMove, CheckRecovery, companions
    <3>3. CASE CheckMove(to)
      BY <3>2, <3>3 DEF CheckMove
    <3>4. CASE CheckRecovery(to)
      <4>1. place # "open" => live = None
        BY <3>4, RecoveryGrant
      <4> QED
        BY <3>2, <3>4, <4>1 DEF CheckRecovery
    <3> QED
      BY <3>1, <3>3, <3>4
  <2>2. CASE Rename
    BY <2>2 DEF Rename, companions
  <2>3. CASE Prompts
    BY <2>3 DEF Prompts, WritePrompt, companions
  <2>4. CASE DispatchCoder
    BY <2>4 DEF DispatchCoder, Launch
  <2>5. CASE DispatchReviewer
    BY <2>5 DEF DispatchReviewer, Launch
  <2>6. CASE RouteCompletion \/ RouteReview
    BY <2>6 DEF RouteCompletion, RouteReview, companions
  <2>7. CASE DeletePrompt
    BY <2>7 DEF DeletePrompt, companions
  <2>8. CASE Deletes
    BY <2>8 DEF Deletes, DeleteReport
  <2>9. CASE Restart
    BY <2>9 DEF Restart, companions
  <2>10. CASE CoderReports \/ Rewrite
    BY <2>10 DEF CoderReports, Rewrite, WriteReport, companions
  <2>11. CASE Reviews
    BY <2>11 DEF Reviews, ReviewerWrites, companions
  <2>12. CASE AssigneeEnds
    BY <2>12 DEF AssigneeEnds
  <2>13. CASE CaptureRequest \/ SetPolicy
    BY <2>13 DEF CaptureRequest, SetPolicy, companions
  <2>14. CASE UNCHANGED vars
    BY <2>14 DEF vars, companions
  <2> QED
    BY Steps, <2>1, <2>2, <2>3, <2>4, <2>5, <2>6, <2>7, <2>8, <2>9, <2>10, <2>11,
       <2>12, <2>13, <2>14
<1>3. RecoveryInv => RecoveryFindsNoWriter
  BY DEF RecoveryInv
<1> QED
  BY <1>1, <1>2, <1>3, PTL DEF Spec

---------------------------------------------------------------------------
\* Once the manager was told to close the task, nobody is left who could write
\* another review, and the review speaks of what its prompt binds.
RoutedJudged ==
    place = "in-review" /\ routed = "done" =>
        /\ live = None
        /\ review # None /\ review.verdict = "approve"
        /\ \A w \in Work, t \in 1..MaxTrace :
              prompt = [kind |-> "review", at |-> "in-review", trace |-> t, work |-> w] =>
                 review.work = w /\ review.trace = t

\* report-action names done only for an approving review of the bound work.
LEMMA RouteReviewJudges ==
    ASSUME RouteReview PROVE RoutedJudged'
<1> SUFFICES ASSUME routed' = "done" PROVE RoutedJudged'
  BY DEF RoutedJudged
<1>1. slot.verdict = "approve"
  BY DEF RouteReview, Target
<1>2. /\ slot = review /\ review # None
      /\ review.work = report /\ review.trace = trace
      /\ prompt = [kind |-> "review", at |-> place, trace |-> trace, work |-> report]
  BY <1>1 DEF RouteReview, Agree, BindingCurrent, Binding
<1>3. live = None /\ UNCHANGED <<live, review, prompt>>
  BY DEF RouteReview, artifacts
<1>4. ASSUME NEW w, NEW t, prompt' = [kind |-> "review", at |-> "in-review", trace |-> t, work |-> w]
      PROVE  review'.work = w /\ review'.trace = t
  <2>1. prompt'.work = w /\ prompt'.trace = t
    BY <1>4
  <2>2. prompt'.work = report /\ prompt'.trace = trace
    BY <1>2, <1>3
  <2> QED
    BY <1>2, <1>3, <2>1, <2>2
<1> QED
  BY <1>1, <1>2, <1>3, <1>4 DEF RoutedJudged

\* The prompt, the review and the routed status keep together through every step.
LEMMA RoutedJudgedStep ==
    ASSUME RoutedJudged, [Next]_vars PROVE RoutedJudged'
<1> USE ClosureAssumption DEF RoutedJudged
<1>1. CASE Rename \/ Prompts \/ Restart
  <2>1. routed' = None
    BY <1>1 DEF Rename, Prompts, WritePrompt, Restart
  <2> QED
    BY <2>1 DEF Status
<1>2. CASE DispatchCoder \/ DispatchReviewer
  <2>1. routed' = None
    BY <1>2 DEF DispatchCoder, DispatchReviewer, Launch
  <2> QED
    BY <2>1 DEF Status
<1>3. CASE RouteCompletion
  <2>1. place' # "in-review"
    BY <1>3 DEF RouteCompletion
  <2> QED
    BY <2>1
<1>4. CASE RouteReview
  BY <1>4, RouteReviewJudges
<1>5. CASE Checks
  BY <1>5 DEF Checks, CheckMove, CheckRecovery, artifacts
<1>6. CASE DeletePrompt
  <2>1. \A w \in Work, t \in 1..MaxTrace :
           prompt' # [kind |-> "review", at |-> "in-review", trace |-> t, work |-> w]
    <3> SUFFICES ASSUME NEW w \in Work, NEW t \in 1..MaxTrace
                 PROVE  prompt' # [kind |-> "review", at |-> "in-review", trace |-> t, work |-> w]
      OBVIOUS
    <3>1. [kind |-> "review", at |-> "in-review", trace |-> t, work |-> w] \in Prompt
      BY DEF Prompt, Status, Work
    <3>2. prompt' = None
      BY <1>6 DEF DeletePrompt
    <3> QED
      BY <3>1, <3>2
  <2>2. UNCHANGED <<place, routed, live, review>>
    BY <1>6 DEF DeletePrompt
  <2> QED
    BY <2>1, <2>2
<1>7. CASE Deletes
  BY <1>7 DEF Deletes, DeleteReport
<1>8. CASE CoderReports \/ Rewrite
  BY <1>8 DEF CoderReports, Rewrite, WriteReport
<1>9. CASE Reviews
  <2>1. live # None /\ UNCHANGED <<place, routed>>
    BY <1>9 DEF Reviews, ReviewerWrites
  <2> QED
    BY <2>1
<1>10. CASE AssigneeEnds
  BY <1>10 DEF AssigneeEnds, artifacts
<1>11. CASE CaptureRequest \/ SetPolicy
  BY <1>11 DEF CaptureRequest, SetPolicy, artifacts
<1>12. CASE UNCHANGED vars
  BY <1>12 DEF vars, artifacts
<1> QED
  BY Steps, <1>1, <1>2, <1>3, <1>4, <1>5, <1>6, <1>7, <1>8, <1>9, <1>10, <1>11, <1>12

\* move-task's guard on an approving review binds the prompt to the report; the
\* routed manager's invariant binds the review to the prompt.
LEMMA ClosingApproved ==
    ASSUME Routes, TypeOK, RoutedJudged, [Next]_vars,
           Closing, move' # None, move'.to = "done"
    PROVE  Approved
<1>1. Checks
  <2>1. move' # move
    BY DEF Closing
  <2> QED
    BY <2>1, Steps DEF Closing, Rename, Prompts, WritePrompt, DispatchCoder, DispatchReviewer, Launch,
       RouteCompletion, RouteReview, DeletePrompt, Deletes, DeleteReport, Restart,
       CoderReports, Rewrite, WriteReport, Reviews, ReviewerWrites, AssigneeEnds,
       CaptureRequest, SetPolicy, vars
<1>2. PICK to \in Status : CheckMove(to) \/ CheckRecovery(to)
  BY <1>1 DEF Checks
<1>3. to = "done"
  BY <1>2 DEF CheckMove, CheckRecovery
<1>4. CheckMove("done")
  BY <1>2, <1>3 DEF CheckRecovery, MayRecover, Closing
<1>5. Guarded("done")
  BY DEF Guarded, Closing
<1>6. ReviewSays("approve") /\ routed = "done"
  BY <1>4, <1>5 DEF CheckMove, MayMove, GuardHolds, VerdictFor, Closing
<1>7. /\ prompt = [kind |-> "review", at |-> place, trace |-> trace, work |-> report]
      /\ report \in Work /\ trace \in 1..MaxTrace
      /\ review # None /\ review.verdict = "approve" /\ review.trace = trace
  BY <1>6 DEF ReviewSays, BindingCurrent, Binding, Complete, TypeOK
<1>8. review.work = report
  BY <1>6, <1>7 DEF RoutedJudged, Closing
<1> QED
  BY <1>7, <1>8 DEF Approved

\* A manager who moves only where report-action sent him closes a reviewed task
\* on judged work alone, whatever is rewritten, captured or prompted meanwhile.
THEOREM ClosureSafe == ASSUME Routes PROVE Spec => ClosedOnJudgedWork
<1>1. Init => RoutedJudged
  BY DEF Init, RoutedJudged
<1>2. RoutedJudged /\ [Next]_vars => RoutedJudged'
  BY RoutedJudgedStep
<1>3. TypeOK /\ RoutedJudged /\ [Next]_vars
        => [Closing /\ move' # None /\ move'.to = "done" => Approved]_vars
  BY ClosingApproved
<1> QED
  BY <1>1, <1>2, <1>3, TypeCorrect, PTL DEF Spec, ClosedOnJudgedWork

---------------------------------------------------------------------------
(* The upstream trace of one task.                                         *)

\* A block is a record of its five parts, with one scope for each request.
Block(b) ==
    /\ b = [rows |-> b.rows, merges |-> b.merges, disposed |-> b.disposed,
            scope |-> b.scope, waived |-> b.waived]
    /\ b.scope \in [Ids -> T!Scopes]

\* The criteria shown are those of the identity shown with them.
Shown(p) == p.criteria = [i \in DOMAIN p.identity.rows |-> p.identity.rows[i].text]

\* Whatever was edited since, prompt and review are of one trace.
ReviewHolds ==
    /\ Block(tBlock)
    /\ tPrompt # None => Shown(tPrompt)
    /\ tReview # None => Shown(tReview) /\ tReview.passed \subseteq DOMAIN tReview.criteria

\* Every request then in force is answered by what the reviewer saw, put
\* outside the task's scope, or waived.
Answered(f) ==
    f \subseteq T!Judged \cup T!Scoped(tReview.identity, "outside-scope") \cup tBlock.waived

\* The trace of a done task is the judged one.
DoneHolds ==
    /\ tDone # None => /\ T!Builds(tContract, tBlock) /\ tReview # None
                       /\ tReview.identity = T!Identity(tBlock) /\ Answered(tDone)
    /\ tClosed => tDone # None /\ T!IntentKept

LEMMA Composes ==
    ASSUME NEW c, NEW claims, NEW merges, NEW disposed, NEW scope \in [Ids -> T!Scopes], NEW waived
    PROVE  Block(T!Composed(c, claims, merges, disposed, scope, waived))
BY DEF Block, T!Composed

\* One edit by hand leaves a block.
LEMMA EditedBlock ==
    ASSUME Block(tBlock), T!EditBlock PROVE Block(tBlock')
<1> DEFINE b == tBlock
<1>1. CASE \E i \in DOMAIN b.rows, s \in SUBSET Ids : b' = [b EXCEPT !.rows[i].claims = s]
  BY <1>1 DEF Block
<1>2. CASE \E i \in DOMAIN b.rows, d \in {TRUE, FALSE} :
             b' = [b EXCEPT !.disposed = IF d THEN @ \cup {i} ELSE @ \ {i}]
  BY <1>2 DEF Block
<1>3. CASE \E id \in Ids, k \in T!Scopes : b' = [b EXCEPT !.scope[id] = k]
  <2>1. PICK id \in Ids, k \in T!Scopes : b' = [b EXCEPT !.scope[id] = k]
    BY <1>3
  <2>2. b'.scope = [b.scope EXCEPT ![id] = k]
    BY <2>1 DEF Block
  <2>3. b'.scope \in [Ids -> T!Scopes]
    BY <2>2 DEF Block
  <2> QED
    BY <2>1, <2>3 DEF Block
<1>4. CASE \E id \in Ids, d \in {TRUE, FALSE} :
             b' = [b EXCEPT !.waived = IF d THEN @ \cup {id} ELSE @ \ {id}]
  BY <1>4 DEF Block
<1> QED
  BY <1>1, <1>2, <1>3, <1>4 DEF T!EditBlock

LEMMA TraceStarts ==
    ASSUME T!Init PROVE ReviewHolds /\ DoneHolds
<1>1. Block(tBlock)
  <2>1. PICK claims \in [T!Texts -> SUBSET tInforce],
             merges \in {{}} \cup {{m} : m \in T!Merges(tContract)}, disposed \in SUBSET (1 .. 1),
             scope \in [Ids -> T!Scopes], waived \in SUBSET tInforce :
               tBlock = T!Composed(tContract, claims, merges, disposed, scope, waived)
    BY DEF T!Init, T!Authored
  <2> QED
    BY <2>1, Composes
<1> QED
  BY <1>1 DEF T!Init, ReviewHolds, DoneHolds

\* Only these operations touch the trace that will be judged.
LEMMA ReviewStep ==
    ASSUME ReviewHolds, [T!Next]_T!vars PROVE ReviewHolds'
<1>1. CASE T!EditContract \/ T!ChangeInForce \/ T!Approve \/ T!OthersClaim \/ T!Decide
           \/ T!ClosePlan \/ UNCHANGED T!vars
  BY <1>1 DEF ReviewHolds, T!EditContract, T!ChangeInForce, T!Approve, T!OthersClaim, T!Decide,
     T!ClosePlan, T!vars
<1>2. CASE T!EditBlock
  BY <1>2, EditedBlock DEF ReviewHolds, T!EditBlock
<1>3. CASE T!Recompose
  <2>1. Block(tBlock')
    <3>1. PICK claims, merges, new : 
            tBlock' = [T!Composed(tContract, claims, merges, {}, tBlock.scope, tBlock.waived)
                         EXCEPT !.disposed = new]
      BY <1>3 DEF T!Recompose
    <3>2. Block(T!Composed(tContract, claims, merges, {}, tBlock.scope, tBlock.waived))
      BY Composes DEF ReviewHolds, Block
    <3> QED
      BY <3>1, <3>2 DEF Block
  <2> QED
    BY <1>3, <2>1 DEF ReviewHolds, T!Recompose
<1>4. CASE T!WritePrompt
  <2>1. T!Identity(tBlock).rows = tBlock.rows
    BY DEF T!Identity, ReviewHolds, Block
  <2> QED
    BY <1>4, <2>1 DEF ReviewHolds, T!WritePrompt, Shown, T!Builds
<1>5. CASE T!Review
  BY <1>5 DEF ReviewHolds, T!Review, Shown
<1>6. CASE T!SendBack
  BY <1>6 DEF ReviewHolds, T!SendBack
<1> QED
  BY <1>1, <1>2, <1>3, <1>4, <1>5, <1>6 DEF T!Next, T!Stopped

\* What the move to done rests on.
LEMMA ApprovedAsShown ==
    ASSUME ReviewHolds, T!MayApprove
    PROVE  /\ T!Builds(tContract, tBlock) /\ tReview.identity = T!Identity(tBlock)
           /\ tReview.identity.rows = tBlock.rows
           /\ tReview.criteria = T!Material(tContract, tBlock)
           /\ DOMAIN tReview.criteria = tReview.passed
           /\ Answered(tInforce)
<1>1. /\ tReview # None /\ T!Builds(tContract, tBlock)
      /\ tReview.identity = T!Identity(tBlock) /\ DOMAIN tBlock.rows \subseteq tReview.passed
      /\ T!Uncovered(tBlock, tInforce) = {}
  BY DEF T!MayApprove, T!Blockers, T!ClosureFindings
<1>2. /\ tReview.identity.rows = tBlock.rows /\ tReview.identity.scope = tBlock.scope
  BY <1>1 DEF T!Identity, ReviewHolds, Block
<1>3. /\ tReview.criteria = T!Material(tContract, tBlock)
      /\ DOMAIN tReview.criteria = tReview.passed
  BY <1>1, <1>2 DEF ReviewHolds, Shown, T!Builds
<1>4. Answered(tInforce)
  <2> SUFFICES ASSUME NEW id \in tInforce
               PROVE  \/ id \in T!Judged \/ id \in tBlock.waived
                      \/ id \in T!Scoped(tReview.identity, "outside-scope")
    BY DEF Answered
  <2>1. \/ id \in T!Claimed(tBlock) \/ id \in tBlock.waived
        \/ id \in Ids /\ tBlock.scope[id] # "no"
    BY <1>1 DEF T!Uncovered
  <2>2. T!Claimed(tBlock) = T!Claimed(tReview.identity)
    BY <1>2 DEF T!Claimed
  <2>3. id \in Ids /\ tBlock.scope[id] # "no"
          => \/ id \in T!Scoped(tReview.identity, "outside-scope")
             \/ id \in T!Scoped(tReview.identity, "governing-constraint")
    BY <1>2 DEF T!Scoped, T!Scopes, ReviewHolds, Block
  <2> QED
    BY <2>1, <2>2, <2>3 DEF T!Judged
<1> QED
  BY <1>1, <1>2, <1>3, <1>4

\* A task that becomes done in this step becomes so by the move.
LEMMA ClosesAsJudged ==
    ASSUME ReviewHolds, [T!Next]_T!vars, tDone = None, tDone' # None
    PROVE  /\ tReview.criteria = T!Material(tContract, tBlock)
           /\ DOMAIN tReview.criteria = tReview.passed
           /\ \A i \in DOMAIN tBlock.rows : tBlock.rows[i] = tReview.identity.rows[i]
           /\ tInforce \subseteq T!Judged \cup T!Scoped(tReview.identity, "outside-scope")
                                   \cup tBlock.waived
<1>1. T!MayApprove
  BY DEF T!Next, T!Stopped, T!vars, T!EditContract, T!EditBlock, T!Recompose, T!ChangeInForce,
     T!WritePrompt, T!Review, T!SendBack, T!Approve, T!OthersClaim, T!Decide, T!ClosePlan
<1> QED
  BY <1>1, ApprovedAsShown DEF Answered

\* What is said of the trace alone stays when it does.
LEMMA SameTrace ==
    ASSUME UNCHANGED <<tContract, tBlock, tReview>>
    PROVE  /\ T!Judged' = T!Judged
           /\ T!Builds(tContract, tBlock)' <=> T!Builds(tContract, tBlock)
           /\ T!Identity(tBlock)' = T!Identity(tBlock)
           /\ \A f : Answered(f)' <=> Answered(f)
<1>1. T!Judged' = T!Judged
  BY DEF T!Judged
<1>2. T!Builds(tContract, tBlock)' <=> T!Builds(tContract, tBlock)
  OBVIOUS
<1>3. T!Identity(tBlock)' = T!Identity(tBlock)
  OBVIOUS
<1>4. \A f : Answered(f)' <=> Answered(f)
  BY <1>1 DEF Answered
<1> QED
  BY <1>1, <1>2, <1>3, <1>4

\* Closing the plan, whatever the other tasks and the decisions say by then.
LEMMA ClosePlanKeeps ==
    ASSUME ReviewHolds, DoneHolds, T!ClosePlan PROVE DoneHolds'
<1>1. /\ T!Builds(tContract, tBlock) /\ tReview # None /\ tDone # None
      /\ tReview.identity = T!Identity(tBlock) /\ Answered(tDone)
  BY DEF DoneHolds, T!ClosePlan
<1>2. /\ tReview.identity.rows = tBlock.rows /\ tReview.identity.scope = tBlock.scope
  BY <1>1 DEF T!Identity, ReviewHolds, Block
<1>3. T!Claimed(tBlock) \subseteq T!Judged
  BY <1>2 DEF T!Claimed, T!Judged
<1>4. ASSUME NEW id \in tDone \cap tInforce
      PROVE  id \in T!Judged \cup tElsewhere \cup tBlock.waived \/ tRuling[id] = "operator"
  <2>1. id \in T!Judged \cup tBlock.waived \/ id \in T!Scoped(tBlock, "outside-scope")
    BY <1>1, <1>2, <1>4 DEF Answered, T!Scoped
  <2>2. id \in T!Scoped(tBlock, "outside-scope")
          => id \in T!Claimed(tBlock) \cup tBlock.waived \cup tElsewhere \cup T!OutOfPlan
    BY <1>1, <1>4 DEF T!ClosePlan, T!UnclaimedScoped
  <2> QED
    BY <1>3, <2>1, <2>2 DEF T!OutOfPlan
<1>5. UNCHANGED <<tContract, tInforce, tBlock, tReview, tDone, tElsewhere, tRuling>>
  BY DEF T!ClosePlan
<1> QED
  BY <1>1, <1>4, <1>5, SameTrace DEF DoneHolds, T!IntentKept

LEMMA DoneStep ==
    ASSUME LateEdits = FALSE, ReviewHolds, DoneHolds, [T!Next]_T!vars PROVE DoneHolds'
<1>2. CASE tDone = None /\ tDone' = None
  BY <1>2 DEF DoneHolds, T!Next, T!Stopped, T!vars, T!EditContract, T!EditBlock, T!Recompose,
     T!ChangeInForce, T!WritePrompt, T!Review, T!SendBack, T!Approve, T!OthersClaim, T!Decide,
     T!ClosePlan
<1>3. CASE tDone = None /\ tDone' # None
  <2>1. T!Approve
    BY <1>3 DEF T!Next, T!Stopped, T!vars, T!EditContract, T!EditBlock, T!Recompose,
       T!ChangeInForce, T!WritePrompt, T!Review, T!SendBack, T!OthersClaim, T!Decide, T!ClosePlan
  <2>2. /\ UNCHANGED <<tContract, tBlock, tReview, tClosed>> /\ tReview # None
        /\ tDone' = tInforce /\ ~ tClosed
    BY <1>3, <2>1 DEF T!Approve, T!MayApprove, DoneHolds
  <2>3. /\ T!Builds(tContract, tBlock)' /\ tReview'.identity = T!Identity(tBlock)'
        /\ Answered(tInforce)
    BY <2>1, <2>2, ApprovedAsShown, SameTrace DEF T!Approve
  <2>4. Answered(tDone)'
    BY <2>2, <2>3, SameTrace DEF Answered
  <2> QED
    BY <2>2, <2>3, <2>4, <1>3 DEF DoneHolds
<1>4. CASE tDone # None /\ ~ T!ClosePlan
  <2>1. UNCHANGED <<tContract, tBlock, tReview, tDone, tClosed>>
    BY <1>4 DEF T!Next, T!Stopped, T!vars, T!EditContract, T!EditBlock, T!Recompose, T!Editable,
       T!ChangeInForce, T!WritePrompt, T!Review, T!SendBack, T!Approve, T!OthersClaim, T!Decide
  <2>2. tClosed => UNCHANGED <<tInforce, tElsewhere, tRuling>>
    BY <1>4 DEF T!Next, T!Stopped, T!vars, T!EditContract, T!EditBlock, T!Recompose, T!Editable, 
       T!Edit, T!ChangeInForce, T!WritePrompt, T!Review, T!SendBack, T!Approve, T!OthersClaim,
       T!Decide
  <2>3. T!Judged' = T!Judged /\ T!Builds(tContract, tBlock)' = T!Builds(tContract, tBlock)
        /\ T!Identity(tBlock)' = T!Identity(tBlock) /\ (Answered(tDone) => Answered(tDone)')
    BY <2>1, SameTrace DEF Answered
  <2>4. tClosed => (T!IntentKept => T!IntentKept')
    BY <2>1, <2>2, <2>3 DEF T!IntentKept
  <2> QED
    BY <1>4, <2>1, <2>3, <2>4 DEF DoneHolds
<1>5. CASE T!ClosePlan
  BY <1>5, ClosePlanKeeps
<1> QED
  BY <1>2, <1>3, <1>4, <1>5

---------------------------------------------------------------------------
(* What a behaviour of MCTaskClosure is, if it is about a trace.           *)

Upstream == part = "trace" => ReviewHolds

LEMMA UpstreamStarts == MCInit => Upstream /\ (part = "trace" => DoneHolds)
BY TraceStarts DEF MCInit, Reporting, Upstream

LEMMA UpstreamStep ==
    ASSUME Upstream, [MCNext]_<<part, acceptance, upstream, vars>>
    PROVE  /\ Upstream' /\ part' = part
           /\ (part = "trace" /\ [T!Next]_T!vars) \/ UNCHANGED upstream
<1>1. part' = part
  BY DEF MCNext
<1>2. part = "trace" => [T!Next]_T!vars
  BY DEF MCNext, upstream, T!vars
<1>3. part = "trace" => ReviewHolds'
  BY <1>2, ReviewStep DEF Upstream
<1>4. part # "trace" => UNCHANGED upstream
  BY DEF MCNext, upstream, T!vars
<1> QED
  BY <1>1, <1>2, <1>3, <1>4 DEF Upstream

\* Whatever is edited while the reviewer works, a task closes on the criteria
\* he was shown, each of them judged (evaluate_closure in trace_binding).
THEOREM ClosesOnJudgedTrace == MCSpec => ClosedAsJudged
<1> DEFINE Kept == tDone = None /\ tDone' # None =>
              /\ tReview.criteria = T!Material(tContract, tBlock)
              /\ DOMAIN tReview.criteria = tReview.passed
              /\ \A i \in DOMAIN tBlock.rows : tBlock.rows[i] = tReview.identity.rows[i]
              /\ tInforce \subseteq T!Judged \cup T!Scoped(tReview.identity, "outside-scope")
                                      \cup tBlock.waived
<1>1. ASSUME Upstream, [MCNext]_<<part, acceptance, upstream, vars>> PROVE [Kept]_T!vars
  <2>1. CASE part = "trace" /\ [T!Next]_T!vars
    BY <1>1, <2>1, ClosesAsJudged DEF Upstream
  <2>2. CASE UNCHANGED upstream
    BY <2>2 DEF upstream, T!vars
  <2> QED
    BY <1>1, <2>1, <2>2, UpstreamStep
<1>2. Upstream /\ [MCNext]_<<part, acceptance, upstream, vars>> => Upstream'
  BY UpstreamStep
<1> QED
  BY UpstreamStarts, <1>1, <1>2, PTL DEF MCSpec, ClosedAsJudged, T!ClosedAsJudged

\* No request that was in force when the task closed is lost with the plan, if
\* the trace of a done task is left alone (unclaimed_scoped_excerpts, close-audit).
THEOREM RequestsKept ==
    ASSUME LateEdits = FALSE PROVE MCSpec => []IntentKept
<1> DEFINE Inv == Upstream /\ (part = "trace" => DoneHolds)
<1>1. Inv /\ [MCNext]_<<part, acceptance, upstream, vars>> => Inv'
  <2> SUFFICES ASSUME Inv, [MCNext]_<<part, acceptance, upstream, vars>> PROVE Inv'
    OBVIOUS
  <2>1. Upstream' /\ part' = part
    BY UpstreamStep
  <2>2. part = "trace" => [T!Next]_T!vars
    BY DEF MCNext, upstream, T!vars
  <2>3. part = "trace" => DoneHolds'
    BY <2>2, DoneStep DEF Upstream
  <2> QED
    BY <2>1, <2>3
<1>2. Inv => IntentKept
  BY DEF IntentKept, T!IntentKept, DoneHolds
<1> QED
  BY UpstreamStarts, <1>1, <1>2, PTL DEF MCSpec

---------------------------------------------------------------------------
(* One report and its readers.                                             *)

Lists == ClaimLists \cup {<<A!NoClaim>>}
TaskReports ==
    [heads : {"right", "misnamed"}, status : A!Statuses, ready : {"yes", "no", "unfilled"},
     claims : Lists, sources : BOOLEAN]
ReviewReports ==
    [heads : {"right", "misnamed"}, status : A!Statuses,
     verdict : {"approve", "request-changes", "other"},
     align : {"aligned", "misquoted", "drifted", "none"}, context : A!Contexts \cup {None},
     ids : {"exact", "wrong", "none"}, place : A!Places, prompt : {"exact", "other"}]

\* What the slot of this behaviour can hold.
Reports == IF aSlot = "task" THEN TaskReports ELSE ReviewReports

Bindings == aSlot \in {"task", "review"} /\ aPrompt \in A!Contexts /\ aContext \in A!Contexts

LEMMA VariedTask ==
    ASSUME aSlot = "task", NEW S, S \subseteq TaskReports PROVE A!Vary(S) \subseteq TaskReports
<1> SUFFICES ASSUME NEW x \in A!Vary(S) PROVE x \in TaskReports
  OBVIOUS
<1>1. PICK r \in S, f \in DOMAIN A!Faithful : x \in {[r EXCEPT ![f] = v] : v \in A!Tokens[f]}
  BY DEF A!Vary
<1>2. PICK v \in A!Tokens[f] : x = [r EXCEPT ![f] = v]
  BY <1>1
<1>3. f \in {"heads", "status", "ready", "claims", "sources"}
  BY DEF A!Faithful
<1>4. r \in TaskReports
  OBVIOUS
<1> QED
  BY <1>2, <1>3, <1>4 DEF TaskReports, A!Tokens, Lists

LEMMA VariedReview ==
    ASSUME aSlot = "review", NEW S, S \subseteq ReviewReports PROVE A!Vary(S) \subseteq ReviewReports
<1> SUFFICES ASSUME NEW x \in A!Vary(S) PROVE x \in ReviewReports
  OBVIOUS
<1>1. PICK r \in S, f \in DOMAIN A!Faithful : x \in {[r EXCEPT ![f] = v] : v \in A!Tokens[f]}
  BY DEF A!Vary
<1>2. PICK v \in A!Tokens[f] : x = [r EXCEPT ![f] = v]
  BY <1>1
<1>3. f \in {"heads", "status", "verdict", "align", "context", "ids", "place", "prompt"}
  BY DEF A!Faithful
<1>4. r \in ReviewReports
  OBVIOUS
<1> QED
  BY <1>2, <1>3, <1>4 DEF ReviewReports, A!Tokens

LEMMA WritableTyped ==
    ASSUME Bindings PROVE A!Writable \subseteq Reports
<1>1. aSlot = "task" => A!Faithful \in TaskReports
  BY DEF A!Faithful, TaskReports, Lists, A!Statuses
<1>2. aSlot = "review" => A!Faithful \in ReviewReports
  BY DEF A!Faithful, ReviewReports, A!Statuses, A!Places, Bindings
<1> QED
  BY <1>1, <1>2, VariedTask, VariedReview DEF Bindings, A!Writable, Reports

\* When the two validators find nothing.
LEMMA TaskPasses ==
    ASSUME NEW r
    PROVE  A!TaskFailures(r) = {} <=>
             /\ r.heads = "right" /\ r.status # "other" /\ r.ready # "unfilled"
             /\ ~ A!Contradicts(r)
             /\ r.status = "complete" => aTask # None /\ A!EvidenceClasses(r) = {}
<1>1. A!EvidenceFailures(r) = {} <=>
        (r.status = "complete" => aTask # None /\ A!EvidenceClasses(r) = {})
  BY DEF A!EvidenceFailures, A!Failed
<1> QED
  BY <1>1 DEF A!TaskFailures, A!Failed

LEMMA ReviewPasses ==
    ASSUME NEW r
    PROVE  A!ReviewFailures(r) = {} <=>
             /\ r.heads = "right" /\ r.ids # "none" /\ r.status # "other"
             /\ ~ (r.status = "complete" /\ r.verdict = "other")
             /\ ~ A!StrayPaths(r) /\ ~ A!AlignmentBlocks(r)
             /\ A!ReachesReview(r) /\ r.verdict # "other" => A!BindingDefects(r) = {}
             /\ ~ (A!ReachesReview(r) /\ aReview # None /\ aReview.verdict # "approve"
                   /\ ~ aReview.findings)
BY DEF A!ReviewFailures, A!Failed

\* What report-action makes of a report that leads to done or to review.
LEMMA RoutesDone ==
    ASSUME NEW r \in ReviewReports, aSlot = "review", A!Target(r) = "done"
    PROVE  A!RoutedVerdict(r) = "accepted" /\ ~ A!Refused(r)
<1>1. ~ (A!Refused(r) \/ A!RoutedVerdict(r) = "failed-to-parse")
  BY DEF A!Target
<1>2. "done" = CASE A!RoutedVerdict(r) = "accepted" -> "done"
                 [] A!RoutedVerdict(r) = "changes-requested" -> "in-progress"
                 [] OTHER -> "in-review"
  BY <1>1 DEF A!Target
<1>3. A!RoutedVerdict(r) # "accepted" =>
        "done" = "in-progress" \/ "done" = "in-review"
  BY <1>2, Zenon
<1> QED
  BY <1>1, <1>3

LEMMA TaskAgrees ==
    ASSUME aSlot = "task", NEW r \in TaskReports
    PROVE  /\ A!Validates(r) => ~ A!Refused(r) /\ A!RoutedVerdict(r) # "failed-to-parse"
           /\ A!Target(r) # "done"
           /\ A!Target(r) = "in-review" /\ aTask # None => A!Validates(r)
<1>1. A!Validates(r) <=> A!TaskFailures(r) = {}
  BY DEF A!Validates, A!Failures
<1> USE DEF TaskReports, A!Statuses, A!SchemaOk, A!Contradicts, A!ParsedVerdict, A!RoutedVerdict,
        A!Refused
<1>2. A!Validates(r) => ~ A!Refused(r) /\ A!RoutedVerdict(r) # "failed-to-parse"
  BY <1>1, TaskPasses
<1>3. A!Target(r) # "done"
  BY DEF A!Target
<1>4. A!Target(r) = "in-review" =>
        A!RoutedVerdict(r) = "accepted" /\ r.ready = "yes"
  BY DEF A!Target
<1>5. A!Target(r) = "in-review" /\ aTask # None => A!Validates(r)
  BY <1>1, <1>4, TaskPasses DEF A!Outcome
<1> QED
  BY <1>2, <1>3, <1>5

LEMMA ReviewAgrees ==
    ASSUME aSlot = "review", NEW r \in ReviewReports
    PROVE  /\ A!Validates(r) => ~ A!Refused(r) /\ A!RoutedVerdict(r) # "failed-to-parse"
           /\ A!Target(r) = "done" => A!Validates(r)
<1>1. A!Validates(r) <=> A!ReviewFailures(r) = {}
  BY DEF A!Validates, A!Failures
<1> USE DEF ReviewReports, A!Statuses, A!SchemaOk, A!ParsedVerdict, A!RoutedVerdict
<1>2. A!Validates(r) => A!RoutedVerdict(r) # "failed-to-parse"
  BY <1>1, ReviewPasses DEF A!Outcome
<1>3. A!Validates(r) => ~ A!PathMismatch(r)
  BY <1>1, ReviewPasses, ClosureAssumption
     DEF A!PathMismatch, A!StrayPaths, A!AlignmentBlocks, A!Bound, A!Places, Status
<1>4. A!Validates(r) /\ r.status = "complete" => A!BindingDefects(r) = {}
  BY <1>1, ReviewPasses DEF A!ReachesReview
<1>5. A!Validates(r) => ~ A!Refused(r)
  BY <1>1, <1>3, <1>4, ReviewPasses DEF A!Refused
<1>6. ASSUME A!Target(r) = "done" PROVE A!Validates(r)
  <2>1. A!RoutedVerdict(r) = "accepted" /\ ~ A!Refused(r)
    BY <1>6, RoutesDone
  <2>2. /\ A!SchemaOk(r) /\ r.status = "complete" /\ r.verdict = "approve"
        /\ ~ A!AlignmentBlocks(r)
    BY <2>1 DEF A!Outcome
  <2>3. ~ A!PathMismatch(r) /\ A!BindingDefects(r) = {}
    BY <2>1, <2>2 DEF A!Refused
  <2>4. ~ A!StrayPaths(r)
    BY <2>1, <2>3 DEF A!PathMismatch, A!StrayPaths
  <2>5. aReview.verdict = "approve"
    <3>1. aReview # None
      BY <2>1, <2>3 DEF A!PathMismatch
    <3>2. aReview.verdict # r.verdict => "substantive" \in A!BindingDefects(r)
      BY <3>1 DEF A!BindingDefects
    <3> QED
      BY <2>2, <2>3, <3>2
  <2> QED
    BY <1>1, <2>2, <2>3, <2>4, <2>5, ReviewPasses
<1> QED
  BY <1>2, <1>5, <1>6

LEMMA ReportAgreed ==
    ASSUME Bindings, aReport # None => aReport \in Reports PROVE A!ReadersAgree
<1>1. CASE aSlot = "task" /\ aReport # None
  <2>1. aReport \in TaskReports
    BY <1>1 DEF Reports
  <2> QED
    BY <1>1, <2>1, TaskAgrees DEF A!ReadersAgree
<1>2. CASE aSlot = "review" /\ aReport # None
  <2>1. aReport \in ReviewReports
    BY <1>2 DEF Reports
  <2> QED
    BY <1>2, <2>1, ReviewAgrees DEF A!ReadersAgree
<1>3. CASE aReport = None
  BY <1>3 DEF A!ReadersAgree
<1> QED
  BY <1>1, <1>2, <1>3 DEF Bindings

---------------------------------------------------------------------------
(* A correction.                                                           *)

\* Every readable judgement of old is one of new.
Keeps(old, new) ==
    /\ A!Said(old) \subseteq A!Said(new)
    /\ aSlot = "task" => A!Claimed(old) \subseteq A!Claimed(new)

\* A token that a failed check opens was not readable.
LEMMA TaskOpens ==
    ASSUME NEW r, NEW x \in A!TaskFailures(r), NEW f \in A!Opens(r, x.check)
    PROVE  /\ f = "status" => r.status = "other"
           /\ f = "ready" => r.ready = "unfilled"
           /\ f \notin {"verdict", "sources"}
<1>1. x \in A!EvidenceFailures(r) => x.check = "evidence"
  BY DEF A!EvidenceFailures, A!Failed
<1>2. \/ x.check \in {"sections", "consistency", "evidence"}
      \/ x.check = "status" /\ r.status = "other"
      \/ x.check = "readiness" /\ r.ready = "unfilled"
  <2>1. \/ x \in A!Failed(r.heads # "right", "sections", "mechanical")
        \/ x \in A!Failed(r.status = "other", "status", "mechanical")
        \/ x \in A!Failed(r.ready = "unfilled", "readiness", "mechanical")
        \/ x \in A!Failed(A!Contradicts(r), "consistency", "substantive")
        \/ x \in A!EvidenceFailures(r)
    BY DEF A!TaskFailures
  <2>2. x \in A!Failed(r.heads # "right", "sections", "mechanical") => x.check = "sections"
    BY DEF A!Failed
  <2>3. x \in A!Failed(A!Contradicts(r), "consistency", "substantive")
          => x.check = "consistency"
    BY DEF A!Failed, A!Contradicts
  <2>4. x \in A!Failed(r.status = "other", "status", "mechanical")
          => x.check = "status" /\ r.status = "other"
    BY DEF A!Failed
  <2>5. x \in A!Failed(r.ready = "unfilled", "readiness", "mechanical")
          => x.check = "readiness" /\ r.ready = "unfilled"
    BY DEF A!Failed
  <2> QED
    BY <1>1, <2>1, <2>2, <2>3, <2>4, <2>5
<1> QED
  BY <1>2 DEF A!Opens

LEMMA ReviewOpens ==
    ASSUME NEW r, NEW x \in A!ReviewFailures(r), NEW f \in A!Opens(r, x.check)
    PROVE  /\ f = "status" => r.status = "other"
           /\ f = "verdict" => r.verdict = "other"
           /\ f \notin {"ready", "sources"}
<1>1. /\ x.check = "status" => r.status = "other"
      /\ x.check = "verdict" => r.verdict = "other"
      /\ x.check # "readiness"
  BY DEF A!ReviewFailures, A!Failed
<1> QED
  BY <1>1 DEF A!Opens

\* A correction of a completion report: status, readiness and sources.
LEMMA TaskSaid ==
    ASSUME aSlot = "task", NEW r \in TaskReports, NEW new \in TaskReports, A!Confined(r, new)
    PROVE  A!Said(r) \subseteq A!Said(new)
<1>1. A!Failures(r) = A!TaskFailures(r)
  BY DEF A!Failures
<1>2. /\ new.status = r.status \/ r.status = "other"
      /\ new.ready = r.ready \/ r.ready = "unfilled"
      /\ new.sources = r.sources
  <2>1. \A f \in DOMAIN r \ {"claims"} :
          new[f] = r[f] \/ \E x \in A!TaskFailures(r) : f \in A!Opens(r, x.check)
    BY <1>1 DEF A!Confined, A!Authorized
  <2> QED
    BY <2>1, TaskOpens DEF TaskReports
<1>3. DOMAIN r = DOMAIN new /\ "verdict" \notin DOMAIN r
  BY DEF TaskReports
<1> QED
  BY <1>2, <1>3 DEF A!Said, TaskReports

LEMMA ReviewSaid ==
    ASSUME aSlot = "review", NEW r \in ReviewReports, NEW new \in ReviewReports,
           A!Confined(r, new)
    PROVE  A!Said(r) \subseteq A!Said(new)
<1>1. A!Failures(r) = A!ReviewFailures(r)
  BY DEF A!Failures
<1>2. /\ new.status = r.status \/ r.status = "other"
      /\ new.verdict = r.verdict \/ r.verdict = "other"
  <2>1. \A f \in DOMAIN r \ {"claims"} :
          new[f] = r[f] \/ \E x \in A!ReviewFailures(r) : f \in A!Opens(r, x.check)
    BY <1>1 DEF A!Confined, A!Authorized
  <2> QED
    BY <2>1, ReviewOpens DEF ReviewReports
<1>3. DOMAIN r = DOMAIN new /\ DOMAIN r \cap {"ready", "sources"} = {}
  BY DEF ReviewReports
<1> QED
  BY <1>2, <1>3 DEF A!Said, ReviewReports

\* A correction of the unverified claims, row by row or without those that say none.
LEMMA ClaimsKept ==
    ASSUME NEW r \in TaskReports, NEW new \in TaskReports,
           new.claims = r.claims \/ A!ClaimsRepaired(r.claims, new.claims)
    PROVE  A!Claimed(r) \subseteq A!Claimed(new)
<1> DEFINE Rows == [claim : {None, c1}, weight : Weights]
<1>1. r.claims \in Seq(Rows) /\ new.claims \in Seq(Rows)
  <2>1. A!NoClaim \in Rows
    BY DEF A!NoClaim, Weights
  <2>2. <<A!NoClaim>> \in Seq(Rows)
    BY <2>1
  <2>3. Lists \subseteq Seq(Rows)
    BY <2>2, HostedAssumption DEF Lists
  <2> QED
    BY <2>3 DEF TaskReports
<1> SUFFICES ASSUME NEW i \in DOMAIN r.claims, r.claims[i].weight \in {"minor", "decisive"}
             PROVE  \E k \in DOMAIN new.claims : new.claims[k] = r.claims[i]
  BY DEF A!Claimed
<1>2. r.claims[i] # A!NoClaim
  BY DEF A!NoClaim
<1>3. CASE new.claims = r.claims
  BY <1>3
<1>4. CASE A!Mixed(r.claims) /\ A!OnlyClaims(r.claims, new.claims)
  BY <1>2, <1>4 DEF A!OnlyClaims
<1>5. CASE /\ Len(new.claims) = Len(r.claims)
           /\ \A j \in DOMAIN r.claims \ A!Unreadable(r.claims) : new.claims[j] = r.claims[j]
  <2>1. i \notin A!Unreadable(r.claims)
    BY DEF A!Unreadable
  <2>2. DOMAIN new.claims = DOMAIN r.claims
    BY <1>1, <1>5
  <2> QED
    BY <1>5, <2>1, <2>2
<1> QED
  BY <1>3, <1>4, <1>5 DEF A!ClaimsRepaired

---------------------------------------------------------------------------
(* What a behaviour of MCTaskClosure is, if it is about a report.          *)

ReportHolds ==
    /\ Bindings
    /\ aReport # None => aReport \in Reports
    /\ aJob # None => /\ aJob.from \in Reports /\ aJob.to \in Reports
                      /\ Keeps(aJob.from, aJob.to)

LEMMA ReportStarts ==
    ASSUME A!Init PROVE ReportHolds
BY HostedAssumption DEF A!Init, ReportHolds, Bindings, A!Contexts

\* What the manager may write over a report keeps what was said in it.
LEMMA AdmittedKeeps ==
    ASSUME Bindings, NEW r \in Reports, NEW new \in Reports, A!Admits(r, new) PROVE Keeps(r, new)
<1>1. A!Confined(r, new)
  BY DEF A!Admits
<1>2. CASE aSlot = "task"
  <2>1. r \in TaskReports /\ new \in TaskReports
    BY <1>2 DEF Reports
  <2>2. new.claims = r.claims \/ A!ClaimsRepaired(r.claims, new.claims)
    BY <1>1, <1>2 DEF A!Confined
  <2> QED
    BY <1>1, <1>2, <2>1, <2>2, TaskSaid, ClaimsKept DEF Keeps
<1>3. CASE aSlot = "review"
  <2>1. r \in ReviewReports /\ new \in ReviewReports
    BY <1>3 DEF Reports
  <2> QED
    BY <1>1, <1>3, <2>1, ReviewSaid DEF Keeps
<1> QED
  BY <1>2, <1>3 DEF Bindings

LEMMA ReportStep ==
    ASSUME ReportHolds, [A!Next]_A!vars PROVE ReportHolds'
<1>1. aSlot' = aSlot /\ A!Writable \subseteq Reports /\ Bindings'
  <2>1. aSlot' = aSlot
    BY DEF A!Next, A!vars, A!Read, A!WriteReport, A!WriteReview, A!MoveTask, A!AddRequest,
       A!BindPrompt, A!Judge, A!Land
  <2>2. aPrompt' \in A!Contexts /\ aContext' \in A!Contexts
    BY DEF ReportHolds, Bindings, A!Contexts, A!Next, A!vars, A!Read, A!WriteReport,
       A!WriteReview, A!MoveTask, A!AddRequest, A!BindPrompt, A!Judge, A!Land
  <2> QED
    BY <2>1, <2>2, WritableTyped DEF ReportHolds, Bindings
<1>2. Reports' = Reports /\ \A r, new : Keeps(r, new)' <=> Keeps(r, new)
  BY <1>1 DEF Reports, Keeps
<1>3. CASE UNCHANGED <<aReport, aJob>>
  BY <1>1, <1>2, <1>3 DEF ReportHolds, Keeps
<1>4. CASE A!WriteReport
  BY <1>1, <1>2, <1>4 DEF ReportHolds, Keeps, A!WriteReport
<1>5. CASE A!Judge
  <2>1. PICK new \in A!Writable : A!Admits(aReport, new) /\ aJob' = [from |-> aReport, to |-> new]
    BY <1>5 DEF A!Judge
  <2>2. aReport \in Reports /\ new \in Reports /\ aReport' = aReport /\ Bindings
    BY <1>1, <1>5 DEF A!Judge, ReportHolds
  <2>3. Keeps(aReport, new)
    BY <2>1, <2>2, AdmittedKeeps
  <2> QED
    BY <1>1, <1>2, <2>1, <2>2, <2>3 DEF ReportHolds, Keeps
<1>6. CASE A!Land
  BY <1>1, <1>2, <1>6 DEF ReportHolds, A!Land
<1> QED
  BY <1>3, <1>4, <1>5, <1>6 DEF A!Next, A!vars, A!Read, A!WriteReview, A!MoveTask, A!AddRequest,
     A!BindPrompt

\* What lands keeps what is there, the judged report or a later one.
LEMMA LandsKeeping ==
    ASSUME ReportHolds, [A!Next]_A!vars, aJob # None, aJob' = None
    PROVE  Keeps(aReport, aReport')
<1>1. A!Land
  BY DEF A!Next, A!vars, A!Read, A!WriteReport, A!WriteReview, A!MoveTask, A!AddRequest,
     A!BindPrompt, A!Judge
<1>2. aReport' = aReport \/ (aReport = aJob.from /\ aReport' = aJob.to)
  BY <1>1 DEF A!Land
<1> QED
  BY <1>2 DEF ReportHolds, Keeps

Reported == part = "acceptance" => ReportHolds

LEMMA ReportedStarts == MCInit => Reported
BY ReportStarts DEF MCInit, Reporting, Reported

LEMMA ReportedStep ==
    ASSUME Reported, [MCNext]_<<part, acceptance, upstream, vars>>
    PROVE  Reported' /\ ((part = "acceptance" /\ [A!Next]_A!vars) \/ UNCHANGED acceptance)
<1>1. part' = part
  BY DEF MCNext
<1>2. part = "acceptance" => [A!Next]_A!vars
  BY DEF MCNext, acceptance, A!vars
<1>3. part # "acceptance" => UNCHANGED acceptance
  BY DEF MCNext, acceptance
<1> QED
  BY <1>1, <1>2, <1>3, ReportStep DEF Reported

\* On every report, validate-report and report-action agree (validate_report.py:434).
THEOREM ReadersNeverDisagree == MCSpec => []ReadersAgree
<1>1. Reported /\ [MCNext]_<<part, acceptance, upstream, vars>> => Reported'
  BY ReportedStep
<1>2. Reported => ReadersAgree
  BY ReportAgreed DEF Reported, ReportHolds, ReadersAgree
<1> QED
  BY ReportedStarts, <1>1, <1>2, PTL DEF MCSpec

\* A correction by the manager changes no judgement its producer expressed, whoever
\* writes between judging and landing (correct_report.py).
THEOREM CorrectionsKeep == MCSpec => CorrectionKeeps
<1> DEFINE Kept == aJob # None /\ aJob' = None =>
              /\ A!Said(aReport) \subseteq A!Said(aReport')
              /\ aSlot = "task" => A!Claimed(aReport) \subseteq A!Claimed(aReport')
<1>1. ASSUME Reported, [MCNext]_<<part, acceptance, upstream, vars>> PROVE [Kept]_A!vars
  <2>1. CASE part = "acceptance" /\ [A!Next]_A!vars
    BY <1>1, <2>1, LandsKeeping DEF Reported, Keeps
  <2>2. CASE UNCHANGED acceptance
    BY <2>2 DEF acceptance, A!vars
  <2> QED
    BY <1>1, <2>1, <2>2, ReportedStep
<1>2. Reported /\ [MCNext]_<<part, acceptance, upstream, vars>> => Reported'
  BY ReportedStep
<1> QED
  BY ReportedStarts, <1>1, <1>2, PTL DEF MCSpec, CorrectionKeeps, A!CorrectionKeeps
=============================================================================
