---------------------------- MODULE TaskClosure ----------------------------
(***************************************************************************)
(* The life of one task of a project: the directory it lies in, the        *)
(* artifacts its moves are guarded by, the assignees that write them and   *)
(* the project manager who runs one command at a time.  move-task reads    *)
(* the guards' artifacts and renames later; assignees, a process the coder *)
(* left behind, the operator's requests and the review policy go on        *)
(* meanwhile.                                                              *)
(*                                                                         *)
(* A piece of completed work is named by a number: the completion report   *)
(* that delivers it has its own content identity.  What a review prompt    *)
(* binds, and the reviewer copies as `Request-context identity`, is the    *)
(* pair of that work and the request evidence in force (trace).  The       *)
(* identity also covers a list of artifact paths; of these only the task   *)
(* file's own place is kept: another list makes the code refuse more.      *)
(*                                                                         *)
(* Bounds: MaxWork completed pieces of work, MaxTrace states of the        *)
(* request evidence, MaxFlip changes of the review policy.                 *)
(***************************************************************************)
EXTENDS Naturals

CONSTANTS
    MaxWork, MaxTrace, MaxFlip,
    Routes,     \* the manager routes a report with report-action before moving on it
    Rewrites,   \* a process the coder left behind may rewrite its report
    None, Unfinished

Status == {"open", "in-progress", "in-review", "done"}
Verdict == {"approve", "request-changes", "reject"}
Slot == {"completion", "review"}
Work == 1..MaxWork
Judgment == [verdict : Verdict, work : Work, trace : 1..MaxTrace]
Prompt == [kind : {"coder", "review"}, at : Status, work : 0..MaxWork, trace : 1..MaxTrace]
Assignee == [role : Slot, work : 0..MaxWork, trace : 1..MaxTrace]
Move == [to : Status, admin : BOOLEAN]

ASSUME ClosureAssumption ==
    /\ MaxWork \in Nat /\ MaxTrace \in Nat \ {0} /\ MaxFlip \in Nat
    /\ Routes \in BOOLEAN /\ Rewrites \in BOOLEAN
    /\ None \notin Nat \cup Status \cup Prompt
    /\ Unfinished \notin Nat

VARIABLES
    place,    \* the status directory the task file lies in
    policy,   \* reviews.task_closure.mode
    flips,    \* how often the policy changed
    trace,    \* the request evidence in force
    work,     \* how many pieces of work were completed
    report,   \* reports/REPORT-NN-NNN.md: the work it delivers, or Unfinished
    prompt,   \* prompts/PROMPT-NN-NNN.md
    review,   \* reviews/REVIEW-NN-NNN.md
    slot,     \* reports/REPORT-NN-NNN-review.md
    status,   \* the reports that have a .status companion
    log,      \* the reports that have a .launch.log companion
    live,     \* the assignee that runs
    routed,   \* the status the last report-action named, as the manager remembers it
    move      \* the move-task that passed its guards and has not renamed yet

artifacts == <<report, prompt, review, slot>>
companions == <<status, log>>
world == <<policy, flips, trace, work>>
vars == <<place, world, artifacts, companions, live, routed, move>>

\* One type for every variable of the task.
TypeOK ==
    /\ place \in Status
    /\ policy \in {"required", "off"} /\ flips \in 0..MaxFlip
    /\ trace \in 1..MaxTrace /\ work \in 0..MaxWork
    /\ report \in Work \cup {None, Unfinished}
    /\ prompt \in Prompt \cup {None}
    /\ review \in Judgment \cup {None} /\ slot \in Judgment \cup {None}
    /\ status \subseteq Slot /\ log \subseteq Slot
    /\ live \in Assignee \cup {None}
    /\ live # None /\ live.role = "review" => live.work \in Work
    /\ routed \in Status \cup {None}
    /\ move \in Move \cup {None}

Init ==
    /\ place = "open" /\ policy = "required" /\ flips = 0 /\ trace = 1 /\ work = 0
    /\ report = None /\ prompt = None /\ review = None /\ slot = None
    /\ status = {} /\ log = {} /\ live = None /\ routed = None /\ move = None

---------------------------------------------------------------------------
(* What the commands read.                                                 *)

\* A report whose status is complete is also ready for review here.
Complete == report \in Work

\* What a prompt of either kind binds when it is written now.
Binding(kind) ==
    [kind |-> kind, at |-> place, trace |-> trace,
     work |-> IF kind = "review" THEN report ELSE 0]

\* The prompt binds the task file where it lies, the completion report and the
\* request evidence as they are.
BindingCurrent == place = "in-review" /\ Complete /\ prompt = Binding("review")

\* The review artifact says v; an approving one must also rest on the current
\* binding and name the current request evidence.  The work it judged is not
\* compared with the report.
ReviewSays(v) ==
    /\ review # None
    /\ review.verdict = v
    /\ v = "approve" => BindingCurrent /\ review.trace = trace

VerdictFor(to) ==
    CASE to = "done" -> "approve"
      [] to = "in-progress" -> "request-changes"
      [] OTHER -> "reject"

\* The pairs a guard function stands before, under the policy in force.
Guarded(to) ==
    \/ place = "in-progress" /\ to = "in-review"
    \/ place = "in-review" /\ policy = "required"
    \/ place = "in-progress" /\ to = "done" /\ policy = "off"

Disallowed(to) ==
    \/ to = place
    \/ place = "done"
    \/ place = "open" /\ to = "done"
    \/ place = "in-progress" /\ policy = "required" /\ to \in {"open", "done"}
    \/ place = "in-progress" /\ policy = "off" /\ to = "in-review"

GuardHolds(to) ==
    /\ place = "in-progress" => Complete
    /\ place = "in-review" => ReviewSays(VerdictFor(to))

MayMove(to) ==
    /\ ~Disallowed(to)
    /\ Guarded(to) => GuardHolds(to)

NeverStarted ==
    /\ prompt = None /\ review = None /\ report = None /\ slot = None
    /\ status = {} /\ log = {}

ReopenableMarked == policy = "required" /\ Complete /\ review # None

Reopenable == status = {} /\ policy = "required" /\ Complete /\ review # None

MayRecover(to) ==
    \/ place = "open" /\ to = "done"
    \/ place = "in-progress" /\ to = "open" /\ NeverStarted
    \/ place = "done" /\ to = "in-review" /\ Reopenable

---------------------------------------------------------------------------
(* move-task: guards, then the rename.                                     *)

\* The manager moves through a guarded pair only where a report routed him.
CheckMove(to) ==
    /\ move = None
    /\ MayMove(to)
    /\ Routes /\ Guarded(to) => routed = to
    /\ move' = [to |-> to, admin |-> FALSE]
    /\ UNCHANGED <<place, world, artifacts, companions, live, routed>>

CheckRecovery(to) ==
    /\ move = None
    /\ MayRecover(to)
    /\ move' = [to |-> to, admin |-> TRUE]
    /\ UNCHANGED <<place, world, artifacts, companions, live, routed>>

Rename ==
    /\ move # None
    /\ place' = move.to /\ move' = None /\ routed' = None
    /\ UNCHANGED <<world, artifacts, companions, live>>

---------------------------------------------------------------------------
(* The manager's other commands.  He launches one assignee at a time, and  *)
(* routes and cleans up when the launch has ended.                         *)

WritePromptUnproved(kind) ==
    /\ move = None
    /\ prompt' = Binding(kind)
    /\ routed' = None
    /\ UNCHANGED <<place, world, report, review, slot, companions, live, move>>

WritePrompt(kind) ==
    /\ move = None
    /\ kind = "review" => Complete
    /\ prompt' = Binding(kind)
    /\ routed' = None
    /\ UNCHANGED <<place, world, report, review, slot, companions, live, move>>

\* dispatch: one launch at a time, and its own report slot cleared.
Launch(s, a) ==
    /\ move = None /\ live = None
    /\ status' = status \cup {s} /\ log' = log \ {s}
    /\ live' = a
    /\ routed' = None
    /\ UNCHANGED <<place, world, prompt, review, move>>

DispatchCoder ==
    /\ place # "in-review"
    /\ prompt = Binding("coder")
    /\ Launch("completion", [role |-> "completion", work |-> 0, trace |-> trace])
    /\ report' = None
    /\ UNCHANGED slot

DispatchReviewer ==
    /\ BindingCurrent
    /\ Launch("review", [role |-> "review", work |-> report, trace |-> trace])
    /\ slot' = None
    /\ UNCHANGED report

\* report-action on the completion report: the manager routes the report of the
\* assignee that a dispatch of the task launches where it lies.
RouteCompletion ==
    /\ move = None /\ live = None
    /\ place # "in-review" /\ Complete
    /\ routed' = IF policy = "required" THEN "in-review" ELSE "done"
    /\ UNCHANGED <<place, world, artifacts, companions, live, move>>

Target(v) ==
    CASE v = "approve" -> "done"
      [] v = "request-changes" -> "in-progress"
      [] OTHER -> "open"

AgreeUnbound ==
    /\ place = "in-review"
    /\ slot # None /\ review # None /\ slot = review
    /\ slot.verdict = "approve" => BindingCurrent

\* The review report, named after the task in-review, agrees with the review
\* artifact, and both with the binding if it is current; only an approving one
\* needs it to be.
Agree ==
    /\ place = "in-review"
    /\ slot # None /\ review # None /\ slot = review
    /\ slot.verdict = "approve" => BindingCurrent
    /\ BindingCurrent => review.work = report /\ review.trace = trace

\* report-action on the review report.
RouteReview ==
    /\ move = None /\ live = None
    /\ Agree
    /\ routed' = Target(slot.verdict)
    /\ UNCHANGED <<place, world, artifacts, companions, live, move>>

DeletePrompt ==
    /\ move = None /\ live = None
    /\ prompt # None
    /\ prompt' = None
    /\ UNCHANGED <<place, world, report, review, slot, companions, live, routed, move>>

\* delete-report, of the whole slot or with --status-only, once its launch ended.
DeleteReport(s, statusOnly) ==
    /\ move = None /\ live = None
    /\ status' = status \ {s} /\ log' = log \ {s}
    /\ report' = IF s = "completion" /\ ~statusOnly THEN None ELSE report
    /\ slot' = IF s = "review" /\ ~statusOnly THEN None ELSE slot
    /\ UNCHANGED <<place, world, prompt, review, live, routed, move>>

\* The manager's session ends, or the command he runs is killed.
Restart ==
    /\ routed' = None /\ move' = None
    /\ UNCHANGED <<place, world, artifacts, companions, live>>

---------------------------------------------------------------------------
(* Assignees, the operator and whatever the coder left running.            *)

WriteReport ==
    /\ \/ work < MaxWork /\ work' = work + 1 /\ report' = work + 1
       \/ work' = work /\ report' = Unfinished
    /\ UNCHANGED <<place, policy, flips, trace, prompt, review, slot, companions,
                   live, routed, move>>

CoderReports == live # None /\ live.role = "completion" /\ WriteReport

Rewrite == Rewrites /\ report # None /\ WriteReport

\* The reviewer's two artifacts, in either order and not always in agreement.
ReviewerWrites(v) ==
    /\ live # None /\ live.role = "review"
    /\ \E j \in {[verdict |-> v, work |-> live.work, trace |-> live.trace]} :
          \/ review' = j /\ UNCHANGED slot
          \/ slot' = j /\ UNCHANGED review
    /\ UNCHANGED <<place, world, report, prompt, companions, live, routed, move>>

AssigneeEnds ==
    /\ live # None
    /\ live' = None /\ log' = log \cup {live.role}
    /\ UNCHANGED <<place, world, artifacts, status, routed, move>>

CaptureRequest ==
    /\ trace < MaxTrace
    /\ trace' = trace + 1
    /\ UNCHANGED <<place, policy, flips, work, artifacts, companions, live, routed, move>>

SetPolicy ==
    /\ flips < MaxFlip
    /\ flips' = flips + 1
    /\ policy' = IF policy = "required" THEN "off" ELSE "required"
    /\ UNCHANGED <<place, trace, work, artifacts, companions, live, routed, move>>

Next ==
    \/ \E to \in Status : CheckMove(to) \/ CheckRecovery(to)
    \/ Rename
    \/ \E kind \in {"coder", "review"} : WritePrompt(kind)
    \/ DispatchCoder \/ DispatchReviewer
    \/ RouteCompletion \/ RouteReview \/ DeletePrompt
    \/ \E s \in Slot, statusOnly \in BOOLEAN : DeleteReport(s, statusOnly)
    \/ Restart
    \/ CoderReports \/ Rewrite \/ (\E v \in Verdict : ReviewerWrites(v)) \/ AssigneeEnds
    \/ CaptureRequest \/ SetPolicy

Spec == Init /\ [][Next]_vars

---------------------------------------------------------------------------
(* What the life of a task promises.                                       *)

\* A task whose closure needs a review passes from in-review to done only on an
\* approving review of the very work its completion report delivers, under the
\* request evidence in force: whatever was rewritten, captured, prompted again
\* or forgotten since the reviewer wrote (run-task.md:128, move_task.py's guard
\* and report_action.py's binding together).
Closing == move = None /\ place = "in-review" /\ policy = "required"
Approved ==
    /\ review # None /\ review.verdict = "approve"
    /\ review.work = report /\ review.trace = trace
ClosedOnJudgedWork == [][Closing /\ move' # None /\ move'.to = "done" => Approved]_vars

\* Administrative recovery never moves a started task under a running assignee:
\* the .status marker it looks for outlives every writer, also one that a change
\* of the review policy left behind (move_task.py:244).
RecoveryFindsNoWriter ==
    move # None => (move.admin /\ place # "open" => live = None)
=============================================================================
