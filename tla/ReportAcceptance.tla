-------------------------- MODULE ReportAcceptance --------------------------
(***************************************************************************)
(* What becomes of a report when its handoff has ended: validate-report    *)
(* names every defect with its class, correct-report lets the project      *)
(* manager repair the mechanical ones in place, report-action routes the   *)
(* task.  Three readers of one file, which the producer may still rewrite  *)
(* while the retained review, the task's directory and the request context *)
(* the prompt is bound to move on their own.                               *)
(*                                                                         *)
(* A report is the record of the tokens these readers tell apart; two      *)
(* reports have one content identity exactly when they are equal.  The     *)
(* project captures requests (no legacy context) and requires review of    *)
(* closures, paths resolve inside it, the numbering guard passes.          *)
(***************************************************************************)
EXTENDS Naturals, Sequences, FiniteSets

CONSTANTS Slots,      \* the slots looked at, of "task" and "review"
          ClaimLists, \* the lists of unverified claims a producer may write
          None,
          MaxWorld    \* bound: rewrites, moves and new requests

VARIABLES slot,    \* "task": REPORT-NN-NNN.md, "review": REPORT-NN-NNN-review.md
          report,  \* the bytes at the slot, or None
          review,  \* the retained REVIEW file, or None
          task,    \* directory of the task, or None when there is none
          guidance,\* the source guidance that governs the task
          context, \* identity of the current request context
          prompt,  \* the context the review prompt is bound to
          job,     \* a judged correction that has not landed, or None
          world    \* counts what the others did

vars == <<slot, report, review, task, guidance, context, prompt, job, world>>

Places == {"in-progress", "in-review"}
Statuses == {"complete", "blocked", "other"}  \* other: no token of the grammar
Contexts == 1 .. 2
Guidances == {"sourced", "none", "invalid"}

-----------------------------------------------------------------------------
(* What a producer writes.                                                 *)

Reviews == [verdict : {"approve", "request-changes"},
            context : Contexts \cup {None}, findings : BOOLEAN]

NoClaim == [claim |-> None, weight |-> "none"]

\* What following the skeleton of the prompt leads to.
Faithful ==
  IF slot = "task"
  THEN [heads |-> "right", status |-> "complete", ready |-> "yes",
        claims |-> <<NoClaim>>, sources |-> TRUE]
  ELSE [heads |-> "right", status |-> "complete", verdict |-> "approve",
        align |-> "aligned", context |-> prompt, ids |-> "exact",
        place |-> "in-review", prompt |-> "exact"]

\* align: the request alignment, "misquoted" with other evidence than bound.
Tokens == [heads |-> {"right", "misnamed"}, status |-> Statuses,
           ready |-> {"yes", "no", "unfilled"}, claims |-> ClaimLists, sources |-> BOOLEAN,
           verdict |-> {"approve", "request-changes", "other"},
           align |-> {"aligned", "misquoted", "drifted", "none"},
           context |-> Contexts \cup {None}, ids |-> {"exact", "wrong", "none"},
           place |-> Places, prompt |-> {"exact", "other"}]

Vary(S) == UNION {{[r EXCEPT ![f] = v] : v \in Tokens[f]} : r \in S, f \in DOMAIN Faithful}

\* Bound: at most two tokens off.
Writable == Vary(Vary({Faithful}))

-----------------------------------------------------------------------------
(* Reading a report.                                                       *)

Mixed(rows) == NoClaim \in {rows[i] : i \in DOMAIN rows} /\ Len(rows) > 1
Unreadable(rows) == {i \in DOMAIN rows : rows[i].weight = "unreadable"}

ClaimClasses(rows) ==
  IF rows = <<>> \/ Mixed(rows) THEN {"mechanical"}
  ELSE (IF Unreadable(rows) = {} THEN {} ELSE {"mechanical"})
       \cup (IF \E i \in DOMAIN rows : rows[i].weight = "decisive" THEN {"substantive"} ELSE {})

\* sources stands for the authoritative sources and the conflict resolution.
SourceClasses(r) == IF r.sources THEN {} ELSE {"substantive"}

\* Classes of the blockers of a completion report's source evidence.
EvidenceClasses(r) ==
  CASE guidance = "invalid" -> {"missing-input"}
    [] guidance = "none" -> {}
    [] guidance = "sourced" -> SourceClasses(r) \cup ClaimClasses(r.claims)

SchemaOk(r) == r.heads = "right" /\ (slot = "review" => r.ids # "none")
Contradicts(r) == r.status = "blocked" /\ r.ready = "yes"

\* The prompt's binding is recomputed when the report is read.
Bound(r) == r.prompt = "exact" /\ task = r.place /\ prompt = context
BoundContext(r) == IF Bound(r) THEN context ELSE None
AlignmentBlocks(r) == ~Bound(r) \/ r.align # "aligned"

\* How a complete review report disagrees with the retained review.
BindingDefects(r) ==
  IF review = None THEN {"missing-input"}
  ELSE UNION {
    IF r.context = review.context THEN {}
    ELSE IF review.context # None /\ review.context = BoundContext(r)
         THEN {"mechanical"} ELSE {"substantive"},
    IF BoundContext(r) # None /\ review.context # BoundContext(r) THEN {"substantive"} ELSE {},
    IF review.verdict # r.verdict THEN {"substantive"} ELSE {}}

-----------------------------------------------------------------------------
(* validate-report: the failed checks, each with its class.                *)

Failed(holds, name, class) == IF holds THEN {[check |-> name, class |-> class]} ELSE {}

Worst(classes) == IF "substantive" \in classes THEN "substantive"
                  ELSE IF "missing-input" \in classes THEN "missing-input" ELSE "mechanical"

EvidenceFailures(r) ==
  IF r.status # "complete" THEN {}
  ELSE IF task = None THEN Failed(TRUE, "evidence", "missing-input")
  ELSE {[check |-> "evidence", class |-> c] : c \in EvidenceClasses(r)}

TaskFailures(r) ==
  UNION {Failed(r.heads # "right", "sections", "mechanical"),
         Failed(r.status = "other", "status", "mechanical"),
         Failed(r.ready = "unfilled", "readiness", "mechanical"),
         Failed(Contradicts(r), "consistency", "substantive"),
         EvidenceFailures(r)}

\* Identity values that are not the machine's; a task that is not there has none.
StrayPaths(r) == \/ r.ids # "exact" \/ r.prompt # "exact" \/ review = None
                 \/ task # None /\ r.place # task

\* Mutant: only an approval is held against the retained review.
ReachesReviewApproving(r) == SchemaOk(r) /\ r.status = "complete" /\ r.verdict = "approve"

\* The retained review is asked for exactly when routing would come to it.
ReachesReview(r) == SchemaOk(r) /\ r.status = "complete"

ReviewFailures(r) ==
  LET bind == IF ReachesReview(r) /\ r.verdict # "other" THEN BindingDefects(r) ELSE {}
  IN UNION {
    Failed(r.heads # "right", "sections", "mechanical"),
    Failed(r.ids = "none", "keys", "mechanical"),
    Failed(r.status = "other", "status", "mechanical"),
    Failed(r.status = "complete" /\ r.verdict = "other", "verdict", "mechanical"),
    Failed(StrayPaths(r), "identity", "mechanical"),
    Failed(AlignmentBlocks(r), "alignment",
           IF Bound(r) /\ r.align = "drifted" THEN "substantive" ELSE "mechanical"),
    Failed(bind # {}, "binding", Worst(bind)),
    Failed(ReachesReview(r) /\ review # None /\ review.verdict # "approve" /\ ~review.findings,
           "findings", "substantive")}

Failures(r) == IF slot = "task" THEN TaskFailures(r) ELSE ReviewFailures(r)
Validates(r) == Failures(r) = {}

-----------------------------------------------------------------------------
(* report-action.                                                          *)

Outcome(verdict) == IF verdict = "approve" THEN "accepted" ELSE "changes-requested"

ParsedVerdict(r) ==
  IF ~SchemaOk(r) \/ r.status = "other" THEN "failed-to-parse"
  ELSE IF r.status = "blocked"
       THEN IF slot = "task" /\ Contradicts(r) THEN "failed-to-parse" ELSE "blocked"
  ELSE IF slot = "task" THEN "accepted"
  ELSE IF r.verdict = "other" THEN "failed-to-parse" ELSE Outcome(r.verdict)

RoutedVerdict(r) ==
  LET blocked == IF slot = "review" THEN AlignmentBlocks(r)
                 ELSE task # None /\ EvidenceClasses(r) # {}
  IN  IF ParsedVerdict(r) = "accepted" /\ blocked THEN "failed-to-parse" ELSE ParsedVerdict(r)

PathMismatch(r) ==
  /\ RoutedVerdict(r) # "failed-to-parse"
  /\ r.ids # "exact" \/ r.prompt # "exact" \/ review = None \/ task = None \/ r.place # task

\* A complete review report that the retained review does not bear out.
Refused(r) ==
  /\ slot = "review" /\ r.status = "complete"
  /\ ~(SchemaOk(r) /\ r.verdict = "other")  \* the status is then not read as valid
  /\ ~SchemaOk(r) \/ PathMismatch(r) \/ BindingDefects(r) # {}

Target(r) ==
  IF Refused(r) \/ RoutedVerdict(r) = "failed-to-parse" THEN "nowhere"
  ELSE IF slot = "review"
       THEN CASE RoutedVerdict(r) = "accepted" -> "done"
              [] RoutedVerdict(r) = "changes-requested" -> "in-progress"
              [] OTHER -> "in-review"
  ELSE IF RoutedVerdict(r) = "accepted" /\ r.ready = "yes" THEN "in-review"
  ELSE IF RoutedVerdict(r) = "accepted" /\ r.ready = "unfilled" THEN "nowhere"
  ELSE "in-progress"

-----------------------------------------------------------------------------
(* correct-report.                                                         *)

\* The tokens a failed check opens.  Claims are opened row by row, below.
Opens(r, check) ==
  {f \in DOMAIN r :
     \/ f = "status" /\ check = "status"
     \/ f = "align" /\ check = "alignment"
     \/ f = "heads" /\ check = "sections"
     \/ f = "ids" /\ check = "keys"
     \/ f \in {"ids", "prompt"} /\ check = "identity" /\ r[f] # "exact"
     \/ f = "place" /\ check = "identity" /\ task \notin {None, r.place}
     \/ f = "verdict" /\ check = "verdict"
     \/ f = "ready" /\ check = "readiness"
     \/ f = "context" /\ check = "binding"}

Authorized(r) == UNION {Opens(r, x.check) : x \in Failures(r)}

\* new is old without the rows that say none.
OnlyClaims(old, new) ==
  \E at \in [DOMAIN new -> {i \in DOMAIN old : old[i] # NoClaim}] :
    /\ \A i \in DOMAIN old : old[i] # NoClaim => \E k \in DOMAIN new : at[k] = i
    /\ \A k \in DOMAIN new : new[k] = old[at[k]] /\ \A l \in DOMAIN new : l < k => at[l] < at[k]

\* Each unreadable row for another row; or the rows that say none, beside
\* others, deleted; an absent list is not the manager's to write.
ClaimsRepaired(old, new) ==
  IF Mixed(old)
  THEN new = old \/ OnlyClaims(old, new)
  ELSE /\ old # <<>> /\ Len(new) = Len(old)
       /\ \A i \in DOMAIN old \ Unreadable(old) : new[i] = old[i]

Confined(r, new) ==
  /\ LET open == Authorized(r)
     IN  \A f \in DOMAIN r \ {"claims"} : new[f] # r[f] => f \in open
  /\ new.heads \in {r.heads, "right"}
  /\ slot = "task" => \/ new.claims = r.claims
                      \/ /\ \E x \in Failures(r) : x.check = "evidence"
                         /\ ClaimsRepaired(r.claims, new.claims)

\* Mechanical defects only, and every one an exact edit.
Correctable(r) ==
  /\ Failures(r) # {} /\ \A x \in Failures(r) : x.class = "mechanical"
  /\ (\E x \in Failures(r) : x.check = "evidence") => r.claims # <<>>

Admits(r, new) ==
  /\ r.status # "other" => new.status = r.status
  /\ new # r /\ Validates(new)
  /\ Confined(r, new)

-----------------------------------------------------------------------------
(* Actions.                                                                *)

Init == /\ slot \in Slots /\ report = None /\ job = None /\ world = 0 /\ context = 1 /\ prompt = 1
        /\ IF slot = "task" THEN review = None /\ task = "in-progress" /\ guidance \in Guidances
           ELSE review \in Reviews \cup {None} /\ task = "in-review" /\ guidance = "none"

Count == world < MaxWorld /\ world' = world + 1

\* The producer publishes, or publishes again.
WriteReport ==
  /\ report' \in Writable \ {report}
  /\ IF report = None THEN UNCHANGED world ELSE Count
  /\ UNCHANGED <<slot, review, task, guidance, context, prompt, job>>

WriteReview ==
  /\ slot = "review" /\ Count
  /\ review' \in {v \in Reviews : v.context = prompt} \ {review}
  /\ UNCHANGED <<slot, report, task, guidance, context, prompt, job>>

MoveTask ==
  /\ Count /\ task' \in (Places \cup {None}) \ {task} /\ task # None
  /\ UNCHANGED <<slot, report, review, guidance, context, prompt, job>>

\* A later request changes the context; the prompt is bound to it in its turn.
AddRequest ==
  /\ slot = "review" /\ Count /\ context < 2 /\ context' = context + 1
  /\ UNCHANGED <<slot, report, review, task, guidance, prompt, job>>

BindPrompt ==
  /\ prompt # context /\ prompt' = context
  /\ UNCHANGED <<slot, report, review, task, guidance, context, job, world>>

\* correct-report up to the write: it read report once and judged those bytes.
Judge ==
  /\ job = None /\ report # None /\ Correctable(report)
  /\ \E new \in Writable : Admits(report, new) /\ job' = [from |-> report, to |-> new]
  /\ UNCHANGED <<slot, report, review, task, guidance, context, prompt, world>>

\* Mutant: whatever is there is replaced.
LandBlindly ==
  /\ job # None /\ job' = None
  /\ report' = job.to
  /\ UNCHANGED <<slot, review, task, guidance, context, prompt, world>>

\* The mediated write compares the bytes it replaces.
Land ==
  /\ job # None /\ job' = None
  /\ report' = IF report = job.from THEN job.to ELSE report
  /\ UNCHANGED <<slot, review, task, guidance, context, prompt, world>>

\* validate-report and report-action (whose records beside the answer, the
\* preserved review and a clarification, are not kept here) change nothing.
Read == report # None /\ UNCHANGED vars

Next == Read \/ WriteReport \/ WriteReview \/ MoveTask \/ AddRequest \/ BindPrompt \/ Judge \/ Land

-----------------------------------------------------------------------------
(* Properties.                                                             *)

\* The validator and the router, two programs over one report, agree: what
\* validates is neither refused nor taken for unreadable by report-action,
\* and nothing closes a task or sends it to review that does not validate
\* (validate_report.py:434, "never refused by routing").
ReadersAgree ==
  report # None =>
    /\ Validates(report) => ~Refused(report) /\ RoutedVerdict(report) # "failed-to-parse"
    /\ Target(report) = "done" => Validates(report)
    /\ Target(report) = "in-review" /\ slot = "task" /\ task # None => Validates(report)

\* Judgements the producer did express: tokens of the grammar, complete rows.
Said(r) ==
  {<<f, r[f]>> : f \in DOMAIN r \cap {"status", "verdict", "ready", "sources"}}
     \ ({"status", "verdict", "ready"} \X {"other", "unfilled"})

Claimed(r) == {r.claims[i] : i \in {j \in DOMAIN r.claims :
                                      r.claims[j].weight \in {"minor", "decisive"}}}

\* A correction by the manager leaves every judgement that the producer put
\* in readable form as it was, however the producer's own rewrites, the
\* retained review, the task and the request context move between the
\* judging and the writing (correct_report.py, "preserves every unaffected span").
CorrectionKeeps ==
  [][job # None /\ job' = None =>
       /\ Said(report) \subseteq Said(report')
       /\ slot = "task" => Claimed(report) \subseteq Claimed(report')]_vars

\* A drift that the reviewer recorded stays recorded
\* (validate_report.py, "not a formatting fix").
DriftKept ==
  [][job # None /\ job' = None /\ report.align = "drifted"
       => report'.align = "drifted"]_vars

=============================================================================
