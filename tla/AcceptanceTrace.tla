-------------------------- MODULE AcceptanceTrace --------------------------
(***************************************************************************)
(* The upstream trace of one task that declares one: which confirmed       *)
(* requests each acceptance criterion answers, what the reviewer judged of *)
(* it, and whether that judgement still stands when the task closes and    *)
(* when the plan does.  The task and its specification are rewritten,      *)
(* requests are confirmed and revoked, and the block of records is edited  *)
(* while a reviewer works from a prompt that shows an earlier one.         *)
(*                                                                         *)
(* Criteria are texts, equal when their digests are.  The upstream         *)
(* identities are request excerpts of one precedence class; sources go     *)
(* through the same coverage code.  A block is in the normal form that     *)
(* parsing and the sort guards leave: one entry per ordinal, exempt when   *)
(* it claims nothing.  Bodies keep inside their byte bounds, the review    *)
(* approves and names its reviewer and its task.                           *)
(***************************************************************************)
EXTENDS Naturals, Sequences, FiniteSets

CONSTANTS Ids,        \* the request excerpts there can be
          SpecLists,  \* acceptance lists of the specification, no text twice
          TaskLists,  \* acceptance lists of the task, no text twice
          None,
          MaxEdits,   \* bound: edits by anyone
          LateEdits   \* whether the trace of a done task is still rewritten

VARIABLES contract,  \* the two acceptance lists as they stand
          inforce,   \* excerpts that reach the task
          block,     \* its ## Upstream trace section
          prompt,    \* what the review prompt shows, or None
          review,    \* the review with its determinations, or None
          done,      \* excerpts in force when the task closed, None before
          elsewhere, \* excerpts the plan's other tasks claim or waive
          ruling,    \* what decisions say of leaving an excerpt out of the plan
          closed,    \* the plan is closed
          edits

vars == <<contract, inforce, block, prompt, review, done, elsewhere, ruling, closed, edits>>

Members(s) == {s[i] : i \in DOMAIN s}
Scopes == {"no", "outside-scope", "governing-constraint"}

-----------------------------------------------------------------------------
(* Binding a block to the contract.                                        *)

Merged(b) == {m.text : m \in b.merges}

\* The ordinals: specification first, then what of the task is neither
\* merged away nor a restatement of the specification.
Material(c, b) ==
  c.spec \o SelectSeq(c.task, LAMBDA t : t \notin Merged(b) \cup Members(c.spec))

MergesBind(c, b) ==
  \A m \in b.merges :
    /\ m.text \in Members(c.task)
    /\ \A n \in b.merges : n.text = m.text => n = m
    /\ m.onto \in DOMAIN c.spec
    /\ m.text \notin Members(Material(c, b))
    /\ b.rows[m.onto].claims # {}

\* Mutant of Builds: ordinals are matched and digests are not.
BuildsByOrdinal(c, b) ==
  /\ b.rows # <<>> /\ c.spec \o c.task # <<>>
  /\ \A id \in b.waived : b.scope[id] = "no"
  /\ Len(b.rows) = Len(Material(c, b))
  /\ MergesBind(c, b)
  /\ b.disposed \subseteq DOMAIN b.rows

\* Every listed item is material or merged by construction of Material.
Builds(c, b) ==
  /\ b.rows # <<>> /\ c.spec \o c.task # <<>>
  /\ \A id \in b.waived : b.scope[id] = "no"
  /\ [i \in DOMAIN b.rows |-> b.rows[i].text] = Material(c, b)
  /\ MergesBind(c, b)
  /\ b.disposed \subseteq DOMAIN b.rows

Claimed(b) == UNION {b.rows[i].claims : i \in DOMAIN b.rows}
Scoped(b, how) == {id \in Ids : b.scope[id] = how}
Uncovered(b, f) == (f \ Claimed(b)) \ (b.waived \cup {id \in Ids : b.scope[id] # "no"})
Conflicts(b) == {i \in DOMAIN b.rows \ b.disposed : Cardinality(b.rows[i].claims) > 1}
ClosureFindings(b, f) ==
  (IF Conflicts(b) = {} THEN {} ELSE {"unresolved-source-conflict"})
  \cup (IF Uncovered(b, f) = {} THEN {} ELSE {"request-uncovered"})

\* The hashed body: trace records, X|, O| and A|, never W|.
Identity(b) == [b EXCEPT !.waived = {}]

-----------------------------------------------------------------------------
(* Judging a review.                                                       *)

Audits == [outcome : {"adequate", "needs changes", "unset"},
           gaps : {"none", "nit", "blocking"}, placed : BOOLEAN]

Coherent(a) ==
  /\ a.placed
  /\ \/ a.outcome = "adequate" /\ a.gaps # "blocking"
     \/ a.outcome = "needs changes" /\ a.gaps # "none"

\* A failed line blocks by itself, and a finding the body proves blocks when
\* no failed line answers for it.
Blockers(r, b, f) ==
  (IF r.sound THEN {} ELSE {"contract-quality"})
  \cup (IF r.identity = Identity(b) THEN {} ELSE {"trace-identity-mismatch"})
  \cup (IF DOMAIN b.rows \subseteq r.passed THEN {} ELSE {"acceptance-item-unmet"})
  \cup r.failed
  \cup ClosureFindings(b, f)

MayApprove == review # None /\ Builds(contract, block) /\ Blockers(review, block, inforce) = {}

-----------------------------------------------------------------------------
(* The plan's own account.                                                 *)

\* Mutant of OutOfPlan: any locked decision does.
OutOfPlanAnyVoice == {id \in Ids : ruling[id] # "none"}

\* Only a locked decision with operator authority puts a request out of plan.
OutOfPlan == {id \in Ids : ruling[id] = "operator"}

\* A trace that does not bind scopes nothing.
UnclaimedScoped ==
  IF ~ Builds(contract, block) THEN {}
  ELSE (Scoped(block, "outside-scope") \cap inforce) \ (Claimed(block) \cup block.waived \cup elsewhere)

-----------------------------------------------------------------------------
Contracts == [spec : SpecLists, task : TaskLists]
Texts == UNION {Members(s) : s \in SpecLists \cup TaskLists}
Merges(c) == {[onto |-> i, text |-> t] : i \in DOMAIN c.spec, t \in Members(c.task)}
NoScope == [id \in Ids |-> "no"]

\* compose_records: the mapping as claims of each text, rendered in order.
Composed(c, claims, merges, disposed, scope, waived) ==
  LET at == Material(c, [merges |-> merges])
  IN  [rows |-> [i \in DOMAIN at |-> [text |-> at[i], claims |-> claims[at[i]]]],
       merges |-> merges, disposed |-> disposed, scope |-> scope, waived |-> waived]

\* What the task is dispatched with: readiness passed, nothing uncovered and
\* no conflict left open.
Authored(c, f) ==
  {b \in {Composed(c, claims, merges, disposed, scope, waived) :
            claims \in [Texts -> SUBSET f],
            merges \in {{}} \cup {{m} : m \in Merges(c)}, disposed \in SUBSET (1 .. 1),
            scope \in [Ids -> Scopes], waived \in SUBSET f} :
     /\ Builds(c, b) /\ ClosureFindings(b, f) = {}
     /\ \A i \in b.disposed : Cardinality(b.rows[i].claims) > 1
     /\ \A id \in Ids : (b.scope[id] # "no" => id \in f \ Claimed(b)) /\ (id \in b.waived => id \notin Claimed(b))}

Init ==
  /\ contract \in Contracts /\ inforce \in SUBSET Ids \ {{}}
  /\ block \in Authored(contract, inforce)
  /\ prompt = None /\ review = None /\ done = None
  /\ elsewhere = {} /\ ruling = [id \in Ids |-> "none"] /\ closed = FALSE /\ edits = 0

Edit == ~ closed /\ edits < MaxEdits /\ edits' = edits + 1
Editable == Edit /\ (done = None \/ LateEdits)

\* write-task or write-spec changes an acceptance list.
EditContract ==
  /\ Editable
  /\ \E c \in Contracts \ {contract} : contract' = c
  /\ UNCHANGED <<inforce, block, prompt, review, done, elsewhere, ruling, closed>>

\* The manager edits one record of the block by hand.
EditBlock ==
  /\ Editable
  /\ \/ \E i \in DOMAIN block.rows, s \in SUBSET Ids : block' = [block EXCEPT !.rows[i].claims = s]
     \/ \E i \in DOMAIN block.rows, d \in {TRUE, FALSE} :
          block' = [block EXCEPT !.disposed = IF d THEN @ \cup {i} ELSE @ \ {i}]
     \/ \E id \in Ids, k \in Scopes : block' = [block EXCEPT !.scope[id] = k]
     \/ \E id \in Ids, d \in {TRUE, FALSE} :
          block' = [block EXCEPT !.waived = IF d THEN @ \cup {id} ELSE @ \ {id}]
  /\ block' # block
  /\ UNCHANGED <<contract, inforce, prompt, review, done, elsewhere, ruling, closed>>

\* acceptance-trace --compose-from: the manager keeps the mapping and answers
\* for the texts it did not have.
Recompose ==
  /\ Editable
  /\ \E new \in SUBSET Ids, merges \in {{}} \cup {{m} : m \in Merges(contract)} :
       LET had(t) == {i \in DOMAIN block.rows : block.rows[i].text = t}
           claims == [t \in Texts |-> IF had(t) = {} THEN new
                                      ELSE UNION {block.rows[i].claims : i \in had(t)}]
           b == Composed(contract, claims, merges, {}, block.scope, block.waived)
           open == Conflicts(b)
       IN  Builds(contract, b) /\ block' = [b EXCEPT !.disposed = open]
  /\ UNCHANGED <<contract, inforce, prompt, review, done, elsewhere, ruling, closed>>

\* A request is confirmed for the task, or revoked.
ChangeInForce ==
  /\ Edit
  /\ \E id \in Ids : inforce' = IF id \in inforce THEN inforce \ {id} ELSE inforce \cup {id}
  /\ UNCHANGED <<contract, block, prompt, review, done, elsewhere, ruling, closed>>

\* write-prompt for the review: the provenance block and the review skeleton
\* of the trace as it binds now, or no prompt.
WritePrompt ==
  /\ done = None /\ Builds(contract, block)
  /\ prompt' = [identity |-> Identity(block), criteria |-> Material(contract, block),
                uncovered |-> Uncovered(block, inforce)]
  /\ prompt' # prompt
  /\ UNCHANGED <<contract, inforce, block, review, done, elsewhere, ruling, closed, edits>>

\* The reviewer fills the skeleton of its prompt: it passes every criterion
\* or leaves the last one out, and fails the task line or not.
Review ==
  /\ prompt # None /\ done = None /\ review = None
  /\ \E sound \in {Coherent(a) : a \in Audits}, short \in BOOLEAN, fail \in BOOLEAN :
       /\ fail => prompt.uncovered # {}
       /\ review' = [identity |-> prompt.identity, criteria |-> prompt.criteria, sound |-> sound,
                     passed |-> DOMAIN prompt.criteria \ (IF short THEN {Len(prompt.criteria)} ELSE {}),
                     failed |-> IF fail THEN {"request-uncovered"} ELSE {}]
  /\ UNCHANGED <<contract, inforce, block, prompt, done, elsewhere, ruling, closed, edits>>

\* The review is sent back: its reviewer starts over from a new prompt.
SendBack ==
  /\ review # None /\ done = None /\ ~ MayApprove
  /\ review' = None /\ prompt' = None
  /\ UNCHANGED <<contract, inforce, block, done, elsewhere, ruling, closed, edits>>

\* move-task in-review -> done on an approving review.
Approve ==
  /\ done = None /\ MayApprove
  /\ done' = inforce
  /\ UNCHANGED <<contract, inforce, block, prompt, review, elsewhere, ruling, closed, edits>>

\* Another task's trace claims the excerpt, or no longer does.  Nothing asks
\* before the task is done.
OthersClaim ==
  /\ Edit /\ done # None
  /\ \E id \in Ids : elsewhere' = IF id \in elsewhere THEN elsewhere \ {id} ELSE elsewhere \cup {id}
  /\ UNCHANGED <<contract, inforce, block, prompt, review, done, ruling, closed>>

\* A decision with an Out-of-plan request line is recorded, by the manager or
\* with the operator's authority; or it is superseded.  Nothing asks before
\* the task is done.
Decide ==
  /\ Edit /\ done # None
  /\ \E id \in Ids, r \in {"none", "pm", "operator"} : r # ruling[id] /\ ruling' = [ruling EXCEPT ![id] = r]
  /\ UNCHANGED <<contract, inforce, block, prompt, review, done, elsewhere, closed>>

\* close-audit finds nothing against it and the plan is closed.
ClosePlan ==
  /\ ~ closed /\ done # None /\ UnclaimedScoped \subseteq OutOfPlan
  /\ closed' = TRUE
  /\ UNCHANGED <<contract, inforce, block, prompt, review, done, elsewhere, ruling, edits>>

Stopped == (closed \/ edits = MaxEdits) /\ UNCHANGED vars

Next == \/ EditContract \/ EditBlock \/ Recompose \/ ChangeInForce \/ WritePrompt \/ Review
        \/ SendBack \/ Approve \/ OthersClaim \/ Decide \/ ClosePlan \/ Stopped

Spec == Init /\ [][Next]_vars

-----------------------------------------------------------------------------
\* What the reviewer saw of an excerpt: a criterion that answers it, or an
\* applicability record that says it constrains the work.
Judged == Claimed(review.identity) \cup Scoped(review.identity, "governing-constraint")

\* A task closes on the criteria its reviewer was shown, each judged, with
\* the claims, exemptions and scopes they had then, whatever was edited in
\* between (evaluate_closure against the trace as it binds at the move).
ClosedAsJudged ==
  [][done = None /\ done' # None =>
       /\ review.criteria = Material(contract, block)
       /\ DOMAIN review.criteria = review.passed
       /\ \A i \in DOMAIN block.rows : block.rows[i] = review.identity.rows[i]
       /\ inforce \subseteq Judged \cup Scoped(review.identity, "outside-scope") \cup block.waived]_vars

\* A request in force when the task closed is not lost with the plan: a judged
\* criterion or constraint answers it, another task claims it, it was waived,
\* or the operator ruled it out (unclaimed_scoped_excerpts in close-audit).
IntentKept ==
  closed => \A id \in done \cap inforce :
              id \in Judged \cup elsewhere \cup block.waived \/ ruling[id] = "operator"
=============================================================================
