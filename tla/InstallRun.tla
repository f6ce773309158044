----------------------------- MODULE InstallRun -----------------------------
(***************************************************************************)
(* The install and update workflow (cli/install_workflow.py) over one       *)
(* install root: invocations plan on what they read, take the lease of      *)
(* InstallLease, read again, gate, preserve the record they are about to    *)
(* replace, persist each mutation's intent before it and verified evidence  *)
(* after it, and advance the terminal markers last.  An invocation may die  *)
(* between any two steps, and one that waits for the lease works from a     *)
(* plan that others have overtaken.                                         *)
(*                                                                         *)
(* The contents of a tool target is the number of the source it was copied  *)
(* from.  One operator-owned surface ("reg") stands for bridges, client     *)
(* registrations and intake hooks, each changed by one atomic write and     *)
(* only if the operator authorised it.  Restart state, migration offers,    *)
(* seeded operator files and symbolic links are left out.                   *)
(***************************************************************************)
EXTENDS InstallLease, Sequences, SequencesExt

CONSTANTS Rows,       \* the tool targets in the order apply replaces them
          SurfaceOf,  \* the surface each belongs to
          NSource,    \* sources the operator installs from: 1..NSource
          Faults      \* bound on the system errors of all mutations together

Target  == Range(Rows)
Tool    == {SurfaceOf[t] : t \in Target}
Surface == Tool \cup {"reg"}
Source  == 1..NSource

ASSUME InstallAssumption ==
    /\ NSource \in Nat \ {0} /\ Faults \in Nat
    /\ Rows \in Seq(Target) /\ DOMAIN SurfaceOf = Target
    /\ "reg" \notin Tool /\ None \notin Surface

VARIABLES
    tool,     \* the contents of each target, 0 when it is absent
    backup,   \* the contents of its .cartopian-backup, 0 when there is none
    reg,      \* the client registration is current
    rec,      \* install-update-progress.json
    quar,     \* install-update-progress.quarantine.json
    mirror,   \* the visible state file
    plan,     \* what each invocation planned
    job,      \* its work under the lease
    cur,      \* its envelope in memory
    faults    \* system errors so far

disk == <<tool, backup, reg, rec, quar, mirror>>
runVars == <<plan, job, cur, faults>>
vars == <<leaseVars, disk, runVars>>

Choice  == {"none", "offered", "authorized", "declined"}
RowState == {"pending", "open", "done", "undone", "torn"}
Outcome  == {"complete", "repair-offered", "blocked"}
\* The run marker hashes the source, the observations and the choices.
Marker   == [src : Source, obs : [Target -> 0..NSource], reg : BOOLEAN, choice : Choice]
\* `by' is history: whose envelope it is.  `sound' is false when a completed
\* checkpoint lacks its evidence; `note' is whether recovery.quarantined_identity
\* is the digest of the quarantine file.
Envelope == [mk : Marker, by : Proc \cup {Dead}, sound : BOOLEAN,
             bnd : Surface \cup {None}, row : [Surface -> RowState],
             schema : BOOLEAN, compl : BOOLEAN, clean : BOOLEAN,
             note : {"none", "match", "other"}]
Unusable == {"none", "corrupt", "newer"}
Record   == Envelope \cup {[kind |-> k] : k \in Unusable}
IsEnv(r) == "kind" \notin DOMAIN r
NoRec    == [kind |-> "none"]

NoMark == [src |-> 1, obs |-> [t \in Target |-> 1], reg |-> FALSE, choice |-> "none"]
NoPlan == [mk |-> NoMark, ack |-> {}]
NoJob  == [at |-> "reread", n |-> 1, mut |-> "none", note |-> "none",
           row |-> [s \in Surface |-> "pending"]]
Jobs   == {"reread", "quarantine", "preserve", "begin", "open", "swap", "put", "drop", "reg",
           "failmirror", "failrecord", "verify", "commit", "completion", "mirror", "sweep", "clean"}

-----------------------------------------------------------------------------
\* What a record says.

\* read_progress: what a record is when taken by itself.
Intrinsic(r) ==
    IF IsEnv(r) THEN IF r.sound THEN "compatible" ELSE "evidence-missing"
    ELSE IF r.kind = "none" THEN "absent" ELSE r.kind

\* The versions a record lists say whether content was installed.
Claims(r) == r.schema \/ \E t \in Target : r.mk.obs[t] # 0

\* _classify_compatibility, of a record against the marker of a plan.  Under the
\* lease the invocation's own lease is no evidence of another.
Compat(r, mk) ==
    IF Intrinsic(r) # "compatible" THEN Intrinsic(r)
    ELSE IF r.mk.src # mk.src THEN "source-mismatch"
    ELSE IF Claims(r) /\ \A t \in Target : tool[t] = 0 THEN "orphaned"
    ELSE IF r.mk = mk THEN "compatible"
    ELSE IF ~r.compl /\ r.bnd # None THEN "run-conflict"
    ELSE "stale"

Reusable == {"compatible", "stale"}
PreserveBeforeReplacement == {"source-mismatch", "run-conflict", "orphaned"}

\* Surfaces where work was begun and not verified: the open boundary, whoever
\* opened it, and the checkpoints in progress.
Open(r) == IF IsEnv(r) THEN {s \in Surface : r.bnd = s \/ r.row[s] = "open"} ELSE {}

\* assess_resume: what may not be replayed uninspected.  A replacement that
\* failed half-way counts only in a record that may still be used.
Uncertain(r, c) ==
    Open(r) \cup (IF IsEnv(r) /\ c \in Reusable THEN {s \in Surface : r.row[s] = "torn"} ELSE {})

Began(p) ==
    [mk |-> plan[p].mk, by |-> p, sound |-> TRUE, bnd |-> None,
     row |-> [s \in Surface |-> "pending"], schema |-> FALSE, compl |-> FALSE,
     clean |-> FALSE, note |-> job[p].note]

\* A record from before: interrupted, or with a checkpoint without evidence.
Old(sound, bnd) ==
    [mk |-> NoMark, by |-> Dead, sound |-> sound, bnd |-> bnd,
     row |-> [s \in Surface |-> IF sound THEN "pending" ELSE "done"], schema |-> FALSE,
     compl |-> FALSE, clean |-> FALSE, note |-> "none"]

Init ==
    /\ LeaseInit
    /\ \E c \in 0..1 : tool = [t \in Target |-> c]
    /\ backup = [t \in Target |-> 0]
    /\ reg \in BOOLEAN
    /\ rec \in {[kind |-> k] : k \in Unusable}
               \cup {Old(TRUE, s) : s \in Tool} \cup {Old(FALSE, None)}
    /\ quar = NoRec /\ mirror = NoRec
    /\ plan = [p \in Proc |-> NoPlan]
    /\ job = [p \in Proc |-> NoJob]
    /\ cur = [p \in Proc |-> NoRec]
    /\ faults = 0

-----------------------------------------------------------------------------
\* Planning, which writes nothing.

\* _source_bound_envelope, _prior_declined_contexts: an answer given to the same
\* source is carried.
Carried(src) ==
    \/ IsEnv(rec) /\ rec.sound /\ rec.mk.src = src /\ rec.mk.choice = "declined"
    \/ IsEnv(mirror) /\ mirror.mk.src = src /\ mirror.mk.choice = "declined"

Answers(src) ==
    IF reg THEN {"none"}
    ELSE {"authorized", "declined"} \cup (IF Carried(src) THEN {} ELSE {"offered"})

\* The run marker binds the source, what was observed and what was answered.
MarkerFor(src, c) == [src |-> src, obs |-> tool, reg |-> reg, choice |-> c]

\* The gates of apply_workflow that judge the plan alone: a newer record stops
\* it, and so does uncertain work that the operator did not inspect.
PlanGate(mk, ack) == Intrinsic(rec) # "newer" /\ Uncertain(rec, Compat(rec, mk)) \subseteq ack

Plan(p) ==
    /\ Begin(p)
    /\ \E src \in Source : \E c \in Answers(src) :
         LET mk == MarkerFor(src, c)
             ack == Uncertain(rec, Compat(rec, mk))
         IN  PlanGate(mk, ack) /\ plan' = [plan EXCEPT ![p] = [mk |-> mk, ack |-> ack]]
    /\ UNCHANGED <<disk, job, cur, faults>>

\* What an invocation held in memory goes with it.
Forget(p) ==
    IF step'[p] \in Ended
    THEN /\ plan' = [plan EXCEPT ![p] = NoPlan]
         /\ job' = [job EXCEPT ![p] = NoJob]
         /\ cur' = [cur EXCEPT ![p] = NoRec]
    ELSE UNCHANGED <<plan, job, cur>>

\* acquire_lease, release_lease.
LeaseCall(p) ==
    /\ LeaseStep(p)
    /\ Forget(p)
    /\ UNCHANGED <<disk, faults>>

\* A change of the invocation's own progress.
Working(p, at)  == step[p] = "held" /\ job[p].at = at
Then(p, at)     == job' = [job EXCEPT ![p].at = at] /\ UNCHANGED leaseVars
GiveUp(p)       == Finish(p) /\ job' = [job EXCEPT ![p] = NoJob]
Goes(p, j)     == job' = [job EXCEPT ![p] = j] /\ UNCHANGED leaseVars

\* _persist: nothing is written once the lease is not the invocation's own.
Persist(p, e) == Guard(p) /\ rec' = e /\ cur' = [cur EXCEPT ![p] = e]
Lost(p)       == ~Guard(p) /\ UNCHANGED <<rec, cur>>

\* carry_preserved_evidence: an occupied slot stays accounted for.
CarriedNote == IF quar = NoRec THEN "none" ELSE "match"

\* Mutant: the uncertain work is asked for before the lease only.
GatePlanned(p, c) == c # "newer"

\* _gate_post_lease_resume: a boundary that was not inspected, whoever left it.
Gate(p, c) == c # "newer" /\ Uncertain(rec, c) \subseteq plan[p].ack

\* Reread under the lease, and every gate again on what is really there.
Reread(p) ==
    /\ Working(p, "reread")
    /\ LET c == Compat(rec, plan[p].mk) IN
       IF ~Gate(p, c) THEN GiveUp(p)
       ELSE IF c \in {"corrupt", "evidence-missing"} THEN Then(p, "quarantine")
       ELSE IF c \in PreserveBeforeReplacement THEN Then(p, "preserve")
       ELSE Goes(p, [job[p] EXCEPT !.at = "begin", !.note = CarriedNote])
    /\ UNCHANGED <<disk, plan, cur, faults>>

\* quarantine_progress notes the digest it read; a record that parses is then
\* relabelled, and one that finds the slot taken is dropped.
Quarantine(p) ==
    /\ Working(p, "quarantine")
    /\ rec' = NoRec
    /\ quar' = IF quar = NoRec THEN rec ELSE quar
    /\ Goes(p, [job[p] EXCEPT !.at = "begin",
                 !.note = IF quar = NoRec /\ ~IsEnv(rec) THEN "match" ELSE "other"])
    /\ UNCHANGED <<tool, backup, reg, mirror, plan, cur, faults>>

\* preserve_progress: only a record that commits to the occupant replaces it.
Occupied == quar # NoRec /\ rec # NoRec /\ rec.note # "match"

Preserve(p) ==
    /\ Working(p, "preserve")
    /\ IF Occupied THEN GiveUp(p) /\ UNCHANGED <<rec, quar>>
       ELSE IF rec = NoRec THEN UNCHANGED <<rec, quar>> /\ Goes(p, [job[p] EXCEPT !.at = "begin", !.note = CarriedNote])
       ELSE /\ quar' = rec /\ rec' = NoRec
            /\ Goes(p, [job[p] EXCEPT !.at = "begin", !.note = "match"])
    /\ UNCHANGED <<tool, backup, reg, mirror, plan, cur, faults>>

BeginProgress(p) ==
    /\ Working(p, "begin")
    /\ \/ Persist(p, Began(p)) /\ Then(p, "open")
       \/ Lost(p) /\ GiveUp(p)
    /\ UNCHANGED <<tool, backup, reg, quar, mirror, plan, faults>>

-----------------------------------------------------------------------------
\* The mutations.

Row(p) == Rows[job[p].n]

\* A surface is worked on when the plan found it different.
Affected(p, s) == \E t \in Target : SurfaceOf[t] = s /\ plan[p].mk.obs[t] # plan[p].mk.src

FirstRow(n) == n = 1 \/ SurfaceOf[Rows[n - 1]] # SurfaceOf[Rows[n]]

OpenedAt(p, s) == [cur[p] EXCEPT !.bnd = s, !.row[s] = "open"]

\* open_boundary, before the first row of an affected surface.  A lost lease is
\* not one of the failures apply records.
OpenRow(p) ==
    /\ Working(p, "open") /\ job[p].n <= Len(Rows)
    /\ LET s == SurfaceOf[Row(p)] IN
       IF ~Affected(p, s) THEN Goes(p, [job[p] EXCEPT !.n = @ + 1]) /\ UNCHANGED <<rec, cur>>
       ELSE IF ~FirstRow(job[p].n) THEN Then(p, "swap") /\ UNCHANGED <<rec, cur>>
       ELSE \/ Persist(p, OpenedAt(p, s)) /\ Then(p, "swap")
            \/ Lost(p) /\ GiveUp(p)
    /\ UNCHANGED <<tool, backup, reg, quar, mirror, plan, faults>>

Fail(p, mut) == Goes(p, [job[p] EXCEPT !.at = "failmirror", !.mut = mut])
Fault == faults < Faults /\ faults' = faults + 1

\* Mutant: a leftover backup is overwritten.
SwapOver(p) ==
    /\ Working(p, "swap")
    /\ backup' = [backup EXCEPT ![Row(p)] = tool[Row(p)]]
    /\ tool' = [tool EXCEPT ![Row(p)] = 0]
    /\ Then(p, "put")
    /\ UNCHANGED <<reg, rec, quar, mirror, plan, cur, faults>>

\* _replace_tool_path up to the rename of the old content: equal content is left
\* alone, a leftover backup is a refusal.
Swap(p) ==
    /\ Working(p, "swap")
    /\ LET t == Row(p) IN
       IF tool[t] = plan[p].mk.src
       THEN /\ Goes(p, [job[p] EXCEPT !.at = "open", !.n = @ + 1])
            /\ UNCHANGED <<tool, backup, faults>>
       ELSE \/ backup[t] # 0 /\ Fail(p, "preserved") /\ UNCHANGED <<tool, backup, faults>>
            \/ Fault /\ Fail(p, "torn") /\ UNCHANGED <<tool, backup>>
            \/ /\ backup[t] = 0
               /\ backup' = [backup EXCEPT ![t] = tool[t]]
               /\ tool' = [tool EXCEPT ![t] = 0]
               /\ Then(p, "put") /\ faults' = faults
    /\ UNCHANGED <<reg, rec, quar, mirror, plan, cur>>

\* The staged content takes the name; a failure puts the old content back.
Put(p) ==
    /\ Working(p, "put")
    /\ LET t == Row(p) IN
       \/ tool' = [tool EXCEPT ![t] = plan[p].mk.src] /\ Then(p, "drop")
          /\ UNCHANGED <<backup, faults>>
       \/ Fault /\ Fail(p, "torn")
          /\ tool' = [tool EXCEPT ![t] = IF backup[t] # 0 THEN backup[t] ELSE @]
          /\ backup' = [backup EXCEPT ![t] = 0]
    /\ UNCHANGED <<reg, rec, quar, mirror, plan, cur>>

\* The old content goes last.
Drop(p) ==
    /\ Working(p, "drop")
    /\ \/ backup' = [backup EXCEPT ![Row(p)] = 0] /\ faults' = faults
          /\ Goes(p, [job[p] EXCEPT !.at = "open", !.n = @ + 1])
       \/ backup[Row(p)] # 0 /\ Fault /\ Fail(p, "torn") /\ backup' = backup
    /\ UNCHANGED <<tool, reg, rec, quar, mirror, plan, cur>>

\* The operator's own surface comes after the tool's, and only if authorised.
OpenReg(p) ==
    /\ Working(p, "open") /\ job[p].n > Len(Rows)
    /\ IF plan[p].mk.choice = "authorized"
       THEN \/ Persist(p, OpenedAt(p, "reg")) /\ Then(p, "reg")
            \/ Lost(p) /\ GiveUp(p)
       ELSE Then(p, "verify") /\ UNCHANGED <<rec, cur>>
    /\ UNCHANGED <<tool, backup, reg, quar, mirror, plan, faults>>

Register(p) ==
    /\ Working(p, "reg")
    /\ \/ reg' = TRUE /\ Then(p, "verify") /\ faults' = faults
       \/ Fault /\ reg' = reg /\ Fail(p, "preserved")
    /\ UNCHANGED <<tool, backup, rec, quar, mirror, plan, cur>>

-----------------------------------------------------------------------------
\* After the mutations.

\* Mutant: what the plan did not touch is taken for current.
VerifiedByPlan(p) ==
    [s \in Surface |->
        IF (IF s = "reg" THEN reg
            ELSE Affected(p, s) => \A t \in Target : SurfaceOf[t] = s => tool[t] = plan[p].mk.src)
        THEN "done" ELSE "undone"]

\* verify_workflow looks at every surface again.
Verified(p) ==
    [s \in Surface |->
        IF (IF s = "reg" THEN reg
            ELSE \A t \in Target : SurfaceOf[t] = s => tool[t] = plan[p].mk.src)
        THEN "done" ELSE "undone"]

\* _derive_outcome, _unresolved_checkpoints.
Complete(p, row) ==
    /\ \A s \in Tool : row[s] = "done"
    /\ row["reg"] = "done" \/ plan[p].mk.choice = "declined"

OutcomeOf(p, row) ==
    IF Complete(p, row) THEN "complete"
    ELSE IF \A s \in Tool : row[s] = "done" THEN "repair-offered" ELSE "blocked"

\* The surface at which the failed mutation was.
Failed(p) == IF job[p].n > Len(Rows) THEN "reg" ELSE SurfaceOf[Row(p)]

\* _blocked_apply_record, and the visible file, which no lease guards.
FailMirror(p) ==
    /\ Working(p, "failmirror")
    /\ mirror' = [mk |-> plan[p].mk, outcome |-> "blocked"]
    /\ Goes(p, [job[p] EXCEPT !.at = "failrecord",
                 !.row = [Verified(p) EXCEPT ![Failed(p)] =
                            IF job[p].mut = "torn" THEN "torn" ELSE "undone"]])
    /\ UNCHANGED <<tool, backup, reg, rec, quar, plan, cur, faults>>

\* record_failure closes a boundary whose content it takes for preserved.
FailRecord(p) ==
    /\ Working(p, "failrecord")
    /\ \/ Persist(p, [cur[p] EXCEPT !.row = job[p].row,
                                    !.bnd = IF job[p].mut = "torn" THEN @ ELSE None])
       \/ Lost(p)
    /\ GiveUp(p)
    /\ UNCHANGED <<tool, backup, reg, quar, mirror, plan, faults>>

Verify(p) ==
    /\ Working(p, "verify")
    /\ Goes(p, [job[p] EXCEPT !.at = "commit", !.row = Verified(p)])
    /\ UNCHANGED <<disk, plan, cur, faults>>

\* commit_checkpoint for each surface, then the schema marker or, when work is
\* left, the projection alone (advance_completion).
Uncommitted(p) == {s \in Surface : cur[p].row[s] \in {"pending", "open"}}

Commit(p) ==
    /\ Working(p, "commit")
    /\ IF Uncommitted(p) # {}
       THEN LET s == CHOOSE x \in Uncommitted(p) : TRUE IN
            \/ /\ Persist(p, [cur[p] EXCEPT !.row[s] = job[p].row[s],
                                            !.bnd = IF @ = s THEN None ELSE @])
               /\ Then(p, "commit")
            \/ Lost(p) /\ GiveUp(p)
       ELSE \/ /\ Persist(p, [cur[p] EXCEPT !.schema = Complete(p, job[p].row)])
               /\ Then(p, IF Complete(p, job[p].row) THEN "completion" ELSE "mirror")
            \/ Lost(p) /\ GiveUp(p)
    /\ UNCHANGED <<tool, backup, reg, quar, mirror, plan, faults>>

\* The second marker, a write of its own.
Completion(p) ==
    /\ Working(p, "completion")
    /\ \/ Persist(p, [cur[p] EXCEPT !.compl = TRUE]) /\ Then(p, "mirror")
       \/ Lost(p) /\ GiveUp(p)
    /\ UNCHANGED <<tool, backup, reg, quar, mirror, plan, faults>>

\* _write_state between the completion and the cleanup marker.
Mirror(p) ==
    /\ Working(p, "mirror")
    /\ mirror' = [mk |-> plan[p].mk, outcome |-> OutcomeOf(p, job[p].row)]
    /\ IF cur[p].compl THEN Then(p, "sweep") ELSE GiveUp(p)
    /\ UNCHANGED <<tool, backup, reg, rec, quar, plan, cur, faults>>

\* advance_cleanup: the superseded evidence goes, then the last marker is set.
Sweep(p) ==
    /\ Working(p, "sweep")
    /\ quar' = NoRec
    /\ Then(p, "clean")
    /\ UNCHANGED <<tool, backup, reg, rec, mirror, plan, cur, faults>>

Clean(p) ==
    /\ Working(p, "clean")
    /\ \/ Persist(p, [cur[p] EXCEPT !.clean = TRUE])
       \/ Lost(p)
    /\ GiveUp(p)
    /\ UNCHANGED <<tool, backup, reg, quar, mirror, plan, faults>>

Die(p) == Crash(p) /\ Forget(p) /\ UNCHANGED <<disk, faults>>

\* The operator inspects a replacement boundary nobody is working at: the old
\* content comes back where the target is gone, and goes where it is there.
OperatorRepairs(t) ==
    /\ backup[t] # 0 /\ Live = {}
    /\ tool' = [tool EXCEPT ![t] = IF @ = 0 THEN backup[t] ELSE @]
    /\ backup' = [backup EXCEPT ![t] = 0]
    /\ UNCHANGED <<leaseVars, reg, rec, quar, mirror, runVars>>

Next ==
    \/ \E p \in Proc :
         \/ Plan(p) \/ LeaseCall(p) \/ Reread(p) \/ Quarantine(p) \/ Preserve(p)
         \/ BeginProgress(p) \/ OpenRow(p) \/ Swap(p) \/ Put(p) \/ Drop(p) \/ OpenReg(p)
         \/ Register(p) \/ FailMirror(p) \/ FailRecord(p) \/ Verify(p) \/ Commit(p)
         \/ Completion(p) \/ Mirror(p) \/ Sweep(p) \/ Clean(p) \/ Die(p)
    \/ \E t \in Target : OperatorRepairs(t)

Spec == Init /\ [][Next]_vars

-----------------------------------------------------------------------------
\* A record with work that was begun and not verified is set aside or replaced
\* only by an invocation whose operator inspected just that work, however stale
\* its plan was when it got the lease (resume_state.py:1633, the gates of
\* install_workflow.py:3708).
InterruptedWorkInspected ==
    [][ (~astray' /\ Open(rec) # {} /\ (IsEnv(rec') => rec'.by # rec.by))
        => \E p \in Proc : job'[p] # job[p] /\ Open(rec) \subseteq plan[p].ack ]_vars

\* A record that says complete is true of the disk: everything the tool owns is
\* of its source and the operator's own surface is current or was declined
\* (resume_state.py:1370).
TerminalHonest ==
    (~astray /\ IsEnv(rec) /\ rec.compl) =>
        /\ rec.schema
        /\ \A t \in Target : tool[t] = rec.mk.src
        /\ reg \/ rec.mk.choice = "declined"

\* What was installed at a target stays there or beside it until new content
\* took its place, through any crash, error and retry (install_workflow.py:2940).
NeverNeither ==
    [][ ~astray' =>
        \A t \in Target : tool[t] # 0 \/ backup[t] # 0 => tool'[t] # 0 \/ backup'[t] # 0 ]_vars
=============================================================================
