---------------------------- MODULE InstallLease ----------------------------
(***************************************************************************)
(* The lease that one invocation of apply_workflow takes on an install root *)
(* (cli/resume_state.py): an exclusive create, a read back, and, when the   *)
(* holder is provably dead, a take-over that renames the lease away, looks  *)
(* at what it moved, and links it back when that was somebody else's.       *)
(*                                                                         *)
(* Every step is one system call another invocation can see.  Each         *)
(* invocation creates at most one lease object, so an object is named by    *)
(* its creator; its bytes are the creator's name once written and Blank     *)
(* before.  All invocations run on one POSIX host, so that death can be     *)
(* proved, and a process id is not used again.                              *)
(***************************************************************************)
EXTENDS Naturals, FiniteSets

CONSTANTS Proc,      \* invocations of apply
          Dead,      \* a holder that died before
          None,      \* no lease object
          MaxLive    \* bound on the invocations that overlap

ASSUME LeaseAssumption ==
    /\ Dead \notin Proc /\ None \notin Proc \cup {Dead}
    /\ <<>> \notin Proc \cup {Dead, None}
    /\ MaxLive \in Nat

VARIABLES
    path,       \* the object under the lease's name, or None
    private,    \* the object under each invocation's take-over name, or None
    written,    \* the creators whose object holds its payload
    step,       \* where each invocation is
    attempt,    \* how often it came back to the exclusive create
    inspected,  \* the bytes it authorised itself to remove
    astray      \* a live holder's lease was lost by a mishap (history)

leaseVars == <<path, private, written, step, attempt, inspected, astray>>

Owner == Proc \cup {Dead}
Blank == <<>>

\* The steps of acquire_lease, the holder's work, and those of
\* _remove_exact_lease, which a take-over and a release share.
Claiming == {"create", "write", "confirm", "inspect", "judge"}
Removing == {"recheck", "move", "compare", "restore"}
Ended    == {"done", "refused", "crashed"}
Steps    == {"off", "held", "release"} \cup Claiming \cup Removing \cup Ended

Bytes(o) == IF o = None THEN None ELSE IF o \in written THEN o ELSE Blank

Live == {p \in Proc : step[p] \notin {"off"} \cup Ended}

\* lease_is_orphaned: the holder that the bytes name is gone.
Orphaned(b) == b = Dead \/ (b \in Proc /\ step[b] \in Ended)

\* _guard_owner reads the lease under its name.
Guard(p) == Bytes(path) = p

\* A lease may be there already: complete, or never filled because its creator
\* died between the create and the write.
LeaseInit ==
    /\ path \in {None, Dead}
    /\ written \in IF path = Dead THEN {{}, {Dead}} ELSE {{}}
    /\ private = [p \in Proc |-> None]
    /\ step = [p \in Proc |-> "off"]
    /\ attempt = [p \in Proc |-> 0]
    /\ inspected = [p \in Proc |-> None]
    /\ astray = FALSE

Goto(p, s) == step' = [step EXCEPT ![p] = s]

Begin(p) ==
    /\ step[p] = "off" /\ Cardinality(Live) < MaxLive
    /\ Goto(p, "create")
    /\ UNCHANGED <<path, private, written, attempt, inspected, astray>>

Create(p) ==
    /\ step[p] = "create"
    /\ IF path = None
       THEN path' = p /\ Goto(p, "write")
       ELSE path' = path /\ Goto(p, "inspect")
    /\ UNCHANGED <<private, written, attempt, inspected, astray>>

Loses(o, p) == astray' = (astray \/ o \in Live \ {p})

\* A failed write unlinks whatever has the lease's name by then.
Write(p) ==
    /\ step[p] = "write"
    /\ \/ written' = written \cup {p} /\ UNCHANGED <<path, astray>> /\ Goto(p, "confirm")
       \/ written' = written /\ path' = None /\ Goto(p, "refused") /\ Loses(path, p)
    /\ UNCHANGED <<private, attempt, inspected>>

Confirm(p) ==
    /\ step[p] = "confirm"
    /\ Goto(p, IF Guard(p) THEN "held" ELSE "refused")
    /\ UNCHANGED <<path, private, written, attempt, inspected, astray>>

Inspect(p) ==
    /\ step[p] = "inspect"
    /\ inspected' = [inspected EXCEPT ![p] = Bytes(path)]
    /\ Goto(p, "judge")
    /\ UNCHANGED <<path, private, written, attempt, astray>>

Judge(p) ==
    /\ step[p] = "judge"
    /\ Goto(p, IF Orphaned(Bytes(path)) /\ inspected[p] # None THEN "recheck" ELSE "refused")
    /\ UNCHANGED <<path, private, written, attempt, inspected, astray>>

\* What follows is _remove_exact_lease.  Only a release removes the lease of
\* the invocation itself.
Releasing(p) == inspected[p] = p

Removed(p) ==
    IF Releasing(p) THEN Goto(p, "done") /\ attempt' = attempt
    ELSE /\ attempt' = [attempt EXCEPT ![p] = @ + 1]
         /\ Goto(p, IF attempt[p] = 1 THEN "refused" ELSE "create")

Kept(p) == attempt' = attempt /\ Goto(p, IF Releasing(p) THEN "done" ELSE "refused")

Continue(p, s) == attempt' = attempt /\ Goto(p, s)

Recheck(p) ==
    /\ step[p] = "recheck"
    /\ IF Bytes(path) = inspected[p] THEN Continue(p, "move") ELSE Kept(p)
    /\ UNCHANGED <<path, private, written, inspected, astray>>

Move(p) ==
    /\ step[p] = "move"
    /\ IF path = None
       THEN Removed(p) /\ private' = private
       ELSE Continue(p, "compare") /\ private' = [private EXCEPT ![p] = path]
    /\ path' = None
    /\ UNCHANGED <<written, inspected, astray>>

\* Mutant: whatever was moved is removed.
CompareBlind(p) ==
    /\ step[p] = "compare"
    /\ Removed(p) /\ private' = [private EXCEPT ![p] = None]
    /\ UNCHANGED <<path, written, inspected, astray>>

Compare(p) ==
    /\ step[p] = "compare"
    /\ IF Bytes(private[p]) = inspected[p]
       THEN Removed(p) /\ private' = [private EXCEPT ![p] = None]
       ELSE Continue(p, "restore") /\ private' = private
    /\ UNCHANGED <<path, written, inspected, astray>>

\* os.link refuses an existing name; the object then stays aside for good.
Restore(p) ==
    /\ step[p] = "restore"
    /\ IF path = None
       THEN path' = private[p] /\ private' = [private EXCEPT ![p] = None]
       ELSE UNCHANGED <<path, private>>
    /\ Kept(p)
    /\ UNCHANGED <<written, inspected, astray>>

\* The holder is through with its work.
Finish(p) ==
    /\ step[p] = "held"
    /\ Goto(p, "release")
    /\ UNCHANGED <<path, private, written, attempt, inspected, astray>>

Release(p) ==
    /\ step[p] = "release"
    /\ inspected' = [inspected EXCEPT ![p] = Bytes(path)]
    /\ Goto(p, IF Guard(p) THEN "recheck" ELSE "done")
    /\ UNCHANGED <<path, private, written, attempt, astray>>

Crash(p) ==
    /\ p \in Live
    /\ Goto(p, "crashed") /\ Loses(private[p], p)
    /\ UNCHANGED <<path, private, written, attempt, inspected>>

LeaseStep(p) ==
    \/ Create(p) \/ Write(p) \/ Confirm(p) \/ Inspect(p) \/ Judge(p)
    \/ Recheck(p) \/ Move(p) \/ Compare(p) \/ Restore(p) \/ Release(p)

LeaseNext == \E p \in Proc : Begin(p) \/ LeaseStep(p) \/ Finish(p) \/ Crash(p)

LeaseSpec == LeaseInit /\ [][LeaseNext]_leaseVars

-----------------------------------------------------------------------------
\* Of two recoverers that race for one root at most one believes that it holds
\* it, unless a mishap took a live holder's lease (resume_state.py:985, "the
\* failure mode is a refusal requiring operator recovery, not two owners").
AtMostOneOwner ==
    ~astray => \A p, q \in Proc : step[p] = "held" /\ step[q] = "held" => p = q
=============================================================================
