-------------------------- MODULE InstallRun_proofs --------------------------
(***************************************************************************)
(* The lease, and the install and update workflow under it.                *)
(*                                                                         *)
(* Of the invocations that overlap, at most two at a time and any number   *)
(* one after another, one at most holds the lease, unless a mishap took a  *)
(* live holder's lease.  A third would find the name free while a          *)
(* take-over has the holder's lease aside (resume_state.py:1004).          *)
(*                                                                         *)
(* On that exclusion rest, for every number of targets, sources, errors    *)
(* and such invocations: a record that says complete is true, interrupted  *)
(* work is set aside only by an operator who inspected it, and no target   *)
(* is left with neither its old content nor its new.                       *)
(***************************************************************************)
EXTENDS InstallRun, FiniteSetTheorems, TLAPS

(***************************************************************************)
(* The lease.                                                              *)
(***************************************************************************)
\* What the lease is made of.
LeaseType ==
    /\ path \in Owner \cup {None}
    /\ private \in [Proc -> Owner \cup {None}]
    /\ written \subseteq Owner
    /\ step \in [Proc -> Steps]
    /\ attempt \in [Proc -> Nat]
    /\ inspected \in [Proc -> Owner \cup {None, Blank}]
    /\ astray \in BOOLEAN

\* The invocations that overlap are no more than allowed.
Few == IsFiniteSet(Live) /\ Cardinality(Live) <= MaxLive

\* Who has written a lease has it, gives it back or is through.
Past(p) == \/ step[p] \in {"confirm", "held", "release"} \cup Ended
           \/ step[p] \in Removing /\ inspected[p] = p
WritersPast == \A p \in Proc : p \in written => Past(p)

\* Only a written lease can be read as its creator's.
ReadsWritten == \A p, q \in Proc : inspected[q] = p => p \in written

\* An invocation that counts on its lease, up to the rename that gives it back.
Counts(p) == \/ step[p] \in {"held", "release"}
             \/ step[p] \in {"recheck", "move"} /\ inspected[p] = p

\* Its lease is under the name, or aside with a take-over that will not match it.
Aside(p) == /\ path = None
            /\ \E q \in Proc \ {p} : private[q] = p /\ step[q] \in {"compare", "restore"}
Owned(p) == p \in written /\ (path = p \/ Aside(p))
HoldersOwn == \A p \in Proc : Counts(p) => Owned(p)

\* A take-over is after the lease of one that ended.
TakesEnded == \A p, q \in Proc :
    p # q /\ inspected[q] = p /\ step[q] \in Removing => step[p] \in Ended

\* Until it is judged, the lease of a live creator gives way to no other.
JudgesSame == \A p, q \in Proc :
    p # q /\ inspected[q] = p /\ step[q] = "judge" =>
        step[p] \in Ended \/ path \in {p, None}

\* A release moves its own lease and finds it so.
ReleasesOwn == \A p \in Proc : inspected[p] = p =>
    /\ step[p] = "compare" => private[p] = p
    /\ step[p] # "restore"

Undisturbed == HoldersOwn /\ TakesEnded /\ JudgesSame /\ ReleasesOwn

LeaseInv == /\ LeaseType /\ Few /\ WritersPast /\ ReadsWritten
            /\ ~astray => Undisturbed

---------------------------------------------------------------------------
\* The next-state relation by system call.
Does(p) == \/ Begin(p) \/ Create(p) \/ Write(p) \/ Confirm(p) \/ Inspect(p) \/ Judge(p)
           \/ Recheck(p) \/ Move(p) \/ Compare(p) \/ Restore(p) \/ Release(p)
           \/ Finish(p) \/ Crash(p)

LEMMA LeaseSteps ==
    [LeaseNext]_leaseVars => UNCHANGED leaseVars \/ \E p \in Proc : Does(p)
BY DEF LeaseNext, LeaseStep, Does

\* Where a step leaves the invocation that takes it.
LEMMA StepType ==
    ASSUME LeaseType, NEW p \in Proc, Does(p)
    PROVE  /\ step' \in [Proc -> Steps] /\ attempt' \in [Proc -> Nat]
           /\ \A q \in Proc : q # p => step'[q] = step[q]
<1> USE DEF Steps, Claiming, Removing, Ended, LeaseType
<1>1. CASE Begin(p) \/ Create(p) \/ Write(p) \/ Confirm(p)
  BY <1>1 DEF Begin, Create, Write, Confirm, Goto
<1>2. CASE Inspect(p) \/ Judge(p) \/ Release(p) \/ Finish(p) \/ Crash(p)
  BY <1>2 DEF Inspect, Judge, Release, Finish, Crash, Goto
<1>3. CASE Recheck(p) \/ Move(p)
  BY <1>3 DEF Recheck, Move, Removed, Kept, Continue, Goto
<1>4. CASE Compare(p) \/ Restore(p)
  BY <1>4 DEF Compare, Restore, Removed, Kept, Continue, Goto
<1> QED
  BY <1>1, <1>2, <1>3, <1>4 DEF Does

\* Every variable of the lease keeps its type.
LEMMA LeaseTyped ==
    ASSUME LeaseType, NEW p \in Proc, Does(p) PROVE LeaseType'
<1>1. step' \in [Proc -> Steps] /\ attempt' \in [Proc -> Nat]
  BY StepType
<1> USE <1>1 DEF LeaseType, Owner
<1>2. CASE Begin(p) \/ Create(p) \/ Write(p) \/ Confirm(p)
  BY <1>2 DEF Begin, Create, Write, Confirm, Loses
<1>3. CASE Inspect(p) \/ Judge(p) \/ Release(p) \/ Finish(p) \/ Crash(p)
  BY <1>3 DEF Inspect, Judge, Release, Finish, Crash, Bytes, Loses
<1>4. CASE Recheck(p) \/ Move(p)
  BY <1>4 DEF Recheck, Move
<1>5. CASE Compare(p) \/ Restore(p)
  BY <1>5 DEF Compare, Restore
<1> QED
  BY <1>2, <1>3, <1>4, <1>5 DEF Does

\* No step lets more overlap than Begin does.
LEMMA FewStep ==
    ASSUME LeaseType, Few, NEW p \in Proc, Does(p) PROVE Few'
<1> USE DEF Steps, Claiming, Removing, Ended
<1>1. CASE Begin(p)
  <2>1. Live' \subseteq Live \cup {p}
    BY <1>1, StepType DEF Live
  <2>2. Cardinality(Live) < MaxLive /\ Cardinality(Live) \in Nat
    BY <1>1, FS_CardinalityType DEF Begin, Few
  <2>3. IsFiniteSet(Live \cup {p}) /\ Cardinality(Live \cup {p}) <= Cardinality(Live) + 1
    BY <2>2, FS_AddElement DEF Few
  <2>4. IsFiniteSet(Live') /\ Cardinality(Live') <= Cardinality(Live \cup {p})
    BY <2>1, <2>3, FS_Subset
  <2>5. Cardinality(Live') \in Nat /\ Cardinality(Live \cup {p}) \in Nat
    BY <2>3, <2>4, FS_CardinalityType
  <2> QED
    BY <2>2, <2>3, <2>4, <2>5, LeaseAssumption DEF Few
<1>2. CASE ~Begin(p)
  <2>1. p \in Live
    BY <1>2 DEF Does, Live, Create, Write, Confirm, Inspect, Judge, Recheck, Move, Compare,
                Restore, Release, Finish, Crash, LeaseType
  <2>2. Live' \subseteq Live
    BY <2>1, StepType DEF Live
  <2>3. IsFiniteSet(Live') /\ Cardinality(Live') <= Cardinality(Live)
    BY <2>2, FS_Subset DEF Few
  <2>4. Cardinality(Live') \in Nat /\ Cardinality(Live) \in Nat
    BY <2>3, FS_CardinalityType DEF Few
  <2> QED
    BY <2>3, <2>4, LeaseAssumption DEF Few
<1> QED
  BY <1>1, <1>2

\* Of at most two, no three are different.
LEMMA NoThird ==
    ASSUME Few, MaxLive <= 2, NEW a \in Live, NEW b \in Live, NEW c \in Live
    PROVE  a = b \/ a = c \/ b = c
<1> SUFFICES ASSUME a # b, a # c, b # c PROVE FALSE
  OBVIOUS
<1>1. IsFiniteSet({a}) /\ Cardinality({a}) = 1
  BY FS_Singleton
<1>2. IsFiniteSet({a} \cup {b}) /\ Cardinality({a} \cup {b}) = 2
  BY <1>1, FS_AddElement
<1>3. IsFiniteSet({a} \cup {b} \cup {c}) /\ Cardinality({a} \cup {b} \cup {c}) = 3
  BY <1>2, FS_AddElement
<1>4. Cardinality({a} \cup {b} \cup {c}) <= Cardinality(Live)
  BY FS_Subset DEF Few
<1> DEFINE n == Cardinality(Live)
<1>5. n \in Nat /\ n <= MaxLive
  BY FS_CardinalityType DEF Few
<1>6. MaxLive \in Nat
  BY LeaseAssumption
<1>7. 3 <= n
  BY <1>3, <1>4
<1> HIDE DEF n
<1> QED
  BY <1>5, <1>6, <1>7

---------------------------------------------------------------------------
\* Reading the lease.
LEMMA BytesOf ==
    ASSUME LeaseType, NEW o \in Owner \cup {None}, NEW q \in Proc
    PROVE  /\ Bytes(o) = q <=> o = q /\ q \in written
           /\ Bytes(o) \in {o, Blank}
BY LeaseAssumption DEF Bytes, Blank, Owner, LeaseType

\* Only reads change what an invocation read.
LEMMA ReadsStep ==
    ASSUME LeaseType, ReadsWritten, NEW p \in Proc, Does(p) PROVE ReadsWritten'
<1>1. CASE Inspect(p) \/ Release(p)
  <2>1. \A q \in Proc : Bytes(path) = q => q \in written
    BY BytesOf DEF LeaseType
  <2> QED
    BY <1>1, <2>1 DEF Inspect, Release, ReadsWritten, LeaseType
<1>2. CASE ~(Inspect(p) \/ Release(p))
  <2>1. inspected' = inspected /\ written \subseteq written'
    BY <1>2 DEF Does, Begin, Create, Write, Confirm, Judge, Recheck, Move, Compare, Restore,
                Finish, Crash
  <2> QED
    BY <2>1 DEF ReadsWritten
<1> QED
  BY <1>1, <1>2

\* Nobody goes back behind what he has written.
LEMMA PastStep ==
    ASSUME LeaseType, ReadsWritten, WritersPast, NEW p \in Proc, Does(p) PROVE WritersPast'
<1> SUFFICES ASSUME NEW q \in Proc, q \in written' PROVE Past(q)'
  BY DEF WritersPast
<1> USE DEF Steps, Claiming, Removing, Ended, LeaseType
<1>1. CASE q # p
  <2>1. q \in written /\ step'[q] = step[q] /\ inspected'[q] = inspected[q]
    BY <1>1, StepType DEF Does, Begin, Create, Write, Confirm, Inspect, Judge, Recheck, Move,
         Compare, Restore, Release, Finish, Crash
  <2> QED
    BY <2>1 DEF WritersPast, Past
<1>2. CASE q = p
  <2>1. CASE Write(p)
    BY <1>2, <2>1 DEF Write, Goto, Past, WritersPast
  <2>2. CASE Begin(p) \/ Create(p) \/ Confirm(p) \/ Inspect(p) \/ Judge(p) \/ Finish(p) \/ Crash(p)
    BY <1>2, <2>2 DEF Begin, Create, Confirm, Inspect, Judge, Finish, Crash, Goto, Past, WritersPast
  <2>3. CASE Release(p)
    BY <1>2, <2>3 DEF Release, Guard, Goto, Past, WritersPast
  <2>4. CASE Recheck(p) \/ Move(p)
    BY <1>2, <2>4 DEF Recheck, Move, Removed, Kept, Continue, Releasing, Goto, Past, WritersPast
  <2>5. CASE Compare(p) \/ Restore(p)
    BY <1>2, <2>5 DEF Compare, Restore, Removed, Kept, Continue, Releasing, Goto, Past, WritersPast
  <2> QED
    BY <2>1, <2>2, <2>3, <2>4, <2>5 DEF Does
<1> QED
  BY <1>1, <1>2

---------------------------------------------------------------------------
\* One step between two states with LeaseInv and without a mishap.
Calm(p) == LeaseInv /\ Undisturbed /\ Does(p) /\ ~astray' /\ MaxLive <= 2

\* A written lease stays written, a mishap stays one.
LEMMA Sticks ==
    ASSUME LeaseType, NEW p \in Proc, Does(p)
    PROVE  written \subseteq written' /\ (astray => astray')
<1>1. astray' = astray \/ \E o : Loses(o, p)
  BY DEF Does, Begin, Create, Write, Confirm, Inspect, Judge, Recheck, Move, Compare, Restore,
     Release, Finish, Crash
<1>2. astray => astray'
  <2>1. CASE astray' = astray
    BY <2>1
  <2>2. ASSUME NEW o, Loses(o, p) PROVE astray => astray'
    BY <2>2 DEF Loses
  <2> QED
    BY <1>1, <2>1, <2>2
<1>3. written \subseteq written'
  BY DEF Does, Begin, Create, Write, Confirm, Inspect, Judge, Recheck, Move, Compare, Restore,
     Release, Finish, Crash
<1> QED
  BY <1>2, <1>3

\* What has the name, and what each take-over has aside, through the steps of another.
LEMMA OwnedStep ==
    ASSUME NEW p \in Proc, Calm(p), NEW q \in Proc, q # p, q \in Live, Owned(q),
           step[q] \notin Ended
    PROVE  Owned(q)'
<1> USE DEF Steps, Claiming, Removing, Ended
<1>1. LeaseType /\ q \in written /\ q \in written' /\ q # None /\ ~astray
  BY Sticks, LeaseAssumption DEF Calm, LeaseInv, Owned
<1>2. CASE path = q
  <2>1. path' = q \/ Move(p)
    BY <1>1, <1>2 DEF Calm, Does, Begin, Create, Write, Confirm, Inspect, Judge, Recheck,
         Compare, Restore, Release, Finish, Crash, Loses
  <2>2. CASE Move(p)
    BY <1>1, <1>2, <2>2 DEF Move, Continue, Goto, Owned, Aside, LeaseType
  <2> QED
    BY <1>1, <2>1, <2>2 DEF Owned
<1>3. CASE path # q
  <2>1. PICK r \in Proc \ {q} : private[r] = q /\ step[r] \in {"compare", "restore"} /\ path = None
    BY <1>3 DEF Owned, Aside
  <2>2. CASE r = p
    <3>1. inspected[p] # q
      BY <1>1, <2>1, <2>2 DEF Calm, Undisturbed, TakesEnded
    <3>2. Bytes(private[p]) = q
      BY <1>1, <2>1, <2>2, BytesOf DEF Owner
    <3>3. Compare(p) \/ Restore(p) \/ Crash(p)
      BY <2>1, <2>2 DEF Calm, Does, Begin, Create, Write, Confirm, Inspect, Judge, Recheck, Move,
           Release, Finish
    <3>4. ~Crash(p)
      BY <2>1, <2>2 DEF Calm, Crash, Loses
    <3>5. CASE Compare(p)
      BY <1>1, <2>1, <2>2, <3>1, <3>2, <3>5 DEF Compare, Continue, Goto, Owned, Aside, LeaseType
    <3>6. CASE Restore(p)
      BY <1>1, <2>1, <2>2, <3>6 DEF Restore, Owned
    <3> QED
      BY <3>3, <3>4, <3>5, <3>6
  <2>3. CASE r # p
    <3>1. p \notin Live
      BY <2>1, <2>3, NoThird DEF Calm, LeaseInv, Live
    <3>2. Begin(p)
      BY <3>1 DEF Calm, Does, Live, Create, Write, Confirm, Inspect, Judge, Recheck, Move, Compare,
           Restore, Release, Finish, Crash
    <3> QED
      BY <1>1, <2>1, <2>3, <3>2 DEF Begin, Goto, Owned, Aside, LeaseType
  <2> QED
    BY <2>2, <2>3
<1> QED
  BY <1>2, <1>3

\* Who counts on a lease has it, or will have it back.
LEMMA HoldersStep ==
    ASSUME NEW p \in Proc, Calm(p) PROVE HoldersOwn'
<1> SUFFICES ASSUME NEW q \in Proc, Counts(q)' PROVE Owned(q)'
  BY DEF HoldersOwn
<1> USE DEF Steps, Claiming, Removing, Ended
<1>1. LeaseType /\ HoldersOwn /\ ReleasesOwn /\ ReadsWritten
  BY DEF Calm, LeaseInv, Undisturbed
<1>2. CASE q # p
  <2>1. step'[q] = step[q] /\ inspected'[q] = inspected[q]
    BY <1>1, <1>2, StepType DEF Calm, Does, Begin, Create, Write, Confirm, Inspect, Judge, Recheck,
         Move, Compare, Restore, Release, Finish, Crash, LeaseType
  <2>2. Counts(q) /\ q \in Live /\ step[q] \notin Ended
    BY <2>1 DEF Counts, Live
  <2> QED
    BY <1>1, <1>2, <2>2, OwnedStep DEF HoldersOwn
<1>3. CASE q = p
  <2>1. CASE Confirm(p) \/ Release(p) \/ Recheck(p)
    <3>1. Bytes(path) = p /\ UNCHANGED <<path, written>>
      BY <1>1, <1>3, <2>1 DEF Confirm, Release, Recheck, Guard, Kept, Continue, Releasing, Goto,
           Counts, LeaseType
    <3> QED
      BY <1>1, <1>3, <3>1, BytesOf DEF Owned, LeaseType
  <2>2. CASE Finish(p)
    <3>1. Owned(p) /\ path' = path /\ private' = private /\ written' = written
      BY <1>1, <2>2 DEF Finish, HoldersOwn, Counts
    <3>2. \A r \in Proc \ {p} : step'[r] = step[r]
      BY <1>1, StepType DEF Calm
    <3> QED
      BY <1>3, <3>1, <3>2 DEF Owned, Aside
  <2>3. CASE Judge(p)
    <3>1. inspected[p] # p
      BY <1>1, <2>3 DEF Judge, ReadsWritten, Calm, LeaseInv, WritersPast, Past
    <3> QED
      BY <1>1, <1>3, <2>3, <3>1 DEF Judge, Goto, Counts, LeaseType
  <2>4. CASE Begin(p) \/ Create(p) \/ Write(p) \/ Inspect(p) \/ Crash(p)
    BY <1>1, <1>3, <2>4 DEF Begin, Create, Write, Inspect, Crash, Goto, Counts, LeaseType
  <2>5. CASE Move(p) \/ Compare(p) \/ Restore(p)
    BY <1>1, <1>3, <2>5 DEF Move, Compare, Restore, Removed, Kept, Continue, Goto, Counts, LeaseType
  <2> QED
    BY <2>1, <2>2, <2>3, <2>4, <2>5 DEF Calm, Does
<1> QED
  BY <1>2, <1>3

\* What a step leaves alone, and who can take one.
LEMMA Others ==
    ASSUME LeaseType, NEW p \in Proc, Does(p)
    PROVE  /\ step[p] \notin Ended
           /\ \A q \in Proc : q # p => /\ step'[q] = step[q] /\ private'[q] = private[q]
                                       /\ inspected'[q] = inspected[q]
           /\ p \in Live \/ Begin(p)
<1> USE DEF Steps, Claiming, Removing, Ended
<1>1. step[p] \notin Ended /\ (p \in Live \/ Begin(p))
  BY DEF Does, Begin, Create, Write, Confirm, Inspect, Judge, Recheck, Move, Compare, Restore,
     Release, Finish, Crash, Live
<1>2. \A q \in Proc : q # p => private'[q] = private[q] /\ inspected'[q] = inspected[q]
  BY DEF Does, Begin, Create, Write, Confirm, Inspect, Judge, Recheck, Move, Compare, Restore,
     Release, Finish, Crash, LeaseType
<1> QED
  BY <1>1, <1>2, StepType

\* A take-over stays after the lease of one that ended.
LEMMA TakesStep ==
    ASSUME NEW p \in Proc, Calm(p) PROVE TakesEnded'
<1> SUFFICES ASSUME NEW r \in Proc, NEW q \in Proc, r # q,
                    inspected'[q] = r, step'[q] \in Removing
             PROVE  step'[r] \in Ended
  BY DEF TakesEnded
<1> USE DEF Steps, Claiming, Removing, Ended
<1>1. LeaseType /\ TakesEnded /\ JudgesSame /\ ReadsWritten /\ WritersPast
  BY DEF Calm, LeaseInv, Undisturbed
<1>2. step[r] \in Ended => step'[r] \in Ended
  BY <1>1, Others DEF Calm
<1>3. CASE q # p
  BY <1>1, <1>2, <1>3, Others DEF Calm, TakesEnded
<1>4. CASE q = p
  <2>1. CASE Judge(p)
    <3>1. inspected[p] = r /\ Orphaned(Bytes(path))
      BY <1>4, <2>1 DEF Judge, Goto, LeaseType
    <3>2. r \in written /\ Bytes(r) = r /\ Bytes(None) = None
      BY <1>1, <1>4, <3>1 DEF ReadsWritten, Bytes
    <3>3. step[r] \in Ended
      BY <1>1, <1>4, <2>1, <3>1, <3>2, LeaseAssumption DEF JudgesSame, Judge, Orphaned
    <3> QED
      BY <1>2, <3>3
  <2>2. CASE Release(p)
    BY <1>1, <1>4, <2>2 DEF Release, Guard, Goto, LeaseType
  <2>3. CASE Recheck(p) \/ Move(p) \/ Compare(p) \/ Restore(p)
    <3>1. inspected[p] = r /\ step[p] \in Removing
      BY <1>4, <2>3 DEF Recheck, Move, Compare, Restore
    <3> QED
      BY <1>1, <1>2, <1>4, <3>1 DEF TakesEnded
  <2>4. CASE Begin(p) \/ Create(p) \/ Write(p) \/ Confirm(p) \/ Inspect(p) \/ Finish(p) \/ Crash(p)
    BY <1>1, <1>4, <2>4 DEF Begin, Create, Write, Confirm, Inspect, Finish, Crash, Goto, LeaseType
  <2> QED
    BY <2>1, <2>2, <2>3, <2>4 DEF Calm, Does
<1> QED
  BY <1>3, <1>4

\* A live creator's lease gives way to no other while somebody judges it.
LEMMA JudgesStep ==
    ASSUME NEW p \in Proc, Calm(p) PROVE JudgesSame'
<1> SUFFICES ASSUME NEW r \in Proc, NEW q \in Proc, r # q,
                    inspected'[q] = r, step'[q] = "judge", step'[r] \notin Ended
             PROVE  path' \in {r, None}
  BY DEF JudgesSame
<1> USE DEF Steps, Claiming, Removing, Ended
<1>1. /\ LeaseType /\ JudgesSame /\ ReadsWritten /\ WritersPast /\ ReleasesOwn
      /\ step[r] \notin Ended
  BY Others DEF Calm, LeaseInv, Undisturbed
<1>2. CASE q # p
  <2>1. inspected[q] = r /\ step[q] = "judge" /\ path \in {r, None} /\ r \in written
    BY <1>1, <1>2, Others DEF Calm, JudgesSame, ReadsWritten
  <2>2. Past(r) /\ r \in Live /\ q \in Live
    BY <1>1, <2>1 DEF WritersPast, Past, Live
  <2>3. CASE p = r
    <3>1. Confirm(p) \/ Finish(p) \/ Release(p) \/ Recheck(p) \/ Move(p) \/ Compare(p) \/ Crash(p)
      BY <1>1, <2>2, <2>3 DEF Past, Calm, Does, Begin, Create, Write, Inspect, Judge, Restore,
           ReleasesOwn
    <3> QED
      BY <2>1, <3>1 DEF Confirm, Finish, Release, Recheck, Move, Compare, Crash
  <2>4. CASE p # r
    <3>1. p \notin Live
      BY <1>2, <2>2, <2>4, NoThird DEF Calm, LeaseInv
    <3> QED
      BY <1>1, <2>1, <3>1, Others DEF Calm, Begin
  <2> QED
    BY <2>3, <2>4
<1>3. CASE q = p
  <2>1. Inspect(p)
    BY <1>1, <1>3 DEF Calm, Does, Begin, Create, Write, Confirm, Judge, Recheck, Move, Compare,
         Restore, Release, Finish, Crash, Removed, Kept, Continue, Goto, LeaseType
  <2>2. Bytes(path) = r /\ path' = path
    BY <1>1, <1>3, <2>1 DEF Inspect, LeaseType
  <2> QED
    BY <1>1, <2>2, BytesOf DEF LeaseType
<1> QED
  BY <1>2, <1>3

\* A release finds its own lease under its private name.
LEMMA ReleasesStep ==
    ASSUME NEW p \in Proc, Calm(p) PROVE ReleasesOwn'
<1> SUFFICES ASSUME NEW q \in Proc, inspected'[q] = q
             PROVE  /\ step'[q] = "compare" => private'[q] = q
                    /\ step'[q] # "restore"
  BY DEF ReleasesOwn
<1> USE DEF Steps, Claiming, Removing, Ended
<1>1. LeaseType /\ ReadsWritten /\ HoldersOwn /\ ReleasesOwn
  BY DEF Calm, LeaseInv, Undisturbed
<1>2. CASE q # p
  BY <1>1, <1>2, Others DEF Calm, ReleasesOwn
<1>3. CASE q = p
  <2>1. CASE Move(p)
    <3>1. inspected[p] = p /\ path \in {p, None}
      BY <1>1, <1>3, <2>1 DEF Move, HoldersOwn, Counts, Owned, Aside
    <3> QED
      BY <1>1, <1>3, <2>1, <3>1 DEF Move, Removed, Releasing, Continue, Goto, LeaseType
  <2>2. CASE Compare(p)
    <3>1. inspected[p] = p /\ Bytes(private[p]) = p
      BY <1>1, <1>3, <2>2 DEF Compare, ReleasesOwn, ReadsWritten, Bytes
    <3> QED
      BY <1>1, <1>3, <2>2, <3>1 DEF Compare, Removed, Releasing, Goto, LeaseType
  <2>3. CASE ~(Move(p) \/ Compare(p))
    BY <1>1, <1>3, <2>3 DEF Calm, Does, Begin, Create, Write, Confirm, Inspect, Judge, Recheck,
         Restore, Release, Finish, Crash, Kept, Continue, Goto, LeaseType
  <2> QED
    BY <2>1, <2>2, <2>3
<1> QED
  BY <1>2, <1>3

---------------------------------------------------------------------------
\* The invariant holds at first ...
LEMMA LeaseStarts ==
    ASSUME LeaseInit PROVE LeaseInv
<1> USE DEF LeaseInit, Steps, Claiming, Removing, Ended, Owner
<1>1. LeaseType
  BY DEF LeaseType
<1>2. Live = {}
  BY DEF Live
<1>3. Few
  BY <1>2, FS_EmptySet, LeaseAssumption DEF Few
<1>4. WritersPast /\ ReadsWritten
  BY LeaseAssumption DEF WritersPast, ReadsWritten
<1>5. Undisturbed
  BY LeaseAssumption DEF Undisturbed, HoldersOwn, Counts, TakesEnded, JudgesSame, ReleasesOwn
<1> QED
  BY <1>1, <1>3, <1>4, <1>5 DEF LeaseInv

\* ... and every step of two keeps it.
LEMMA LeaseInvStep ==
    ASSUME MaxLive <= 2, LeaseInv, [LeaseNext]_leaseVars PROVE LeaseInv'
<1>1. CASE UNCHANGED leaseVars
  <2>1. LeaseType' /\ Few' /\ WritersPast' /\ ReadsWritten'
    BY <1>1 DEF leaseVars, LeaseInv, LeaseType, Few, Live, WritersPast, Past, ReadsWritten
  <2>2. ~astray' => Undisturbed'
    BY <1>1 DEF leaseVars, LeaseInv, Undisturbed, HoldersOwn, Counts, Owned, Aside, TakesEnded,
         JudgesSame, ReleasesOwn
  <2> QED
    BY <2>1, <2>2 DEF LeaseInv
<1>2. ASSUME NEW p \in Proc, Does(p) PROVE LeaseInv'
  <2>1. LeaseType' /\ Few' /\ WritersPast' /\ ReadsWritten'
    BY <1>2, LeaseTyped, FewStep, PastStep, ReadsStep DEF LeaseInv
  <2>2. ASSUME ~astray' PROVE Undisturbed'
    <3>1. Calm(p)
      BY <1>2, <2>2, Sticks DEF Calm, LeaseInv
    <3> QED
      BY <3>1, HoldersStep, TakesStep, JudgesStep, ReleasesStep DEF Undisturbed
  <2> QED
    BY <2>1, <2>2 DEF LeaseInv
<1> QED
  BY <1>1, <1>2, LeaseSteps

\* Two that hold the lease would both have it under its name.
LEMMA OneOwner ==
    ASSUME LeaseInv, MaxLive <= 2 PROVE AtMostOneOwner
<1> SUFFICES ASSUME ~astray, NEW p \in Proc, NEW q \in Proc, step[p] = "held",
                    step[q] = "held", p # q
             PROVE  FALSE
  BY DEF AtMostOneOwner
<1>1. Owned(p) /\ Owned(q)
  BY DEF LeaseInv, Undisturbed, HoldersOwn, Counts
<1>2. Aside(p) /\ Aside(q)
  BY <1>1, LeaseAssumption DEF Owned, Aside
<1>3. PICK r \in Proc \ {p} : private[r] = p /\ step[r] \in {"compare", "restore"}
  BY <1>2 DEF Aside
<1>4. p \in Live /\ q \in Live /\ r \in Live
  BY <1>3 DEF Live, Ended
<1> QED
  BY <1>3, <1>4, NoThird DEF LeaseInv

\* Of two recoverers at most one believes that it holds the lease
\* (acquire_lease, "the failure mode is a refusal requiring operator recovery,
\* not two owners"), for any number of invocations of which two overlap.
THEOREM MutualExclusion ==
    ASSUME MaxLive <= 2 PROVE LeaseSpec => []AtMostOneOwner
<1>1. LeaseInit => LeaseInv
  BY LeaseStarts
<1>2. LeaseInv /\ [LeaseNext]_leaseVars => LeaseInv'
  BY LeaseInvStep
<1>3. LeaseInv => AtMostOneOwner
  BY OneOwner
<1> QED
  BY <1>1, <1>2, <1>3, PTL DEF LeaseSpec

(***************************************************************************)
(* The workflow.                                                           *)
(***************************************************************************)
\* What an invocation has in hand.
Plans == [mk : Marker, ack : SUBSET Surface]
Hands == [at : Jobs, n : Nat \ {0}, mut : {"none", "torn", "preserved"},
          note : {"none", "match", "other"}, row : [Surface -> RowState]]

RunType ==
    /\ tool \in [Target -> 0 .. NSource] /\ backup \in [Target -> 0 .. NSource]
    /\ reg \in BOOLEAN
    /\ rec \in Record
    /\ plan \in [Proc -> Plans]
    /\ job \in [Proc -> Hands]
    /\ cur \in [Proc -> Record]
    /\ faults \in Nat

\* Before its own record is written, after, and when its tools are verified.
Preparing == {"reread", "quarantine", "preserve", "begin"}
Judged    == {"quarantine", "preserve", "begin"}
Verifying == {"commit", "completion"}
Closing   == {"mirror", "sweep", "clean"}

\* The work of an invocation starts with the lease, and its record is its own.
Own(p) ==
    /\ step[p] # "held" => job[p].at = "reread"
    /\ step[p] = "held" /\ job[p].at \notin Preparing =>
          cur[p] \in Envelope /\ cur[p].by = p /\ cur[p].mk = plan[p].mk
    /\ job[p].at \in {"swap", "put", "drop"} => job[p].n \in 1 .. Len(Rows)
OwnWork == \A p \in Proc : Own(p)

\* What the holder knows of the disk, since nobody else changes it.
Current(p) ==
    /\ job[p].at \in Judged => Open(rec) \subseteq plan[p].ack
    /\ job[p].at \notin Preparing => rec = cur[p]
    /\ job[p].at \notin Preparing \cup Closing => ~cur[p].compl
    /\ job[p].at = "drop" => tool[Row(p)] = plan[p].mk.src
    /\ job[p].at \in Verifying => job[p].row = Verified(p)
    /\ job[p].at = "completion" => cur[p].schema /\ Complete(p, job[p].row)
HolderCurrent == \A p \in Proc : step[p] = "held" => Current(p)

\* A complete record is true of the disk.
Honest ==
    IsEnv(rec) /\ rec.compl =>
        /\ rec.schema
        /\ \A t \in Target : tool[t] = rec.mk.src
        /\ reg \/ rec.mk.choice = "declined"

RunInv == /\ LeaseInv /\ RunType /\ OwnWork
          /\ ~astray => HolderCurrent /\ Honest

---------------------------------------------------------------------------
\* The next-state relation by operation: what is done with the lease, what
\* prepares the invocation's record, what changes the tools, what ends it.
Leases(p)   == Plan(p) \/ LeaseCall(p) \/ Die(p)
Prepares(p) == Reread(p) \/ Quarantine(p) \/ Preserve(p) \/ BeginProgress(p)
Mutates(p)  == OpenRow(p) \/ Swap(p) \/ Put(p) \/ Drop(p) \/ OpenReg(p) \/ Register(p)
Ends(p)     == \/ FailMirror(p) \/ FailRecord(p) \/ Verify(p) \/ Commit(p)
               \/ Completion(p) \/ Mirror(p) \/ Sweep(p) \/ Clean(p)
Works(p)    == Prepares(p) \/ Mutates(p) \/ Ends(p)

LEMMA RunSteps ==
    [Next]_vars => \/ \E p \in Proc : Leases(p) \/ Works(p)
                   \/ \E t \in Target : OperatorRepairs(t)
                   \/ UNCHANGED vars
BY DEF Next, Leases, Works, Prepares, Mutates, Ends

\* Who works holds the lease and keeps it or gives it up.
LEMMA WorksHeld ==
    ASSUME NEW p \in Proc, Works(p)
    PROVE  step[p] = "held" /\ (UNCHANGED leaseVars \/ Finish(p))
<1>1. CASE Prepares(p)
  BY <1>1 DEF Prepares, Reread, Quarantine, Preserve, BeginProgress, Working, Then, Goes, GiveUp
<1>2. CASE Mutates(p)
  BY <1>2 DEF Mutates, OpenRow, Swap, Put, Drop, OpenReg, Register, Fail, Working, Then, Goes, GiveUp
<1>3. CASE Ends(p)
  BY <1>3 DEF Ends, FailMirror, FailRecord, Verify, Commit, Completion, Mirror, Sweep, Clean,
       Working, Then, Goes, GiveUp
<1> QED
  BY <1>1, <1>2, <1>3 DEF Works

\* Of the lease the workflow makes no other use than the lease allows.
LEMMA UsesLease ==
    [Next]_vars => [LeaseNext]_leaseVars
<1> SUFFICES ASSUME [Next]_vars PROVE [LeaseNext]_leaseVars
  OBVIOUS
<1>1. ASSUME NEW p \in Proc, Leases(p) PROVE LeaseNext
  BY <1>1 DEF Leases, Plan, LeaseCall, Die, LeaseNext
<1>2. ASSUME NEW p \in Proc, Works(p) PROVE [LeaseNext]_leaseVars
  BY <1>2, WorksHeld DEF LeaseNext
<1>3. ASSUME NEW t \in Target, OperatorRepairs(t) PROVE UNCHANGED leaseVars
  BY <1>3 DEF OperatorRepairs
<1> QED
  BY <1>1, <1>2, <1>3, RunSteps DEF vars

\* At most one invocation of the workflow believes that it holds the lease.
THEOREM OneOwnerOfRun ==
    ASSUME MaxLive <= 2 PROVE Spec => []AtMostOneOwner
<1>1. Init => LeaseInv
  BY LeaseStarts DEF Init
<1>2. LeaseInv /\ [Next]_vars => LeaseInv'
  BY LeaseInvStep, UsesLease
<1>3. LeaseInv => AtMostOneOwner
  BY OneOwner
<1> QED
  BY <1>1, <1>2, <1>3, PTL DEF Spec

---------------------------------------------------------------------------
\* The data.

LEMMA RowTarget ==
    ASSUME NEW n \in 1 .. Len(Rows)
    PROVE  Rows[n] \in Target /\ SurfaceOf[Rows[n]] \in Tool /\ SurfaceOf[Rows[n]] \in Surface
<1>1. Rows[n] \in Target
  BY InstallAssumption
<1> QED
  BY <1>1 DEF Tool, Surface

LEMMA TargetSurface ==
    ASSUME NEW t \in Target PROVE SurfaceOf[t] \in Tool
BY DEF Tool

\* An envelope is no unusable record, and what is neither is one.
LEMMA Envelopes ==
    /\ \A e \in Envelope : IsEnv(e)
    /\ \A r \in Record : IsEnv(r) => r \in Envelope
    /\ NoRec \in Record /\ ~IsEnv(NoRec)
BY DEF Envelope, Record, IsEnv, NoRec, Unusable

\* What a persisted change of an envelope makes is an envelope.
LEMMA EnvelopeChanged ==
    ASSUME NEW e \in Envelope
    PROVE  /\ \A s \in Surface : [e EXCEPT !.bnd = s, !.row[s] = "open"] \in Envelope
           /\ \A row \in [Surface -> RowState], b \in Surface \cup {None} :
                 [e EXCEPT !.row = row, !.bnd = b] \in Envelope
           /\ \A s \in Surface, v \in RowState, b \in Surface \cup {None} :
                 [e EXCEPT !.row[s] = v, !.bnd = b] \in Envelope
           /\ \A b \in BOOLEAN : /\ [e EXCEPT !.schema = b] \in Envelope
                                 /\ [e EXCEPT !.compl = b] \in Envelope
                                 /\ [e EXCEPT !.clean = b] \in Envelope
BY DEF Envelope, RowState

LEMMA BeganType ==
    ASSUME RunType, NEW p \in Proc PROVE Began(p) \in Envelope
BY DEF RunType, Plans, Hands, Began, Envelope, RowState

LEMMA VerifiedType ==
    ASSUME NEW p \in Proc PROVE Verified(p) \in [Surface -> RowState]
BY DEF Verified, RowState

LEMMA FailedType ==
    ASSUME RunType, NEW p \in Proc PROVE Failed(p) \in Surface
<1>1. job[p].n \in Nat \ {0} /\ Len(Rows) \in Nat
  BY InstallAssumption DEF RunType, Hands
<1>2. CASE job[p].n > Len(Rows)
  BY <1>2 DEF Failed, Surface
<1>3. CASE job[p].n \in 1 .. Len(Rows)
  BY <1>1, <1>3, RowTarget DEF Failed, Row
<1> QED
  BY <1>1, <1>2, <1>3

LEMMA PlanType ==
    ASSUME RunType, NEW src \in Source, NEW c \in Answers(src), NEW r, NEW k
    PROVE  [mk |-> MarkerFor(src, c), ack |-> Uncertain(r, k)] \in Plans
<1>1. c \in Choice
  BY DEF Answers, Choice
<1>2. MarkerFor(src, c) \in Marker
  BY <1>1 DEF MarkerFor, Marker, RunType
<1>3. Uncertain(r, k) \subseteq Surface
  BY DEF Uncertain, Open
<1> QED
  BY <1>2, <1>3 DEF Plans

LEMMA EmptyHands ==
    NoPlan \in Plans /\ NoJob \in Hands /\ NoRec \in Record /\ NoMark \in Marker
BY InstallAssumption DEF NoPlan, NoJob, NoMark, Plans, Hands, Jobs, Marker, Choice, Source, RowState,
   NoRec, Record, Unusable

\* A change of the hand an invocation works with.
LEMMA HandsChanged ==
    ASSUME RunType, NEW p \in Proc
    PROVE  /\ \A a \in Jobs : /\ [job[p] EXCEPT !.at = a] \in Hands
                              /\ [job[p] EXCEPT !.at = a, !.n = @ + 1] \in Hands
                              /\ \A m \in {"none", "match", "other"} :
                                  [job[p] EXCEPT !.at = a, !.note = m] \in Hands
                              /\ \A m \in {"torn", "preserved"} :
                                  [job[p] EXCEPT !.at = a, !.mut = m] \in Hands
                              /\ \A row \in [Surface -> RowState] :
                                  [job[p] EXCEPT !.at = a, !.row = row] \in Hands
           /\ [job[p] EXCEPT !.n = @ + 1] \in Hands
<1> DEFINE h == job[p]
<1>1. h \in Hands
  BY DEF RunType
<1>2. /\ h.at \in Jobs /\ h.n + 1 \in Nat \ {0} /\ h.mut \in {"none", "torn", "preserved"}
      /\ h.note \in {"none", "match", "other"} /\ h.row \in [Surface -> RowState]
  BY <1>1 DEF Hands
<1> HIDE DEF h
<1>3. [h EXCEPT !.n = h.n + 1] \in Hands
  BY <1>1, <1>2 DEF Hands
<1>4. ASSUME NEW a \in Jobs PROVE [h EXCEPT !.at = a] \in Hands
  BY <1>1 DEF Hands
<1>5. ASSUME NEW a \in Jobs PROVE [h EXCEPT !.at = a, !.n = h.n + 1] \in Hands
  BY <1>1, <1>2 DEF Hands
<1>6. ASSUME NEW a \in Jobs, NEW m \in {"none", "match", "other"}
      PROVE [h EXCEPT !.at = a, !.note = m] \in Hands
  BY <1>1 DEF Hands
<1>7. ASSUME NEW a \in Jobs, NEW m \in {"torn", "preserved"}
      PROVE [h EXCEPT !.at = a, !.mut = m] \in Hands
  BY <1>1 DEF Hands
<1>8. ASSUME NEW a \in Jobs, NEW r \in [Surface -> RowState]
      PROVE [h EXCEPT !.at = a, !.row = r] \in Hands
  BY <1>1 DEF Hands
<1> QED
  BY <1>3, <1>4, <1>5, <1>6, <1>7, <1>8 DEF h

LEMMA GoesTyped ==
    ASSUME RunType, NEW p \in Proc
    PROVE  /\ \A h \in Hands : Goes(p, h) => job' \in [Proc -> Hands]
           /\ \A a \in Jobs : Then(p, a) => job' \in [Proc -> Hands]
           /\ \A m \in {"torn", "preserved"} : Fail(p, m) => job' \in [Proc -> Hands]
           /\ GiveUp(p) => job' \in [Proc -> Hands]
<1>1. \A h \in Hands : [job EXCEPT ![p] = h] \in [Proc -> Hands]
  BY DEF RunType
<1>2. "failmirror" \in Jobs
  BY DEF Jobs
<1> QED
  BY <1>1, <1>2, HandsChanged, EmptyHands DEF Goes, Then, Fail, GiveUp

---------------------------------------------------------------------------
\* Types, and each invocation's own work.
Sound == LeaseType /\ RunType /\ OwnWork

\* A step is nobody else's.
LEMMA Alone ==
    ASSUME Sound, NEW p \in Proc, Leases(p) \/ Works(p)
    PROVE  \A q \in Proc : q # p => /\ step'[q] = step[q] /\ plan'[q] = plan[q]
                                    /\ job'[q] = job[q] /\ cur'[q] = cur[q]
<1> SUFFICES ASSUME NEW q \in Proc, q # p
             PROVE  /\ step'[q] = step[q] /\ plan'[q] = plan[q]
                    /\ job'[q] = job[q] /\ cur'[q] = cur[q]
  OBVIOUS
<1> USE DEF Sound, LeaseType, RunType
<1>1. CASE Leases(p)
  <2>1. Does(p)
    BY <1>1 DEF Leases, Plan, LeaseCall, Die, LeaseStep, Does
  <2> QED
    BY <1>1, <2>1, Others DEF Leases, Plan, LeaseCall, Die, Forget
<1>2. CASE Prepares(p)
  BY <1>2 DEF Prepares, Reread, Quarantine, Preserve, BeginProgress, Then, Goes, GiveUp, Persist,
     Lost, Finish, Goto, leaseVars
<1>3. CASE Mutates(p)
  BY <1>3 DEF Mutates, OpenRow, Swap, Put, Drop, OpenReg, Register, Fail, Then, Goes, GiveUp,
     Persist, Lost, Finish, Goto, leaseVars
<1>4. CASE Ends(p)
  BY <1>4 DEF Ends, FailMirror, FailRecord, Verify, Commit, Completion, Mirror, Sweep, Clean, Then,
     Goes, GiveUp, Persist, Lost, Finish, Goto, leaseVars
<1> QED
  BY <1>1, <1>2, <1>3, <1>4 DEF Works

\* What the steps of an invocation make of its own variables and the disk.
LEMMA LeasesTyped ==
    ASSUME Sound, NEW p \in Proc, Leases(p) PROVE RunType'
<1> USE EmptyHands DEF Sound, RunType
<1>1. CASE Plan(p)
  BY <1>1, PlanType DEF Plan, disk
<1>2. CASE LeaseCall(p) \/ Die(p)
  BY <1>2 DEF LeaseCall, Die, Forget, disk
<1> QED
  BY <1>1, <1>2 DEF Leases

LEMMA PreparesTyped ==
    ASSUME Sound, NEW p \in Proc, Prepares(p) PROVE RunType'
<1>1. RunType
  BY DEF Sound
<1>2. job' \in [Proc -> Hands]
  <2>1. {"quarantine", "preserve", "begin", "open"} \subseteq Jobs
    BY DEF Jobs
  <2>2. CASE Reread(p)
    BY <1>1, <2>1, <2>2, HandsChanged, GoesTyped DEF Reread, CarriedNote
  <2>3. CASE Quarantine(p)
    BY <1>1, <2>1, <2>3, HandsChanged, GoesTyped DEF Quarantine
  <2>4. CASE Preserve(p)
    BY <1>1, <2>1, <2>4, HandsChanged, GoesTyped DEF Preserve, CarriedNote
  <2>5. CASE BeginProgress(p)
    BY <1>1, <2>1, <2>5, GoesTyped DEF BeginProgress
  <2> QED
    BY <2>2, <2>3, <2>4, <2>5 DEF Prepares
<1>3. rec' \in Record /\ cur' \in [Proc -> Record]
  BY <1>1, BeganType, EmptyHands DEF Prepares, Reread, Quarantine, Preserve, BeginProgress, Persist, Lost,
     RunType, Record, disk
<1> QED
  BY <1>1, <1>2, <1>3 DEF Prepares, Reread, Quarantine, Preserve, BeginProgress, RunType, disk

LEMMA MutatesTyped ==
    ASSUME Sound, NEW p \in Proc, Mutates(p) PROVE RunType'
<1>1. RunType /\ step[p] = "held" /\ plan[p].mk.src \in 0 .. NSource
  BY WorksHeld, InstallAssumption DEF Sound, RunType, Works, Plans, Marker, Source
<1>2. job' \in [Proc -> Hands]
  <2>1. {"open", "swap", "put", "drop", "reg", "verify"} \subseteq Jobs
    BY DEF Jobs
  <2>2. CASE OpenRow(p)
    BY <1>1, <2>1, <2>2, HandsChanged, GoesTyped DEF OpenRow
  <2>3. CASE Swap(p)
    BY <1>1, <2>1, <2>3, HandsChanged, GoesTyped DEF Swap
  <2>4. CASE Put(p) \/ Register(p)
    BY <1>1, <2>1, <2>4, GoesTyped DEF Put, Register
  <2>5. CASE Drop(p)
    BY <1>1, <2>1, <2>5, HandsChanged, GoesTyped DEF Drop
  <2>6. CASE OpenReg(p)
    BY <1>1, <2>1, <2>6, GoesTyped DEF OpenReg
  <2> QED
    BY <2>2, <2>3, <2>4, <2>5, <2>6 DEF Mutates
<1>3. rec' \in Record /\ cur' \in [Proc -> Record]
  <2>1. job[p].at \notin Preparing => \A s \in Surface : OpenedAt(p, s) \in Record
    BY <1>1, EnvelopeChanged DEF Sound, OwnWork, Own, OpenedAt, Record
  <2>2. CASE OpenRow(p)
    <3>1. job[p].n \in 1 .. Len(Rows)
      BY <1>1, <2>2, InstallAssumption DEF OpenRow, RunType, Hands
    <3> QED
      BY <1>1, <2>1, <2>2, <3>1, RowTarget DEF OpenRow, Working, Preparing, Persist, Lost, Row, RunType
  <2>3. CASE OpenReg(p)
    BY <1>1, <2>1, <2>3 DEF OpenReg, Working, Preparing, Persist, Lost, Surface, RunType
  <2> QED
    BY <1>1, <2>2, <2>3 DEF Mutates, Swap, Put, Drop, Register, RunType
<1>4. tool' \in [Target -> 0 .. NSource] /\ backup' \in [Target -> 0 .. NSource]
  <2>1. CASE Swap(p) \/ Put(p)
    <3>1. Row(p) \in Target
      BY <1>1, <2>1, RowTarget DEF Swap, Put, Working, Sound, OwnWork, Own, Row
    <3>2. 0 \in 0 .. NSource /\ tool[Row(p)] \in 0 .. NSource /\ backup[Row(p)] \in 0 .. NSource
      BY <1>1, <3>1, InstallAssumption DEF RunType
    <3>3. \A v \in 0 .. NSource : /\ [tool EXCEPT ![Row(p)] = v] \in [Target -> 0 .. NSource]
                                  /\ [backup EXCEPT ![Row(p)] = v] \in [Target -> 0 .. NSource]
      BY <1>1 DEF RunType
    <3>4. (tool' = tool \/ \E v \in 0 .. NSource : tool' = [tool EXCEPT ![Row(p)] = v])
      BY <1>1, <2>1, <3>2 DEF Swap, Put
    <3>5. (backup' = backup \/ \E v \in 0 .. NSource : backup' = [backup EXCEPT ![Row(p)] = v])
      BY <2>1, <3>2 DEF Swap, Put
    <3> QED
      BY <1>1, <3>3, <3>4, <3>5 DEF RunType
  <2>2. CASE ~(Swap(p) \/ Put(p))
    <3>1. 0 \in 0 .. NSource
      BY InstallAssumption
    <3> QED
      BY <1>1, <2>2, <3>1 DEF Mutates, OpenRow, Drop, OpenReg, Register, RunType
  <2> QED
    BY <2>1, <2>2
<1>5. plan' = plan /\ reg' \in BOOLEAN /\ faults' \in Nat
  <2>1. faults \in Nat /\ reg \in BOOLEAN /\ (Fault => faults' \in Nat)
    BY <1>1 DEF RunType, Fault
  <2> QED
    BY <2>1 DEF Mutates, OpenRow, Swap, Put, Drop, OpenReg, Register
<1> QED
  BY <1>1, <1>2, <1>3, <1>4, <1>5 DEF RunType

LEMMA EndsTyped ==
    ASSUME Sound, NEW p \in Proc, Ends(p) PROVE RunType'
<1>1. RunType /\ (job[p].at \notin Preparing => cur[p] \in Envelope)
  BY WorksHeld DEF Sound, Works, OwnWork, Own
<1>2. job' \in [Proc -> Hands]
  <2>1. {"failrecord", "commit", "completion", "mirror", "sweep", "clean"} \subseteq Jobs
    BY DEF Jobs
  <2>2. CASE FailMirror(p)
    <3>1. [Verified(p) EXCEPT ![Failed(p)] = IF job[p].mut = "torn" THEN "torn" ELSE "undone"]
             \in [Surface -> RowState]
      BY VerifiedType DEF RowState
    <3> QED
      BY <1>1, <2>1, <2>2, <3>1, HandsChanged, GoesTyped DEF FailMirror
  <2>3. CASE Verify(p)
    BY <1>1, <2>1, <2>3, VerifiedType, HandsChanged, GoesTyped DEF Verify
  <2>4. CASE FailRecord(p) \/ Commit(p) \/ Completion(p) \/ Mirror(p) \/ Sweep(p) \/ Clean(p)
    BY <1>1, <2>1, <2>4, GoesTyped DEF FailRecord, Commit, Completion, Mirror, Sweep, Clean
  <2> QED
    BY <2>2, <2>3, <2>4 DEF Ends
<1>3. rec' \in Record /\ cur' \in [Proc -> Record]
  <2>1. ASSUME NEW e \in Envelope, Persist(p, e) PROVE rec' \in Record /\ cur' \in [Proc -> Record]
    BY <1>1, <2>1 DEF Persist, RunType, Record
  <2>2. Lost(p) => rec' \in Record /\ cur' \in [Proc -> Record]
    BY <1>1 DEF Lost, RunType
  <2>3. job[p] \in Hands
    BY <1>1 DEF RunType
  <2>4. CASE FailRecord(p)
    <3>1. [cur[p] EXCEPT !.row = job[p].row, !.bnd = IF job[p].mut = "torn" THEN @ ELSE None]
             \in Envelope
      BY <1>1, <2>3, <2>4 DEF FailRecord, Working, Preparing, Envelope, Hands
    <3> QED
      BY <2>1, <2>2, <2>4, <3>1 DEF FailRecord
  <2>5. CASE Commit(p)
    <3>1. cur[p] \in Envelope
      BY <1>1, <2>5 DEF Commit, Working, Preparing
    <3>2. CASE Uncommitted(p) # {}
      <4> DEFINE s == CHOOSE x \in Uncommitted(p) : TRUE
                 new == [cur[p] EXCEPT !.row[s] = job[p].row[s], !.bnd = IF @ = s THEN None ELSE @]
      <4>1. s \in Surface
        BY <3>2 DEF Uncommitted
      <4>2. new \in Envelope
        BY <2>3, <3>1, <4>1 DEF Envelope, Hands
      <4>3. Persist(p, new) \/ Lost(p)
        BY <2>5, <3>2 DEF Commit
      <4> QED
        BY <2>1, <2>2, <4>2, <4>3
    <3>3. CASE Uncommitted(p) = {}
      <4>1. [cur[p] EXCEPT !.schema = Complete(p, job[p].row)] \in Envelope
        BY <3>1, EnvelopeChanged DEF Complete
      <4> QED
        BY <2>1, <2>2, <2>5, <3>3, <4>1 DEF Commit
    <3> QED
      BY <3>2, <3>3
  <2>6. CASE Completion(p) \/ Clean(p)
    <3>1. [cur[p] EXCEPT !.compl = TRUE] \in Envelope /\ [cur[p] EXCEPT !.clean = TRUE] \in Envelope
      BY <1>1, <2>6, EnvelopeChanged DEF Completion, Clean, Working, Preparing
    <3> QED
      BY <2>1, <2>2, <2>6, <3>1 DEF Completion, Clean
  <2>7. CASE FailMirror(p) \/ Verify(p) \/ Mirror(p) \/ Sweep(p)
    BY <1>1, <2>7 DEF FailMirror, Verify, Mirror, Sweep, RunType, disk
  <2> QED
    BY <2>4, <2>5, <2>6, <2>7 DEF Ends
<1> QED
  BY <1>1, <1>2, <1>3 DEF Ends, FailMirror, FailRecord, Verify, Commit, Completion, Mirror, Sweep,
     Clean, RunType, disk

\* The operator's repair.
LEMMA RepairTyped ==
    ASSUME Sound, NEW t \in Target, OperatorRepairs(t) PROVE Sound'
<1>1. 0 \in 0 .. NSource
  BY InstallAssumption
<1> QED
  BY <1>1 DEF Sound, RunType, OwnWork, Own, OperatorRepairs, leaseVars, runVars, LeaseType

\* An invocation's step keeps its work its own.
LEMMA OwnByLease ==
    ASSUME Sound, NEW p \in Proc, Leases(p) PROVE Own(p)'
<1> USE DEF Sound, LeaseType, RunType, OwnWork, Own, Preparing
<1>1. CASE Plan(p)
  BY <1>1 DEF Plan, Begin, Goto
<1>2. CASE LeaseCall(p)
  <2>1. step[p] \notin {"held"} /\ job[p].at = "reread"
    BY <1>2 DEF LeaseCall, LeaseStep, Create, Write, Confirm, Inspect, Judge, Recheck, Move, Compare,
         Restore, Release
  <2>2. job'[p].at = "reread"
    BY <1>2, <2>1 DEF LeaseCall, Forget, NoJob
  <2> QED
    BY <2>2
<1>3. CASE Die(p)
  <2>1. job'[p].at = "reread"
    BY <1>3 DEF Die, Crash, Goto, Forget, Ended, NoJob
  <2> QED
    BY <2>1
<1> QED
  BY <1>1, <1>2, <1>3 DEF Leases

\* What a change of its progress leaves of an invocation's hand.
To(p, a) == job'[p].at = a /\ step' = step
Same(p)  == job'[p].n = job[p].n /\ job'[p].row = job[p].row

LEMMA HandFields ==
    ASSUME RunType, NEW p \in Proc
    PROVE  /\ \A a : Then(p, a) => To(p, a) /\ Same(p)
           /\ \A a, v : Goes(p, [job[p] EXCEPT !.at = a, !.note = v]) => To(p, a)
           /\ \A a, v : Goes(p, [job[p] EXCEPT !.at = a, !.n = v]) => To(p, a)
           /\ \A a, v : Goes(p, [job[p] EXCEPT !.at = a, !.row = v])
                         => To(p, a) /\ job'[p].row = v
           /\ \A v : Goes(p, [job[p] EXCEPT !.n = v]) => To(p, job[p].at)
           /\ \A m : Fail(p, m) => To(p, "failmirror")
<1> DEFINE h == job[p]
<1>1. h \in Hands /\ \A x : Goes(p, x) => job'[p] = x /\ step' = step
  BY DEF RunType, Goes, leaseVars
<1> HIDE DEF h
<1>2. ASSUME NEW a, Goes(p, [h EXCEPT !.at = a]) PROVE job'[p].at = a /\ job'[p].n = h.n /\ job'[p].row = h.row
  <2>1. job'[p] = [h EXCEPT !.at = a]
    BY <1>1, <1>2
  <2> QED
    BY <1>1, <2>1 DEF Hands
<1>3. ASSUME NEW a, NEW v, Goes(p, [h EXCEPT !.at = a, !.note = v]) PROVE job'[p].at = a
  <2>1. job'[p] = [h EXCEPT !.at = a, !.note = v]
    BY <1>1, <1>3
  <2> QED
    BY <1>1, <2>1 DEF Hands
<1>4. ASSUME NEW a, NEW v, Goes(p, [h EXCEPT !.at = a, !.n = v]) PROVE job'[p].at = a
  <2>1. job'[p] = [h EXCEPT !.at = a, !.n = v]
    BY <1>1, <1>4
  <2> QED
    BY <1>1, <2>1 DEF Hands
<1>5. ASSUME NEW a, NEW v, Goes(p, [h EXCEPT !.at = a, !.row = v]) PROVE job'[p].at = a /\ job'[p].row = v
  <2>1. job'[p] = [h EXCEPT !.at = a, !.row = v]
    BY <1>1, <1>5
  <2> QED
    BY <1>1, <2>1 DEF Hands
<1>6. ASSUME NEW v, Goes(p, [h EXCEPT !.n = v]) PROVE job'[p].at = h.at
  <2>1. job'[p] = [h EXCEPT !.n = v]
    BY <1>1, <1>6
  <2> QED
    BY <1>1, <2>1 DEF Hands
<1>7. ASSUME NEW m, Goes(p, [h EXCEPT !.at = "failmirror", !.mut = m]) PROVE job'[p].at = "failmirror"
  <2>1. job'[p] = [h EXCEPT !.at = "failmirror", !.mut = m]
    BY <1>1, <1>7
  <2> QED
    BY <1>1, <2>1 DEF Hands
<1>8. \A x : Goes(p, x) => step' = step
  BY <1>1
<1>9. /\ \A a : Then(p, a) <=> Goes(p, [h EXCEPT !.at = a])
      /\ \A m : Fail(p, m) <=> Goes(p, [h EXCEPT !.at = "failmirror", !.mut = m])
  BY DEF Then, Goes, Fail, h
<1>10. h = job[p]
  BY DEF h
<1>11. \A a : Then(p, a) => To(p, a) /\ Same(p)
  BY <1>2, <1>8, <1>9, <1>10 DEF To, Same
<1>12. \A m : Fail(p, m) => To(p, "failmirror")
  BY <1>7, <1>8, <1>9 DEF To
<1>13. /\ \A a, v : Goes(p, [h EXCEPT !.at = a, !.note = v]) => To(p, a)
       /\ \A a, v : Goes(p, [h EXCEPT !.at = a, !.n = v]) => To(p, a)
       /\ \A a, v : Goes(p, [h EXCEPT !.at = a, !.row = v]) => To(p, a) /\ job'[p].row = v
       /\ \A v : Goes(p, [h EXCEPT !.n = v]) => To(p, h.at)
  BY <1>3, <1>4, <1>5, <1>6, <1>8 DEF To
<1> QED
  BY <1>11, <1>12, <1>13 DEF h

\* Where each step of the work leads.
LEMMA Course ==
    ASSUME RunType, NEW p \in Proc
    PROVE  /\ Reread(p) => GiveUp(p) \/ \E a \in Judged : To(p, a)
           /\ Quarantine(p) => To(p, "begin")
           /\ Preserve(p) => GiveUp(p) \/ To(p, "begin")
           /\ BeginProgress(p) => GiveUp(p) \/ To(p, "open")
           /\ OpenRow(p) => \/ GiveUp(p) \/ To(p, "open")
                            \/ (To(p, "swap") /\ Same(p))
           /\ Swap(p) => \/ To(p, "open") \/ To(p, "failmirror")
                         \/ (To(p, "put") /\ Same(p))
           /\ Put(p) => To(p, "failmirror") \/ (To(p, "drop") /\ Same(p))
           /\ Drop(p) => To(p, "failmirror") \/ To(p, "open")
           /\ OpenReg(p) => GiveUp(p) \/ To(p, "reg") \/ To(p, "verify")
           /\ Register(p) => To(p, "verify") \/ To(p, "failmirror")
           /\ FailMirror(p) => To(p, "failrecord")
           /\ FailRecord(p) => GiveUp(p)
           /\ Verify(p) => To(p, "commit") /\ job'[p].row = Verified(p)
           /\ Commit(p) => GiveUp(p) \/ To(p, "mirror") \/ ((To(p, "commit") \/ To(p, "completion")) /\ Same(p))
           /\ Completion(p) => GiveUp(p) \/ To(p, "mirror")
           /\ Mirror(p) => GiveUp(p) \/ To(p, "sweep")
           /\ Sweep(p) => To(p, "clean")
           /\ Clean(p) => GiveUp(p)
<1>1. Reread(p) => \/ GiveUp(p) \/ Then(p, "quarantine") \/ Then(p, "preserve")
                   \/ \E v : Goes(p, [job[p] EXCEPT !.at = "begin", !.note = v])
  BY DEF Reread
<1>2. /\ Quarantine(p) => \E v : Goes(p, [job[p] EXCEPT !.at = "begin", !.note = v])
      /\ Preserve(p) => GiveUp(p) \/ \E v : Goes(p, [job[p] EXCEPT !.at = "begin", !.note = v])
  BY DEF Quarantine, Preserve
<1>3. OpenRow(p) => \/ GiveUp(p) \/ Then(p, "swap")
                    \/ job[p].at = "open" /\ \E v : Goes(p, [job[p] EXCEPT !.n = v])
  BY DEF OpenRow, Working
<1>4. /\ Swap(p) => \/ Then(p, "put") \/ \E m : Fail(p, m)
                    \/ \E v : Goes(p, [job[p] EXCEPT !.at = "open", !.n = v])
      /\ Drop(p) => \/ \E m : Fail(p, m)
                    \/ \E v : Goes(p, [job[p] EXCEPT !.at = "open", !.n = v])
  BY DEF Swap, Drop
<1>5. /\ FailMirror(p) => \E v : Goes(p, [job[p] EXCEPT !.at = "failrecord", !.row = v])
      /\ Verify(p) => Goes(p, [job[p] EXCEPT !.at = "commit", !.row = Verified(p)])
  BY DEF FailMirror, Verify
<1>6. /\ BeginProgress(p) => GiveUp(p) \/ Then(p, "open")
      /\ Put(p) => Then(p, "drop") \/ \E m : Fail(p, m)
      /\ OpenReg(p) => GiveUp(p) \/ Then(p, "reg") \/ Then(p, "verify")
      /\ Register(p) => Then(p, "verify") \/ \E m : Fail(p, m)
      /\ FailRecord(p) => GiveUp(p)
      /\ Commit(p) => GiveUp(p) \/ Then(p, "mirror") \/ Then(p, "commit") \/ Then(p, "completion")
      /\ Completion(p) => GiveUp(p) \/ Then(p, "mirror")
      /\ Mirror(p) => GiveUp(p) \/ Then(p, "sweep")
      /\ Sweep(p) => Then(p, "clean")
      /\ Clean(p) => GiveUp(p)
  BY DEF BeginProgress, Put, OpenReg, Register, FailRecord, Commit, Completion, Mirror, Sweep, Clean
<1>7. \A a : Then(p, a) => To(p, a) /\ Same(p)
  BY HandFields
<1>8. \A m : Fail(p, m) => To(p, "failmirror")
  BY HandFields
<1>9. /\ \A a, v : Goes(p, [job[p] EXCEPT !.at = a, !.note = v]) => To(p, a)
      /\ \A a, v : Goes(p, [job[p] EXCEPT !.at = a, !.n = v]) => To(p, a)
      /\ \A v : Goes(p, [job[p] EXCEPT !.n = v]) => To(p, job[p].at)
  BY HandFields
<1>10. \A a, v : Goes(p, [job[p] EXCEPT !.at = a, !.row = v]) => To(p, a) /\ job'[p].row = v
  BY HandFields
<1>11. /\ (\E v : Goes(p, [job[p] EXCEPT !.at = "begin", !.note = v])) => To(p, "begin")
       /\ (\E v : Goes(p, [job[p] EXCEPT !.at = "open", !.n = v])) => To(p, "open")
       /\ job[p].at = "open" /\ (\E v : Goes(p, [job[p] EXCEPT !.n = v])) => To(p, "open")
       /\ (\E m : Fail(p, m)) => To(p, "failmirror")
  <2>1. ASSUME NEW v, Goes(p, [job[p] EXCEPT !.at = "begin", !.note = v]) PROVE To(p, "begin")
    BY <1>9, <2>1
  <2>2. ASSUME NEW v, Goes(p, [job[p] EXCEPT !.at = "open", !.n = v]) PROVE To(p, "open")
    BY <1>9, <2>2
  <2>3. ASSUME NEW v, Goes(p, [job[p] EXCEPT !.n = v]) PROVE To(p, job[p].at)
    BY <1>9, <2>3
  <2> QED
    BY <1>8, <2>1, <2>2, <2>3
<1>12. /\ Reread(p) => GiveUp(p) \/ \E a \in Judged : To(p, a)
       /\ Quarantine(p) => To(p, "begin")
       /\ Preserve(p) => GiveUp(p) \/ To(p, "begin")
  <2>1. {"quarantine", "preserve", "begin"} = Judged
    BY DEF Judged
  <2>2. Reread(p) => GiveUp(p) \/ To(p, "quarantine") \/ To(p, "preserve") \/ To(p, "begin")
    BY <1>1, <1>7, <1>11
  <2> QED
    BY <1>2, <1>11, <2>1, <2>2
<1>13. OpenRow(p) => GiveUp(p) \/ To(p, "open") \/ (To(p, "swap") /\ Same(p))
  BY <1>3, <1>7, <1>11
<1>14. /\ Swap(p) => To(p, "open") \/ To(p, "failmirror") \/ (To(p, "put") /\ Same(p))
       /\ Drop(p) => To(p, "failmirror") \/ To(p, "open")
  BY <1>4, <1>7, <1>11
<1>15. /\ FailMirror(p) => To(p, "failrecord")
       /\ Verify(p) => To(p, "commit") /\ job'[p].row = Verified(p)
  BY <1>5, <1>10
<1> QED
  BY <1>6, <1>7, <1>8, <1>12, <1>13, <1>14, <1>15

\* What giving up leaves.
LEMMA GivesUp ==
    ASSUME Sound, NEW p \in Proc, GiveUp(p) PROVE job'[p].at = "reread" /\ step'[p] # "held"
BY DEF GiveUp, Finish, Goto, NoJob, Sound, RunType, LeaseType

LEMMA OwnByPreparing ==
    ASSUME Sound, NEW p \in Proc, Prepares(p) PROVE Own(p)'
<1>1. RunType /\ step[p] = "held"
  BY WorksHeld DEF Sound, Works
<1>2. CASE GiveUp(p)
  BY <1>2, GivesUp DEF Own, Preparing
<1>3. CASE ~GiveUp(p) /\ ~BeginProgress(p)
  <2>1. job'[p].at \in Preparing /\ step' = step
    BY <1>1, <1>3, Course DEF Prepares, Preparing, Judged, To
  <2> QED
    BY <1>1, <2>1 DEF Own, Preparing
<1>4. CASE ~GiveUp(p) /\ BeginProgress(p)
  <2>1. job'[p].at = "open" /\ plan' = plan /\ step' = step
    BY <1>1, <1>4, Course DEF BeginProgress, To
  <2>2. cur'[p] = Began(p)
    BY <1>1, <1>4 DEF BeginProgress, Persist, RunType, Lost, Then, GiveUp, Finish, Goto
  <2>3. Began(p).by = p /\ Began(p).mk = plan[p].mk /\ Began(p) \in Envelope
    BY <1>1, BeganType DEF Began
  <2> QED
    BY <1>1, <2>1, <2>2, <2>3 DEF Own
<1> QED
  BY <1>2, <1>3, <1>4

\* A change of the envelope keeps whose it is, and all but Completion keep
\* whether it is complete.
Revises(p, e) == /\ e \in Envelope /\ e.by = cur[p].by /\ e.mk = cur[p].mk
                 /\ e.compl = cur[p].compl

LEMMA Revised ==
    ASSUME NEW p \in Proc, cur[p] \in Envelope
    PROVE  /\ Revises(p, cur[p])
           /\ \A s \in Surface : Revises(p, OpenedAt(p, s))
           /\ \A row \in [Surface -> RowState], b \in Surface \cup {None} :
                 Revises(p, [cur[p] EXCEPT !.row = row, !.bnd = b])
           /\ \A s \in Surface, v \in RowState, b \in Surface \cup {None} :
                 Revises(p, [cur[p] EXCEPT !.row[s] = v, !.bnd = b])
           /\ \A b \in BOOLEAN : /\ Revises(p, [cur[p] EXCEPT !.schema = b])
                                 /\ [cur[p] EXCEPT !.schema = b].schema = b
<1> DEFINE e == cur[p]
<1>1. e \in Envelope
  OBVIOUS
<1> HIDE DEF e
<1>2. ASSUME NEW s \in Surface
      PROVE  LET f == [e EXCEPT !.bnd = s, !.row[s] = "open"]
             IN  f \in Envelope /\ f.by = e.by /\ f.mk = e.mk /\ f.compl = e.compl
  BY <1>1 DEF Envelope, RowState
<1>3. ASSUME NEW row \in [Surface -> RowState], NEW b \in Surface \cup {None}
      PROVE  LET f == [e EXCEPT !.row = row, !.bnd = b]
             IN  f \in Envelope /\ f.by = e.by /\ f.mk = e.mk /\ f.compl = e.compl
  BY <1>1 DEF Envelope
<1>4. ASSUME NEW s \in Surface, NEW v \in RowState, NEW b \in Surface \cup {None}
      PROVE  LET f == [e EXCEPT !.row[s] = v, !.bnd = b]
             IN  f \in Envelope /\ f.by = e.by /\ f.mk = e.mk /\ f.compl = e.compl
  BY <1>1 DEF Envelope
<1>5. ASSUME NEW b \in BOOLEAN
      PROVE  LET f == [e EXCEPT !.schema = b]
             IN  /\ f \in Envelope /\ f.by = e.by /\ f.mk = e.mk /\ f.compl = e.compl
                 /\ f.schema = b
  BY <1>1 DEF Envelope
<1> QED
  BY <1>1, <1>2, <1>3, <1>4, <1>5 DEF e, Revises, OpenedAt

\* What the work after the first record writes.
LEMMA Writes ==
    ASSUME Sound, NEW p \in Proc, Mutates(p) \/ Ends(p)
    PROVE  /\ step[p] = "held" /\ job[p].at \notin Preparing /\ plan' = plan
           /\ cur[p] \in Envelope /\ cur[p].by = p /\ cur[p].mk = plan[p].mk
           /\ \/ UNCHANGED <<rec, cur>>
              \/ \E e : Persist(p, e) /\ Revises(p, e)
              \/ Completion(p) /\ Persist(p, [cur[p] EXCEPT !.compl = TRUE])
              \/ Clean(p) /\ Persist(p, [cur[p] EXCEPT !.clean = TRUE])
<1>1. step[p] = "held" /\ job[p].at \notin Preparing /\ plan' = plan
  <2>1. CASE Mutates(p)
    BY <2>1, WorksHeld DEF Works, Mutates, OpenRow, Swap, Put, Drop, OpenReg, Register, Working, Preparing
  <2>2. CASE Ends(p)
    BY <2>2, WorksHeld DEF Works, Ends, FailMirror, FailRecord, Verify, Commit, Completion, Mirror,
       Sweep, Clean, Working, Preparing
  <2> QED
    BY <2>1, <2>2
<1>2. cur[p] \in Envelope /\ cur[p].by = p /\ cur[p].mk = plan[p].mk
  BY <1>1 DEF Sound, OwnWork, Own
<1>3. RunType /\ job[p] \in Hands
  BY DEF Sound, RunType
<1>4. job[p].row \in [Surface -> RowState] /\ job[p].n \in Nat \ {0}
  BY <1>3 DEF Hands
<1>5. CASE OpenRow(p) \/ OpenReg(p)
  <2>1. CASE OpenRow(p)
    <3>1. job[p].n \in 1 .. Len(Rows)
      BY <1>4, <2>1, InstallAssumption DEF OpenRow
    <3>2. SurfaceOf[Row(p)] \in Surface
      BY <3>1, RowTarget DEF Row
    <3>3. UNCHANGED <<rec, cur>> \/ Persist(p, OpenedAt(p, SurfaceOf[Row(p)]))
      BY <2>1 DEF OpenRow, Lost
    <3>4. Revises(p, OpenedAt(p, SurfaceOf[Row(p)]))
      BY <1>2, <3>2, Revised
    <3> QED
      BY <1>1, <1>2, <3>3, <3>4
  <2>2. CASE OpenReg(p)
    <3>1. Revises(p, OpenedAt(p, "reg"))
      BY <1>2, Revised DEF Surface
    <3> QED
      BY <1>1, <1>2, <2>2, <3>1 DEF OpenReg, Lost
  <2> QED
    BY <1>5, <2>1, <2>2
<1>6. CASE Swap(p) \/ Put(p) \/ Drop(p) \/ Register(p)
  BY <1>1, <1>2, <1>6 DEF Swap, Put, Drop, Register
<1>7. CASE FailRecord(p)
  <2>1. (IF job[p].mut = "torn" THEN cur[p].bnd ELSE None) \in Surface \cup {None}
    BY <1>2 DEF Envelope
  <2>2. Revises(p, [cur[p] EXCEPT !.row = job[p].row,
                                  !.bnd = IF job[p].mut = "torn" THEN cur[p].bnd ELSE None])
    BY <1>2, <1>4, <2>1, Revised
  <2> QED
    BY <1>1, <1>2, <1>7, <2>2 DEF FailRecord, Lost
<1>8. CASE Commit(p)
  <2>1. CASE Uncommitted(p) # {}
    <3> DEFINE s == CHOOSE x \in Uncommitted(p) : TRUE
    <3>1. s \in Surface
      BY <2>1 DEF Uncommitted
    <3>2. (IF cur[p].bnd = s THEN None ELSE cur[p].bnd) \in Surface \cup {None}
      BY <1>2 DEF Envelope
    <3>3. Revises(p, [cur[p] EXCEPT !.row[s] = job[p].row[s],
                                    !.bnd = IF cur[p].bnd = s THEN None ELSE cur[p].bnd])
      BY <1>2, <1>4, <3>1, <3>2, Revised
    <3> QED
      BY <1>1, <1>2, <1>8, <2>1, <3>3 DEF Commit, Lost
  <2>2. CASE Uncommitted(p) = {}
    <3>1. Revises(p, [cur[p] EXCEPT !.schema = Complete(p, job[p].row)])
      BY <1>2, Revised DEF Complete
    <3> QED
      BY <1>1, <1>2, <1>8, <2>2, <3>1 DEF Commit, Lost
  <2> QED
    BY <2>1, <2>2
<1>9. CASE Completion(p) \/ Clean(p)
  BY <1>1, <1>2, <1>9 DEF Completion, Clean, Lost
<1>10. CASE FailMirror(p) \/ Verify(p) \/ Mirror(p) \/ Sweep(p)
  BY <1>1, <1>2, <1>10 DEF FailMirror, Verify, Mirror, Sweep, disk
<1> QED
  BY <1>5, <1>6, <1>7, <1>8, <1>9, <1>10 DEF Mutates, Ends

\* What is left in the record and in memory by a step after the first record.
LEMMA Written ==
    ASSUME Sound, NEW p \in Proc, Mutates(p) \/ Ends(p)
    PROVE  /\ cur'[p] \in Envelope /\ cur'[p].by = p /\ cur'[p].mk = plan'[p].mk
           /\ rec = cur[p] => rec' = cur'[p]
           /\ cur'[p].compl = cur[p].compl \/ Completion(p)
<1>1. /\ cur[p] \in Envelope /\ cur[p].by = p /\ cur[p].mk = plan[p].mk /\ plan' = plan
      /\ cur \in [Proc -> Record]
  BY Writes DEF Sound, RunType
<1>2. CASE UNCHANGED <<rec, cur>>
  BY <1>1, <1>2
<1>3. ASSUME NEW e, Persist(p, e), e \in Envelope, e.by = cur[p].by, e.mk = cur[p].mk,
             e.compl = cur[p].compl \/ Completion(p)
      PROVE  /\ cur'[p] \in Envelope /\ cur'[p].by = p /\ cur'[p].mk = plan'[p].mk
             /\ rec' = cur'[p]
             /\ cur'[p].compl = cur[p].compl \/ Completion(p)
  <2>1. cur'[p] = e /\ rec' = e
    BY <1>1, <1>3 DEF Persist
  <2> QED
    BY <1>1, <1>3, <2>1
<1>4. CASE \E e : Persist(p, e) /\ Revises(p, e)
  BY <1>3, <1>4 DEF Revises
<1>5. CASE Completion(p) /\ Persist(p, [cur[p] EXCEPT !.compl = TRUE])
  <2> DEFINE e == [cur[p] EXCEPT !.compl = TRUE]
  <2>1. e \in Envelope /\ e.by = cur[p].by /\ e.mk = cur[p].mk
    BY <1>1 DEF Envelope
  <2> QED
    BY <1>3, <1>5, <2>1
<1>6. CASE Clean(p) /\ Persist(p, [cur[p] EXCEPT !.clean = TRUE])
  <2> DEFINE e == [cur[p] EXCEPT !.clean = TRUE]
  <2>1. e \in Envelope /\ e.by = cur[p].by /\ e.mk = cur[p].mk /\ e.compl = cur[p].compl
    BY <1>1 DEF Envelope
  <2> QED
    BY <1>3, <1>6, <2>1
<1> QED
  BY <1>2, <1>3, <1>4, <1>5, <1>6, Writes

LEMMA OwnByWork ==
    ASSUME Sound, NEW p \in Proc, Mutates(p) \/ Ends(p) PROVE Own(p)'
<1>1. /\ RunType /\ step[p] = "held"
      /\ cur'[p] \in Envelope /\ cur'[p].by = p /\ cur'[p].mk = plan'[p].mk
  BY Writes, Written DEF Sound
<1>2. CASE GiveUp(p)
  BY <1>2, GivesUp DEF Own
<1>3. CASE ~GiveUp(p)
  <2>1. step' = step
    BY <1>1, <1>3, Course DEF Mutates, Ends, To
  <2>2. job'[p].at \in {"swap", "put", "drop"} => job'[p].n \in 1 .. Len(Rows)
    <3>1. job[p].n \in Nat \ {0} /\ Len(Rows) \in Nat /\ Own(p)
      BY <1>1, InstallAssumption DEF RunType, Hands, Sound, OwnWork
    <3>2. CASE OpenRow(p)
      <4>1. job[p].n \in 1 .. Len(Rows)
        BY <3>1, <3>2 DEF OpenRow
      <4> QED
        BY <1>1, <1>3, <3>2, <4>1, Course DEF To, Same
    <3>3. CASE Swap(p) \/ Put(p)
      <4>1. job[p].n \in 1 .. Len(Rows)
        BY <3>1, <3>3 DEF Swap, Put, Working, Own
      <4> QED
        BY <1>1, <3>3, <4>1, Course DEF To, Same
    <3>4. CASE ~OpenRow(p) /\ ~Swap(p) /\ ~Put(p)
      BY <1>1, <1>3, <3>4, Course DEF Mutates, Ends, To
    <3> QED
      BY <3>2, <3>3, <3>4
  <2> QED
    BY <1>1, <2>1, <2>2 DEF Own
<1> QED
  BY <1>2, <1>3

\* Everything so far, for every step.
LEMMA SoundStep ==
    ASSUME Sound, LeaseType', [Next]_vars PROVE Sound'
<1>1. CASE UNCHANGED vars
  BY <1>1 DEF vars, leaseVars, disk, runVars, Sound, LeaseType, RunType, OwnWork, Own
<1>2. ASSUME NEW p \in Proc, Leases(p) \/ Works(p) PROVE Sound'
  <2>1. RunType'
    BY <1>2, LeasesTyped, PreparesTyped, MutatesTyped, EndsTyped DEF Works
  <2>2. Own(p)'
    BY <1>2, OwnByLease, OwnByPreparing, OwnByWork DEF Works
  <2>3. ASSUME NEW q \in Proc, q # p PROVE Own(q)'
    BY <1>2, <2>3, Alone DEF Sound, OwnWork, Own
  <2> QED
    BY <2>1, <2>2, <2>3 DEF Sound, OwnWork
<1> QED
  BY <1>1, <1>2, RepairTyped, RunSteps

---------------------------------------------------------------------------
\* What the holder knows, and what a complete record says, as long as no mishap
\* took a live holder's lease.
Exact == Sound /\ AtMostOneOwner /\ ~astray /\ HolderCurrent /\ Honest

\* Who works works alone.
LEMMA OnlyOne ==
    ASSUME Exact, NEW p \in Proc, Works(p)
    PROVE  \A q \in Proc : q # p => step'[q] # "held"
BY WorksHeld, Alone DEF Exact, AtMostOneOwner

\* A step that only touches the lease leaves the disk as everybody knows it.
LEMMA ExactByLease ==
    ASSUME Exact, NEW p \in Proc, Leases(p)
    PROVE  HolderCurrent' /\ Honest'
<1>1. UNCHANGED disk
  BY DEF Leases, Plan, LeaseCall, Die
<1>2. Honest'
  BY <1>1 DEF disk, Honest, Exact
<1>3. ASSUME NEW q \in Proc, step'[q] = "held" PROVE Current(q)'
  <2>1. CASE q = p
    <3>1. step[p] # "held"
      BY <1>3, <2>1 DEF Leases, Plan, Begin, LeaseCall, LeaseStep, Create, Write, Confirm, Inspect,
           Judge, Recheck, Move, Compare, Restore, Release, Die, Crash, Live, Goto, Ended, Exact,
           Sound, LeaseType
    <3>2. job'[p].at = "reread"
      BY <1>3, <2>1, <3>1 DEF Leases, Plan, LeaseCall, Die, Forget, Ended, Exact, Sound, OwnWork, Own
    <3> QED
      BY <2>1, <3>2 DEF Current, Judged, Preparing, Closing, Verifying
  <2>2. CASE q # p
    <3>1. step[q] = "held" /\ plan'[q] = plan[q] /\ job'[q] = job[q] /\ cur'[q] = cur[q]
      BY <1>3, <2>2, Alone DEF Exact
    <3>2. Current(q)
      BY <3>1 DEF Exact, HolderCurrent
    <3> QED
      BY <1>1, <3>1, <3>2 DEF disk, Current, Row, Verified, Complete
  <2> QED
    BY <2>1, <2>2
<1> QED
  BY <1>2, <1>3 DEF HolderCurrent

\* Preparing its record, an invocation knows that it replaces nothing that was
\* not inspected, and writes a record of its own that claims nothing.
LEMMA ExactByPreparing ==
    ASSUME Exact, NEW p \in Proc, Prepares(p)
    PROVE  (step'[p] = "held" => Current(p)') /\ Honest'
<1>1. RunType /\ step[p] = "held" /\ Current(p)
  BY WorksHeld DEF Works, Exact, Sound, HolderCurrent
<1> USE DEF Judged, Preparing, Closing, Verifying
<1>2. CASE Reread(p)
  <2>1. GiveUp(p) \/ Open(rec) \subseteq plan[p].ack
    BY <1>2 DEF Reread, Gate, Uncertain
  <2>2. rec' = rec /\ plan' = plan /\ Honest'
    BY <1>2 DEF Reread, disk, Honest, Exact
  <2>3. GiveUp(p) \/ job'[p].at \in Judged
    BY <1>1, <1>2, Course DEF To
  <2> QED
    BY <2>1, <2>2, <2>3, GivesUp DEF Current, Exact, Open
<1>3. CASE Quarantine(p)
  <2>1. rec' = NoRec /\ job'[p].at = "begin" /\ ~IsEnv(rec')
    BY <1>1, <1>3, Course, Envelopes DEF Quarantine, To
  <2> QED
    BY <2>1 DEF Current, Honest, Open
<1>4. CASE Preserve(p)
  <2>1. rec' = rec \/ rec' = NoRec
    BY <1>4 DEF Preserve
  <2>2. UNCHANGED <<tool, reg, plan>>
    BY <1>4 DEF Preserve
  <2>3. Honest'
    BY <2>1, <2>2, Envelopes DEF Exact, Honest
  <2>4. ~GiveUp(p) => job'[p].at = "begin" /\ rec' = NoRec
    BY <1>1, <1>4, Course DEF Preserve, To
  <2>5. Open(NoRec) = {}
    BY Envelopes DEF Open
  <2> QED
    BY <2>2, <2>3, <2>4, <2>5, GivesUp DEF Current, Exact, Open
<1>5. CASE BeginProgress(p)
  <2>1. CASE GiveUp(p)
    <3>1. step'[p] # "held"
      BY <2>1, GivesUp DEF Exact
    <3>2. UNCHANGED <<rec, cur, tool, reg>>
      BY <1>1, <1>5, <3>1 DEF BeginProgress, Then, Lost, leaseVars
    <3> QED
      BY <3>1, <3>2 DEF Exact, Honest
  <2>2. CASE ~GiveUp(p)
    <3>1. rec' = Began(p) /\ cur'[p] = Began(p) /\ job'[p].at = "open"
      BY <1>1, <1>5, <2>2, Course DEF BeginProgress, Persist, RunType, To
    <3>2. Began(p).compl = FALSE
      BY DEF Began
    <3> QED
      BY <3>1, <3>2 DEF Current, Honest
  <2> QED
    BY <2>1, <2>2
<1> QED
  BY <1>2, <1>3, <1>4, <1>5 DEF Prepares

\* While the tools are replaced and the surface registered, the record claims
\* nothing and is the holder's own.
LEMMA ExactByMutating ==
    ASSUME Exact, NEW p \in Proc, Mutates(p)
    PROVE  (step'[p] = "held" => Current(p)') /\ Honest'
<1>1. /\ RunType /\ step[p] = "held" /\ Current(p) /\ job[p].at \notin Preparing
      /\ plan' = plan
  BY Writes DEF Exact, Sound, HolderCurrent
<1>2. job[p].at \in {"open", "swap", "put", "drop", "reg"}
  BY DEF Mutates, OpenRow, Swap, Put, Drop, OpenReg, Register, Working
<1>3. rec = cur[p] /\ ~cur[p].compl
  BY <1>1, <1>2 DEF Current, Preparing, Closing
<1>4. ~Completion(p)
  BY <1>2 DEF Completion, Working
<1>5. rec' = cur'[p] /\ ~cur'[p].compl
  BY <1>3, <1>4, Written DEF Exact
<1>6. Honest'
  BY <1>5 DEF Honest
<1>7. GiveUp(p) \/ job'[p].at \in {"open", "swap", "put", "drop", "reg", "failmirror", "verify"}
  BY <1>1, Course DEF Mutates, To
<1>8. job'[p].at = "drop" => tool'[Row(p)'] = plan'[p].mk.src
  <2> SUFFICES ASSUME job'[p].at = "drop" PROVE tool'[Row(p)'] = plan'[p].mk.src
    OBVIOUS
  <2>1. ~GiveUp(p)
    BY GivesUp DEF Exact
  <2>2. Put(p)
    BY <1>1, <2>1, Course DEF Mutates, To
  <2>3. job'[p].n = job[p].n
    BY <1>1, <2>2, Course DEF To, Same
  <2>4. job[p].n \in 1 .. Len(Rows)
    BY <2>2 DEF Put, Working, Exact, Sound, OwnWork, Own
  <2>5. Row(p)' = Row(p) /\ Row(p) \in Target
    BY <2>3, <2>4, RowTarget DEF Row
  <2>6. tool' = [tool EXCEPT ![Row(p)] = plan[p].mk.src]
    <3>1. ~\E m : Fail(p, m)
      BY <1>1, HandFields DEF To
    <3> QED
      BY <2>2, <3>1 DEF Put
  <2> QED
    BY <1>1, <2>5, <2>6 DEF RunType
<1> QED
  BY <1>5, <1>6, <1>7, <1>8, GivesUp DEF Current, Judged, Preparing, Closing, Verifying, Exact

\* What the second terminal marker claims was verified.
LEMMA CompletionHonest ==
    ASSUME Exact, NEW p \in Proc, Completion(p), Current(p) PROVE Honest'
<1>1. /\ RunType /\ cur[p] \in Envelope /\ cur[p].mk = plan[p].mk
      /\ UNCHANGED <<tool, reg, plan>> /\ job[p].at = "completion"
  BY Writes DEF Ends, Exact, Sound, Completion, Working
<1>2. rec = cur[p] /\ cur[p].schema /\ Complete(p, Verified(p))
  BY <1>1 DEF Current, Preparing, Verifying
<1>3. rec' = rec \/ rec' = [cur[p] EXCEPT !.compl = TRUE]
  BY DEF Completion, Persist, Lost
<1>4. LET e == [cur[p] EXCEPT !.compl = TRUE] IN e.schema = cur[p].schema /\ e.mk = cur[p].mk
  BY <1>1 DEF Envelope
<1>5. \A t \in Target : tool[t] = plan[p].mk.src
  <2> SUFFICES ASSUME NEW t \in Target PROVE tool[t] = plan[p].mk.src
    OBVIOUS
  <2>1. SurfaceOf[t] \in Tool /\ SurfaceOf[t] \in Surface /\ SurfaceOf[t] # "reg"
    BY TargetSurface, InstallAssumption DEF Surface
  <2>2. Verified(p)[SurfaceOf[t]] = "done"
    BY <1>2, <2>1 DEF Complete
  <2> QED
    BY <2>1, <2>2 DEF Verified
<1>6. reg \/ plan[p].mk.choice = "declined"
  <2>1. "reg" \in Surface
    BY DEF Surface
  <2> QED
    BY <1>2, <2>1 DEF Complete, Verified
<1> QED
  BY <1>1, <1>2, <1>3, <1>4, <1>5, <1>6 DEF Honest

\* After the mutations the record follows what was verified.
LEMMA ExactByEnding ==
    ASSUME Exact, NEW p \in Proc, Ends(p)
    PROVE  (step'[p] = "held" => Current(p)') /\ Honest'
<1>1. /\ RunType /\ step[p] = "held" /\ Current(p) /\ job[p].at \notin Preparing
      /\ plan' = plan /\ rec = cur[p] /\ cur[p] \in Envelope
  BY Writes DEF Exact, Sound, HolderCurrent, Current
<1>2. UNCHANGED <<tool, reg>> /\ rec' = cur'[p]
  BY <1>1, Written DEF Exact, Ends, FailMirror, FailRecord, Verify, Commit, Completion, Mirror,
     Sweep, Clean, disk
<1>3. CASE Completion(p)
  <2>1. GiveUp(p) \/ job'[p].at = "mirror"
    BY <1>1, <1>3, Course DEF To
  <2> QED
    BY <1>1, <1>2, <1>3, <2>1, CompletionHonest, GivesUp
       DEF Current, Judged, Preparing, Closing, Verifying, Exact
<1>4. CASE Mirror(p) \/ Sweep(p) \/ Clean(p)
  <2>1. GiveUp(p) \/ job'[p].at \in Closing
    BY <1>1, <1>4, Course DEF To, Closing
  <2>2. UNCHANGED rec \/ rec' = [cur[p] EXCEPT !.clean = TRUE]
    BY <1>4 DEF Mirror, Sweep, Clean, Persist, Lost
  <2>3. LET e == [cur[p] EXCEPT !.clean = TRUE]
        IN  e.schema = cur[p].schema /\ e.mk = cur[p].mk /\ e.compl = cur[p].compl /\ e \in Envelope
    BY <1>1 DEF Envelope
  <2>4. Honest'
    BY <1>1, <1>2, <2>2, <2>3, Envelopes DEF Honest, Exact
  <2> QED
    BY <1>2, <2>1, <2>4, GivesUp DEF Current, Judged, Preparing, Closing, Verifying, Exact
<1>5. CASE FailMirror(p) \/ FailRecord(p) \/ Verify(p) \/ Commit(p)
  <2>1. job[p].at \in {"failmirror", "failrecord", "verify", "commit"}
    BY <1>5 DEF FailMirror, FailRecord, Verify, Commit, Working
  <2>2. ~cur'[p].compl
    <3>1. ~Completion(p) /\ ~cur[p].compl
      BY <1>1, <2>1 DEF Completion, Working, Current, Preparing, Closing
    <3> QED
      BY <3>1, Written DEF Exact
  <2>3. Honest'
    BY <1>2, <2>2 DEF Honest
  <2>4. CASE Commit(p)
    <3>1. job[p].row = Verified(p) /\ Verified(p)' = Verified(p)
      BY <1>1, <1>2, <2>4 DEF Commit, Working, Current, Verifying, Verified
    <3>2. \/ GiveUp(p) \/ job'[p].at = "mirror"
          \/ job'[p].at \in Verifying /\ job'[p].row = job[p].row
      BY <1>1, <2>4, Course DEF To, Same, Verifying
    <3>3. job'[p].at = "completion" => cur'[p].schema /\ Complete(p, job[p].row)
      <4> SUFFICES ASSUME job'[p].at = "completion" PROVE cur'[p].schema /\ Complete(p, job[p].row)
        OBVIOUS
      <4>1. ~GiveUp(p)
        BY GivesUp DEF Exact
      <4>2. ~Then(p, "commit") /\ ~Then(p, "mirror")
        <5>1. \A a : Then(p, a) => job'[p].at = a
          BY <1>1, HandFields DEF To
        <5> QED
          BY <5>1
      <4>3. Complete(p, job[p].row) /\ Persist(p, [cur[p] EXCEPT !.schema = Complete(p, job[p].row)])
        BY <2>4, <4>1, <4>2 DEF Commit
      <4>4. Complete(p, job[p].row) \in BOOLEAN
        BY DEF Complete
      <4>5. [cur[p] EXCEPT !.schema = Complete(p, job[p].row)].schema = Complete(p, job[p].row)
        BY <1>1, <4>4, Revised
      <4>6. cur'[p] = [cur[p] EXCEPT !.schema = Complete(p, job[p].row)]
        BY <1>1, <4>3 DEF Persist, RunType
      <4> QED
        BY <4>3, <4>5, <4>6
    <3> QED
      BY <1>1, <1>2, <2>2, <2>3, <3>1, <3>2, <3>3, GivesUp
         DEF Current, Judged, Preparing, Closing, Verifying, Complete, Exact
  <2>5. CASE Verify(p)
    <3>1. job'[p].at = "commit" /\ job'[p].row = Verified(p)'
      BY <1>1, <1>2, <2>5, Course DEF To, Verified
    <3> QED
      BY <1>2, <2>2, <2>3, <3>1 DEF Current, Judged, Preparing, Closing, Verifying
  <2>6. CASE FailMirror(p) \/ FailRecord(p)
    <3>1. GiveUp(p) \/ job'[p].at = "failrecord"
      BY <1>1, <2>6, Course DEF To
    <3> QED
      BY <1>2, <2>2, <2>3, <3>1, GivesUp
         DEF Current, Judged, Preparing, Closing, Verifying, Exact
  <2> QED
    BY <1>5, <2>4, <2>5, <2>6
<1> QED
  BY <1>3, <1>4, <1>5 DEF Ends

\* The operator's repair touches no target that a complete record vouches for.
LEMMA ExactByRepair ==
    ASSUME Exact, NEW t \in Target, OperatorRepairs(t)
    PROVE  HolderCurrent' /\ Honest'
<1>1. \A p \in Proc : step'[p] # "held"
  BY DEF OperatorRepairs, Live, Ended, leaseVars
<1>2. Honest'
  <2> SUFFICES ASSUME IsEnv(rec), rec.compl, NEW u \in Target PROVE tool'[u] = rec.mk.src
    BY DEF OperatorRepairs, Honest, Exact
  <2>1. tool[u] = rec.mk.src /\ tool[t] = rec.mk.src
    BY DEF Exact, Honest
  <2>2. rec.mk.src # 0
    BY Envelopes, InstallAssumption DEF Exact, Sound, RunType, Envelope, Marker, Source
  <2> QED
    BY <2>1, <2>2 DEF OperatorRepairs, Exact, Sound, RunType
<1> QED
  BY <1>1, <1>2 DEF HolderCurrent

\* One step of the whole invariant.
LEMMA RunInvStep ==
    ASSUME MaxLive <= 2, RunInv, [Next]_vars PROVE RunInv'
<1>1. LeaseInv' /\ LeaseType'
  BY LeaseInvStep, UsesLease DEF RunInv, LeaseInv
<1>2. Sound
  BY DEF RunInv, LeaseInv, Sound
<1>3. Sound'
  BY <1>1, <1>2, SoundStep
<1>4. ASSUME ~astray' PROVE HolderCurrent' /\ Honest'
  <2>1. ~astray
    BY <1>2, <1>4, UsesLease, LeaseSteps, Sticks DEF leaseVars, Sound
  <2>2. Exact
    BY <1>2, <2>1, OneOwner DEF Exact, RunInv
  <2>3. CASE UNCHANGED vars
    BY <2>2, <2>3 DEF vars, leaseVars, disk, runVars, Exact, HolderCurrent, Current, Honest, Row,
       Verified, Complete
  <2>4. ASSUME NEW p \in Proc, Leases(p) PROVE HolderCurrent' /\ Honest'
    BY <2>2, <2>4, ExactByLease
  <2>5. ASSUME NEW p \in Proc, Works(p) PROVE HolderCurrent' /\ Honest'
    <3>1. (step'[p] = "held" => Current(p)') /\ Honest'
      BY <2>2, <2>5, ExactByPreparing, ExactByMutating, ExactByEnding DEF Works
    <3> QED
      BY <2>2, <2>5, <3>1, OnlyOne DEF HolderCurrent
  <2>6. ASSUME NEW t \in Target, OperatorRepairs(t) PROVE HolderCurrent' /\ Honest'
    BY <2>2, <2>6, ExactByRepair
  <2> QED
    BY <2>3, <2>4, <2>5, <2>6, RunSteps
<1> QED
  BY <1>1, <1>3, <1>4 DEF RunInv, Sound

LEMMA RunStarts ==
    ASSUME Init PROVE RunInv
<1>1. LeaseInv /\ LeaseType
  BY LeaseStarts DEF Init, LeaseInv
<1>2. 0 \in 0 .. NSource /\ 1 \in 0 .. NSource /\ 1 \in Source
  BY InstallAssumption DEF Source
<1>3. NoMark \in Marker
  BY EmptyHands
<1>4. \A s \in Tool : Old(TRUE, s) \in Envelope /\ ~Old(TRUE, s).compl
  BY <1>3 DEF Old, Envelope, RowState, Surface
<1>5. Old(FALSE, None) \in Envelope /\ ~Old(FALSE, None).compl
  BY <1>3 DEF Old, Envelope, RowState
<1>6. rec \in Record /\ (IsEnv(rec) => ~rec.compl)
  <2>1. CASE rec \in {[kind |-> k] : k \in Unusable}
    BY <2>1 DEF Record, IsEnv
  <2>2. CASE rec \in {Old(TRUE, s) : s \in Tool} \cup {Old(FALSE, None)}
    BY <1>4, <1>5, <2>2 DEF Record
  <2> QED
    BY <2>1, <2>2 DEF Init
<1>7. RunType
  BY <1>2, <1>6, EmptyHands DEF Init, RunType
<1>8. \A p \in Proc : step[p] = "off" /\ job[p].at = "reread"
  BY DEF Init, LeaseInit, NoJob
<1>9. OwnWork /\ HolderCurrent /\ Honest
  BY <1>6, <1>8 DEF OwnWork, Own, HolderCurrent, Honest
<1> QED
  BY <1>1, <1>7, <1>9 DEF RunInv

---------------------------------------------------------------------------
\* A record that says complete is true of the disk, in every reachable state
\* before a mishap took a live holder's lease.
THEOREM CompleteIsTrue ==
    ASSUME MaxLive <= 2 PROVE Spec => []TerminalHonest
<1>1. Init => RunInv
  BY RunStarts
<1>2. RunInv /\ [Next]_vars => RunInv'
  BY RunInvStep
<1>3. RunInv => TerminalHonest
  BY DEF RunInv, Honest, TerminalHonest
<1> QED
  BY <1>1, <1>2, <1>3, PTL DEF Spec

\* A step before which every thing known is known.
LEMMA StepExact ==
    ASSUME MaxLive <= 2, RunInv, [Next]_vars, ~astray' PROVE Exact
<1>1. ~astray
  BY UsesLease, LeaseSteps, Sticks DEF leaseVars, RunInv, LeaseInv
<1> QED
  BY <1>1, OneOwner DEF Exact, RunInv, LeaseInv, Sound

\* A replaced record was its own writer's, or its open work was inspected.
LEMMA Inspected ==
    ASSUME Exact, NEW p \in Proc, Works(p), Open(rec) # {}, IsEnv(rec') => rec'.by # rec.by
    PROVE  job'[p] # job[p] /\ Open(rec) \subseteq plan[p].ack
<1>1. RunType /\ step[p] = "held" /\ Current(p) /\ IsEnv(rec)
  BY WorksHeld DEF Exact, Sound, HolderCurrent, Open
<1>2. rec' # rec
  BY <1>1
<1>3. CASE Mutates(p) \/ Ends(p)
  <2>1. rec = cur[p] /\ rec' = cur'[p] /\ cur'[p].by = p /\ cur[p].by = p /\ cur'[p] \in Envelope
    BY <1>1, <1>3, Writes, Written DEF Current, Exact
  <2> QED
    BY <2>1, Envelopes
<1>4. CASE Prepares(p)
  <2>1. ~Reread(p)
    BY <1>2 DEF Reread, disk
  <2>2. job[p].at \in Judged
    BY <1>4, <2>1 DEF Prepares, Quarantine, Preserve, BeginProgress, Working, Judged
  <2>3. job'[p].at # job[p].at
    <3>1. CASE Quarantine(p)
      BY <1>1, <3>1, Course DEF To, Quarantine, Working
    <3>2. CASE Preserve(p)
      BY <1>1, <3>2, Course, GivesUp DEF To, Preserve, Working, Exact
    <3>3. CASE BeginProgress(p)
      BY <1>1, <3>3, Course, GivesUp DEF To, BeginProgress, Working, Exact
    <3> QED
      BY <1>4, <2>1, <3>1, <3>2, <3>3 DEF Prepares
  <2> QED
    BY <1>1, <2>2, <2>3 DEF Current
<1> QED
  BY <1>3, <1>4 DEF Works

\* Interrupted work is set aside only by an invocation whose operator inspected
\* it, however long it waited for the lease.
THEOREM NothingSetAsideUnseen ==
    ASSUME MaxLive <= 2 PROVE Spec => InterruptedWorkInspected
<1>1. Init => RunInv
  BY RunStarts
<1>2. RunInv /\ [Next]_vars => RunInv'
  BY RunInvStep
<1> DEFINE Seen == (~astray' /\ Open(rec) # {} /\ (IsEnv(rec') => rec'.by # rec.by))
                     => \E p \in Proc : job'[p] # job[p] /\ Open(rec) \subseteq plan[p].ack
<1>3. RunInv /\ [Next]_vars => Seen
  <2> SUFFICES ASSUME RunInv, [Next]_vars, ~astray', Open(rec) # {},
                      IsEnv(rec') => rec'.by # rec.by
               PROVE  \E p \in Proc : job'[p] # job[p] /\ Open(rec) \subseteq plan[p].ack
    OBVIOUS
  <2>1. Exact
    BY StepExact
  <2>2. rec' # rec
    BY DEF Open
  <2>3. \E p \in Proc : Works(p)
    BY <2>2, RunSteps DEF Leases, Plan, LeaseCall, Die, OperatorRepairs, vars, disk
  <2> QED
    BY <2>1, <2>3, Inspected
<1>4. RunInv /\ [Next]_vars => [Seen]_vars
  BY <1>3
<1> QED
  BY <1>1, <1>2, <1>4, PTL DEF Spec, InterruptedWorkInspected

\* What was installed at a target is there or beside it after every step.
LEMMA Beside ==
    ASSUME Exact, [Next]_vars, NEW t \in Target, tool[t] # 0 \/ backup[t] # 0
    PROVE  tool'[t] # 0 \/ backup'[t] # 0
<1>1. RunType
  BY DEF Exact, Sound
<1>2. CASE UNCHANGED <<tool, backup>>
  BY <1>2
<1>3. ASSUME NEW p \in Proc, Swap(p) \/ Put(p) \/ Drop(p) PROVE tool'[t] # 0 \/ backup'[t] # 0
  <2>1. step[p] = "held" /\ Current(p) /\ Row(p) \in Target /\ plan[p].mk.src # 0
    <3>1. step[p] = "held" /\ job[p].at \in {"swap", "put", "drop"}
      BY <1>3 DEF Swap, Put, Drop, Working
    <3>2. Current(p) /\ job[p].n \in 1 .. Len(Rows)
      BY <3>1 DEF Exact, HolderCurrent, Sound, OwnWork, Own
    <3>3. plan[p].mk.src # 0
      BY <1>1, InstallAssumption DEF RunType, Plans, Marker, Source
    <3> QED
      BY <3>1, <3>2, <3>3, RowTarget DEF Row
  <2>2. CASE Swap(p)
    BY <1>1, <2>1, <2>2 DEF Swap, RunType
  <2>3. CASE Put(p)
    BY <1>1, <2>1, <2>3 DEF Put, RunType
  <2>4. CASE Drop(p)
    <3>1. tool[Row(p)] # 0 /\ tool' = tool
      BY <2>1, <2>4 DEF Drop, Working, Current
    <3> QED
      BY <1>1, <2>4, <3>1 DEF Drop, RunType
  <2> QED
    BY <1>3, <2>2, <2>3, <2>4
<1>4. ASSUME NEW u \in Target, OperatorRepairs(u) PROVE tool'[t] # 0 \/ backup'[t] # 0
  BY <1>1, <1>4 DEF OperatorRepairs, RunType
<1>5. ASSUME NEW p \in Proc, Leases(p) \/ Works(p), ~(Swap(p) \/ Put(p) \/ Drop(p))
      PROVE  UNCHANGED <<tool, backup>>
  BY <1>5 DEF Leases, Plan, LeaseCall, Die, Works, Prepares, Reread, Quarantine, Preserve,
     BeginProgress, Mutates, OpenRow, OpenReg, Register, Ends, FailMirror, FailRecord, Verify,
     Commit, Completion, Mirror, Sweep, Clean, disk
<1> QED
  BY <1>2, <1>3, <1>4, <1>5, RunSteps DEF vars, disk

THEOREM OldOrNew ==
    ASSUME MaxLive <= 2 PROVE Spec => NeverNeither
<1>1. Init => RunInv
  BY RunStarts
<1>2. RunInv /\ [Next]_vars => RunInv'
  BY RunInvStep
<1> DEFINE Stays == ~astray' => \A t \in Target : tool[t] # 0 \/ backup[t] # 0
                                                 => tool'[t] # 0 \/ backup'[t] # 0
<1>3. RunInv /\ [Next]_vars => [Stays]_vars
  BY StepExact, Beside
<1> QED
  BY <1>1, <1>2, <1>3, PTL DEF Spec, NeverNeither
=============================================================================
