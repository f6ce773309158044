------------------------ MODULE MediatedWrite_proofs ------------------------
(***************************************************************************)
(* Proofs about MediatedWrite, for every set of calls, bodies and inodes.  *)
(***************************************************************************)
EXTENDS MediatedWrite, TLAPS

\* A call holds its temporary file from the create until link or replace.
TmpHeld ==
    \A c \in Call :
        pc[c] \in {"writing", "written", "reread", "verified", "linked"} => tmp[c] \in File

\* Past FillTmp the temporary file holds the whole body of the call.
TmpWhole ==
    \A c \in Call :
        pc[c] \in {"written", "reread", "verified", "linked"} => tmp[c].bytes = job[c].data

WholeInv == TypeOK /\ TmpHeld /\ TmpWhole /\ NeverTorn

\* The initial files are whole.
LEMMA InitWhole == Init => WholeInv
<1> SUFFICES ASSUME Init PROVE WholeInv
  OBVIOUS
<1>1. dest \in {NoFile} \cup File /\ NeverTorn
  BY DEF Init, File, NeverTorn
<1>2. TypeOK
  <2>1. raws \in 0..MaxRaw
    BY ConstantsAssumption DEF Init
  <2>2. landings \in Seq(Call) /\ log \in Seq(Call)
    BY DEF Init
  <2>3. QED
    BY <1>1, <2>1, <2>2 DEF Init, TypeOK, Working
<1>3. TmpHeld /\ TmpWhole
  BY DEF Init, TmpHeld, TmpWhole
<1>4. QED
  BY <1>1, <1>2, <1>3 DEF WholeInv

\* One step of a call keeps the files whole.
LEMMA CallStepWhole ==
  ASSUME WholeInv, NEW c \in Call, CallStep(c)
  PROVE  WholeInv'
<1> USE DEF WholeInv, TypeOK, TmpHeld, TmpWhole, NeverTorn, Goto
<1>1. CASE Probe(c)
  BY <1>1 DEF Probe, Working, Ended
<1>2. CASE Stat(c)
  <2>1. plan' \in [Call -> {NoFile} \cup Inode]
    BY <1>2 DEF Stat, File
  <2>2. QED
    BY <1>2, <2>1 DEF Stat, Working, Ended
<1>3. CASE CreateTmp(c)
  <2>1. PICK i \in Inode : tmp' = [tmp EXCEPT ![c] = [ino |-> i, bytes |-> Torn]]
    BY <1>3 DEF CreateTmp, FreeInodes
  <2>2. [ino |-> i, bytes |-> Torn] \in File
    BY DEF File
  <2>3. QED
    BY <1>3, <2>1, <2>2 DEF CreateTmp, Working, Ended
<1>4. CASE FillTmp(c)
  <2>1. tmp[c] \in File /\ job[c].data \in Data
    BY <1>4 DEF FillTmp, Job
  <2>2. [tmp[c] EXCEPT !.bytes = job[c].data] \in File
    BY <2>1 DEF File
  <2>3. [tmp[c] EXCEPT !.bytes = job[c].data].bytes = job[c].data
    BY <2>1 DEF File
  <2>4. tmp' = [tmp EXCEPT ![c] = [tmp[c] EXCEPT !.bytes = job[c].data]]
    BY <1>4 DEF FillTmp
  <2>5. QED
    BY <1>4, <2>2, <2>3, <2>4 DEF FillTmp, Working, Ended
<1>5. CASE VerifyLeaf(c)
  BY <1>5 DEF VerifyLeaf, Working, Ended
<1>6. CASE Reread(c)
  BY <1>6 DEF Reread, Working, Ended
<1>7. CASE Refuse(c)
  BY <1>7 DEF Refuse, Working, Ended
<1>8. CASE RefuseLeavingTmp(c)
  <2>1. orphans' \subseteq Inode
    BY <1>8 DEF RefuseLeavingTmp, File
  <2>2. QED
    BY <1>8, <2>1 DEF RefuseLeavingTmp, Working, Ended
<1>9. CASE Link(c)
  <2>1. tmp[c] \in File /\ tmp[c].bytes \in Data
    BY <1>9 DEF Link, Job
  <2>2. QED
    BY <1>9, <2>1 DEF Link, Landed, Working, Ended
<1>10. CASE UnlinkTmp(c)
  BY <1>10 DEF UnlinkTmp, Working, Ended
<1>11. CASE Replace(c)
  <2>1. tmp[c] \in File /\ tmp[c].bytes \in Data
    BY <1>11 DEF Replace, Job
  <2>2. QED
    BY <1>11, <2>1 DEF Replace, Landed, Working, Ended
<1>12. CASE Record(c)
  <2>1. log' \in Seq(Call)
    <3>1. log \in Seq(Call) /\ Append(log, c) \in Seq(Call)
      OBVIOUS
    <3>2. log' = Append(log, c) \/ log' = log
      BY <1>12 DEF Record
    <3>3. QED
      BY <3>1, <3>2
  <2>2. QED
    BY <1>12, <2>1 DEF Record, Working, Ended
<1>13. CASE Crash(c)
  <2>1. orphans' \subseteq Inode
    BY <1>13 DEF Crash, File
  <2>2. QED
    BY <1>13, <2>1 DEF Crash, Working, Ended
<1>14. QED
  BY <1>1, <1>2, <1>3, <1>4, <1>5, <1>6, <1>7, <1>8, <1>9, <1>10, <1>11, <1>12, <1>13
  DEF CallStep, VerifyRefused, LinkRefused, Fail

\* A change outside the writer replaces the artifact by another whole body.
LEMMA RawWhole ==
  ASSUME WholeInv, EditInPlace \/ EditByRename \/ Delete
  PROVE  WholeInv'
<1>1. PICK file \in {NoFile} \cup [ino : Inode, bytes : Data] : RawChange(file)
  <2>1. CASE EditInPlace
    <3>1. PICK d \in Data : RawChange([dest EXCEPT !.bytes = d])
      BY <2>1 DEF EditInPlace
    <3>2. [dest EXCEPT !.bytes = d] \in [ino : Inode, bytes : Data]
      BY <2>1 DEF EditInPlace, WholeInv, TypeOK, File
    <3>3. QED
      BY <3>1, <3>2
  <2>2. CASE EditByRename
    BY <2>2 DEF EditByRename, FreeInodes
  <2>3. CASE Delete
    BY <2>3 DEF Delete
  <2>4. QED
    BY <2>1, <2>2, <2>3
<1>2. raws' \in 0..MaxRaw
  BY <1>1, ConstantsAssumption DEF RawChange, WholeInv, TypeOK
<1>3. dest' \in {NoFile} \cup File /\ NeverTorn'
  BY <1>1 DEF RawChange, File, NeverTorn
<1>4. TypeOK'
  BY <1>1, <1>2, <1>3 DEF RawChange, WholeInv, TypeOK
<1>5. QED
  BY <1>1, <1>3, <1>4 DEF RawChange, WholeInv, TmpHeld, TmpWhole

\* The strengthening is inductive: a temporary file is held by exactly one call
\* while that call works, and it is whole from the moment it was filled.
THEOREM WholeInvariant == Spec => []WholeInv
<1>1. WholeInv /\ [Next]_vars => WholeInv'
  <2> SUFFICES ASSUME WholeInv, [Next]_vars PROVE WholeInv'
    OBVIOUS
  <2>1. CASE UNCHANGED vars
    BY <2>1 DEF vars, WholeInv, TypeOK, TmpHeld, TmpWhole, NeverTorn
  <2>2. QED
    BY <2>1, CallStepWhole, RawWhole DEF Next, Finished
<1>2. QED
  BY InitWhole, <1>1, PTL DEF Spec

\* Every variable of the write path keeps its type, in every instance.
THEOREM TypeCorrect == Spec => []TypeOK
BY WholeInvariant, PTL DEF WholeInv

\* No reader ever finds a partly written artifact, whatever calls crash, are
\* refused or race, and however inode numbers are reused.
THEOREM WholeBodies == Spec => []NeverTorn
BY WholeInvariant, PTL DEF WholeInv

-----------------------------------------------------------------------------
(* Implementation of the abstract register *)

\* Until a call has planned, it has no expected leaf.
PlanUnset == \A c \in Call : pc[c] \in {"idle", "probed"} => plan[c] = NoFile

\* No call has planned anything at the start.
LEMMA InitPlan == Init => PlanUnset
BY DEF Init, PlanUnset

\* The plan is fixed by lstat only, never while a call has yet to probe.
LEMMA NextPlan == TypeOK /\ PlanUnset /\ [Next]_vars => PlanUnset'
<1> SUFFICES ASSUME TypeOK, PlanUnset, [Next]_vars PROVE PlanUnset'
  OBVIOUS
<1> USE DEF TypeOK, PlanUnset, Goto
<1>1. ASSUME NEW c \in Call, CallStep(c) PROVE PlanUnset'
  BY <1>1 DEF CallStep, Probe, Stat, CreateTmp, FillTmp, VerifyLeaf, Reread, VerifyRefused,
     Link, LinkRefused, UnlinkTmp, Replace, Record, Fail, Crash, Refuse, RefuseLeavingTmp
<1>2. QED
  BY <1>1 DEF Next, EditInPlace, EditByRename, Delete, RawChange, Finished, vars

\* The initial states map to initial states of the register.
LEMMA InitRegister == Init => Register!Init
<1> SUFFICES ASSUME Init PROVE Register!Init
  OBVIOUS
<1>1. RegisterValue \in Data \cup {NoFile}
  BY DEF Init, RegisterValue
<1>2. RegisterWant \in [Call -> Data]
  BY DEF Init, RegisterWant, Job
<1>3. RegisterStatus = [c \in Call |-> "idle"]
  <2>1. \A c \in Call : CallStatus(c) = "idle"
    BY DEF Init, CallStatus
  <2>2. QED
    BY <2>1 DEF RegisterStatus
<1>4. QED
  BY <1>1, <1>2, <1>3 DEF Register!Init

\* A step of one call moves only that call's status.
LEMMA StatusStep ==
  ASSUME NEW c \in Call,
         \A d \in Call \ {c} : pc'[d] = pc[d] /\ plan'[d] = plan[d]
  PROVE  RegisterStatus' = [RegisterStatus EXCEPT ![c] = CallStatus(c)']
<1>1. \A d \in Call \ {c} : CallStatus(d)' = CallStatus(d)
  BY DEF CallStatus, ExpectAbsent
<1>2. QED
  BY <1>1 DEF RegisterStatus

\* A step of a call is an Announce, a Land or an End of the register, or a stutter.
LEMMA CallStepRegister ==
  ASSUME WholeInv, PlanUnset, NEW c \in Call, CallStep(c)
  PROVE  [Register!Next]_(Register!vars)
<1> USE DEF WholeInv, TypeOK, Goto
<1>1. /\ \A d \in Call \ {c} : pc'[d] = pc[d] /\ plan'[d] = plan[d]
      /\ job' = job
  BY DEF CallStep, Probe, Stat, CreateTmp, FillTmp, VerifyLeaf, Reread, VerifyRefused,
     Link, LinkRefused, UnlinkTmp, Replace, Record, Fail, Crash, Refuse, RefuseLeavingTmp
<1>2. RegisterWant' = RegisterWant
  BY <1>1 DEF RegisterWant
<1>3. RegisterStatus' = [RegisterStatus EXCEPT ![c] = CallStatus(c)']
  BY <1>1, StatusStep
<1>4. RegisterStatus[c] = CallStatus(c)
  BY DEF RegisterStatus
\* Steps that leave both the artifact and the status alone
<1>5. ASSUME dest' = dest, CallStatus(c)' = CallStatus(c)
      PROVE  UNCHANGED Register!vars
  <2>1. RegisterStatus' = RegisterStatus
    BY <1>3, <1>5 DEF RegisterStatus
  <2>2. QED
    BY <1>2, <1>5, <2>1 DEF RegisterValue, Register!vars
\* Steps that announce the call
<1>6. ASSUME dest' = dest, CallStatus(c) = "idle", CallStatus(c)' \in {"create", "overwrite"}
      PROVE  Register!Announce(c)
  BY <1>2, <1>3, <1>4, <1>6 DEF RegisterValue, Register!Announce
\* Steps that end the call
<1>7. ASSUME dest' = dest, CallStatus(c) # "ended", CallStatus(c)' = "ended"
      PROVE  Register!End(c)
  BY <1>2, <1>3, <1>4, <1>7 DEF RegisterValue, Register!End
\* Steps that land the call's bytes
<1>8. ASSUME dest' = tmp[c], tmp[c] # NoFile, tmp[c].bytes = job[c].data,
             CallStatus(c) \in {"create", "overwrite"}, CallStatus(c)' = "landed",
             CallStatus(c) = "create" => dest = NoFile
      PROVE  Register!Land(c)
  BY <1>2, <1>3, <1>4, <1>8 DEF RegisterValue, RegisterWant, Register!Land
<1>9. CASE Probe(c)
  <2>1. CASE dest # NoFile
    BY <1>9, <2>1, <1>5 DEF Probe, CallStatus
  <2>2. CASE dest = NoFile /\ Bound(c)
    BY <1>9, <2>2, <1>7 DEF Probe, CallStatus, Register!Next
  <2>3. CASE dest = NoFile /\ ~Bound(c)
    BY <1>9, <2>3, <1>6 DEF Probe, CallStatus, Register!Next, ExpectAbsent
  <2>4. QED
    BY <2>1, <2>2, <2>3
<1>10. CASE Stat(c)
  <2>1. CASE dest = NoFile \/ Hardlinked
    BY <1>10, <2>1, <1>7 DEF Stat, CallStatus, Register!Next
  <2>2. CASE ~(dest = NoFile \/ Hardlinked)
    <3>1. CallStatus(c)' = "overwrite"
      BY <1>10, <2>2, ConstantsAssumption DEF Stat, CallStatus, ExpectAbsent, File
    <3>2. QED
      BY <1>10, <3>1, <1>6 DEF Stat, CallStatus, Register!Next
  <2>3. QED
    BY <2>1, <2>2
<1>11. CASE CreateTmp(c) \/ FillTmp(c) \/ VerifyLeaf(c) \/ Reread(c) \/ UnlinkTmp(c)
  BY <1>11, <1>5
  DEF CreateTmp, FillTmp, VerifyLeaf, Reread, UnlinkTmp, CallStatus, ExpectAbsent
<1>12. CASE Link(c) \/ Replace(c)
  <2>1. dest' = tmp[c] /\ tmp[c].bytes = job[c].data
    BY <1>12 DEF Link, Replace, TmpWhole
  <2>2. tmp[c] # NoFile
    BY <1>12, ConstantsAssumption DEF Link, Replace, TmpHeld, File
  <2>3. CallStatus(c)' = "landed"
    BY <1>12 DEF Link, Replace, CallStatus
  <2>4. CallStatus(c) \in {"create", "overwrite"} /\ (CallStatus(c) = "create" => dest = NoFile)
    BY <1>12 DEF Link, Replace, CallStatus, ExpectAbsent
  <2>5. QED
    BY <1>8, <2>1, <2>2, <2>3, <2>4 DEF Register!Next
<1>13. CASE VerifyRefused(c) \/ LinkRefused(c) \/ Fail(c) \/ Record(c) \/ Crash(c)
  <2>1. dest' = dest
    BY <1>13 DEF VerifyRefused, LinkRefused, Fail, Record, Crash, Refuse, RefuseLeavingTmp
  <2>2. CallStatus(c)' = "ended"
    BY <1>13 DEF VerifyRefused, LinkRefused, Fail, Record, Crash, Refuse, RefuseLeavingTmp,
       CallStatus
  <2>3. CallStatus(c) # "ended"
    BY <1>13 DEF VerifyRefused, LinkRefused, Fail, Record, Crash, Working, CallStatus
  <2>4. QED
    BY <1>7, <2>1, <2>2, <2>3 DEF Register!Next
<1>14. QED
  BY <1>9, <1>10, <1>11, <1>12, <1>13 DEF CallStep

\* A change outside the writer is the register's OutOfBand.
LEMMA RawRegister ==
  ASSUME WholeInv, WholeInv', EditInPlace \/ EditByRename \/ Delete
  PROVE  Register!OutOfBand
<1>1. pc' = pc /\ plan' = plan /\ job' = job
  BY DEF EditInPlace, EditByRename, Delete, RawChange
<1>2. RegisterStatus' = RegisterStatus
  BY <1>1 DEF RegisterStatus, CallStatus, ExpectAbsent
<1>3. RegisterWant' = RegisterWant
  BY <1>1 DEF RegisterWant
<1>4. RegisterValue' \in Data \cup {NoFile}
  BY DEF RegisterValue, WholeInv, NeverTorn
<1>5. QED
  BY <1>2, <1>3, <1>4 DEF Register!OutOfBand

\* The write path implements the abstract register: every step of a call, of a
\* crash or of an editor is a step of the register or leaves it alone.
THEOREM ImplementsRegister == Spec => RegisterSpec
<1>1. Spec => [](WholeInv /\ PlanUnset)
  <2>1. WholeInv /\ PlanUnset /\ [Next]_vars => PlanUnset'
    BY NextPlan DEF WholeInv
  <2>2. QED
    BY <2>1, InitPlan, WholeInvariant, PTL DEF Spec
<1>2. WholeInv /\ WholeInv' /\ PlanUnset /\ [Next]_vars => [Register!Next]_(Register!vars)
  <2> SUFFICES ASSUME WholeInv, WholeInv', PlanUnset, [Next]_vars
               PROVE  [Register!Next]_(Register!vars)
    OBVIOUS
  <2>1. CASE UNCHANGED vars
    BY <2>1 DEF vars, Register!vars, RegisterValue, RegisterWant, RegisterStatus, CallStatus,
       ExpectAbsent
  <2>2. CASE EditInPlace \/ EditByRename \/ Delete
    BY <2>2, RawRegister DEF Register!Next
  <2>3. CASE \E c \in Call : CallStep(c)
    BY <2>3, CallStepRegister
  <2>4. QED
    BY <2>1, <2>2, <2>3 DEF Next, Finished
<1>3. QED
  BY <1>1, <1>2, InitRegister, WholeInvariant, PTL DEF Spec, RegisterSpec, Register!Spec

-----------------------------------------------------------------------------
(* The log and the audit *)

Pending(c) == pc[c] \in {"linked", "landed"}

\* A call whose bytes are at the artifact is past its link or replace.
LandedCalls ==
    /\ \A j \in 1..Len(landings) : pc[landings[j]] \in {"linked", "landed"} \cup Ended
    /\ \A c \in Call : Pending(c) => \E j \in 1..Len(landings) : landings[j] = c

\* The log is a prefix of the landings, position by position.
LogAligned == \A i \in 1..Len(log) : log[i] = landings[i]

\* While no two calls were between landing and recording at once: the log never
\* outruns the landings, and it can only catch up with them in their order.
LogOrder ==
    ~raced =>
        /\ \A c, d \in Call : Pending(c) /\ Pending(d) => c = d
        /\ \A c \in Call : Pending(c) =>
              /\ landings # <<>> /\ landings[Len(landings)] = c
              /\ Len(log) < Len(landings)
              /\ Len(log) + 1 = Len(landings) => LogAligned
        /\ Len(log) <= Len(landings)
        /\ Len(log) = Len(landings) => LogAligned

LogInv == LandedCalls /\ LogOnlyLanded /\ LogOrder

\* The empty log is honest and in order.
LEMMA InitLog == Init => LogInv
BY DEF Init, LogInv, LandedCalls, LogOnlyLanded, LogOrder, Pending, LogAligned

\* A step that neither lands nor records: a pending call stays pending or ends.
LEMMA LogQuiet ==
  ASSUME TypeOK, LogInv, NEW c \in Call,
         pc' \in [Call -> Working \cup Ended],
         \A d \in Call \ {c} : pc'[d] = pc[d],
         pc[c] \in {"linked", "landed"} \cup Ended => pc'[c] \in {"linked", "landed"} \cup Ended,
         Pending(c)' => Pending(c),
         UNCHANGED <<landings, log, raced>>
  PROVE  LogInv'
<1>1. \A d \in Call : Pending(d)' => Pending(d)
  BY DEF Pending
<1>2. LandedCalls'
  <2>1. ASSUME NEW j \in 1..Len(landings)
        PROVE  pc'[landings[j]] \in {"linked", "landed"} \cup Ended
    <3>1. landings[j] \in Call /\ pc[landings[j]] \in {"linked", "landed"} \cup Ended
      BY DEF LogInv, LandedCalls, TypeOK
    <3>2. QED
      BY <3>1
  <2>2. QED
    BY <1>1, <2>1 DEF LogInv, LandedCalls
<1>3. LogOnlyLanded'
  BY DEF LogInv, LogOnlyLanded
<1>4. LogOrder'
  BY <1>1 DEF LogInv, LogOrder, LogAligned
<1>5. QED
  BY <1>2, <1>3, <1>4 DEF LogInv

\* A landing keeps the log honest and, unless it races a record, in order.
LEMMA LogLanding ==
  ASSUME TypeOK, LogInv, NEW c \in Call, Link(c) \/ Replace(c)
  PROVE  LogInv'
<1> USE DEF TypeOK
<1> DEFINE n == Len(landings)
<1>1. /\ pc[c] = "verified" /\ landings' = Append(landings, c) /\ log' = log
      /\ raced' = (raced \/ \E d \in Call : Pending(d))
  BY DEF Link, Replace, Landed, Pending
<1>2. /\ pc' \in [Call -> Working \cup Ended] /\ pc'[c] \in {"linked", "landed"}
      /\ \A d \in Call \ {c} : pc'[d] = pc[d]
  BY DEF Link, Replace, Goto, Working
<1>3. /\ n \in Nat /\ Len(landings') = n + 1 /\ landings'[n + 1] = c
      /\ \A j \in 1..n : landings'[j] = landings[j] /\ landings[j] \in Call
  BY <1>1
<1>4. Len(log) \in Nat
  OBVIOUS
<1>5. LandedCalls'
  <2>1. ASSUME NEW j \in 1..(n + 1)
        PROVE  pc'[landings'[j]] \in {"linked", "landed"} \cup Ended
    <3>1. CASE j = n + 1
      BY <1>2, <1>3, <3>1
    <3>2. CASE j \in 1..n
      <4>1. landings'[j] = landings[j] /\ pc[landings[j]] \in {"linked", "landed"} \cup Ended
        BY <1>3, <3>2 DEF LogInv, LandedCalls
      <4>2. landings[j] # c
        BY <1>1, <4>1 DEF Ended
      <4>3. QED
        BY <1>2, <1>3, <3>2, <4>1, <4>2
    <3>3. QED
      BY <1>3, <2>1, <3>1, <3>2
  <2>2. ASSUME NEW d \in Call, Pending(d)'
        PROVE  \E j \in 1..(n + 1) : landings'[j] = d
    <3>1. CASE d = c
      BY <1>3, <3>1
    <3>2. CASE d # c
      <4>1. PICK j \in 1..n : landings[j] = d
        BY <1>2, <2>2, <3>2 DEF LogInv, LandedCalls, Pending
      <4>2. j \in 1..(n + 1)
        BY <1>3
      <4>3. QED
        BY <1>3, <4>1, <4>2
    <3>3. QED
      BY <3>1, <3>2
  <2>3. QED
    BY <1>3, <2>1, <2>2 DEF LandedCalls
<1>6. LogOnlyLanded'
  <2>1. ASSUME NEW i \in 1..Len(log) PROVE \E j \in 1..(n + 1) : landings'[j] = log[i]
    <3>1. PICK j \in 1..n : landings[j] = log[i]
      BY DEF LogInv, LogOnlyLanded
    <3>2. j \in 1..(n + 1)
      BY <1>3
    <3>3. QED
      BY <1>3, <3>1, <3>2
  <2>2. QED
    BY <1>1, <1>3, <2>1 DEF LogOnlyLanded
<1>7. LogOrder'
  <2> SUFFICES ASSUME ~raced'
               PROVE  /\ \A x, y \in Call : Pending(x)' /\ Pending(y)' => x = y
                      /\ \A x \in Call : Pending(x)' =>
                            /\ landings' # <<>> /\ landings'[Len(landings')] = x
                            /\ Len(log') < Len(landings')
                            /\ Len(log') + 1 = Len(landings') => LogAligned'
                      /\ Len(log') <= Len(landings')
                      /\ Len(log') = Len(landings') => LogAligned'
    BY DEF LogOrder
  <2>1. ~raced /\ \A d \in Call : ~Pending(d)
    BY <1>1
  <2>2. \A d \in Call : Pending(d)' => d = c
    BY <1>2, <2>1 DEF Pending
  <2>3. Len(log) <= n /\ (Len(log) = n => LogAligned)
    BY <2>1 DEF LogInv, LogOrder
  <2>4. Len(log) = n => LogAligned'
    BY <1>1, <1>3, <2>3 DEF LogAligned
  <2>5. landings' # <<>> /\ Len(log') < Len(landings') /\ landings'[Len(landings')] = c
    <3>1. landings' # <<>>
      <4>1. Len(landings') # 0
        BY <1>3
      <4>2. Len(<<>>) = 0
        OBVIOUS
      <4>3. QED
        BY <4>1, <4>2
    <3>2. Len(log') < Len(landings')
      BY <1>1, <1>3, <1>4, <2>3
    <3>3. landings'[Len(landings')] = c
      BY <1>3
    <3>4. QED
      BY <3>1, <3>2, <3>3
  <2>6. Len(log') + 1 = Len(landings') => LogAligned'
    BY <1>1, <1>3, <1>4, <2>4
  <2>7. Len(log') <= Len(landings') /\ Len(log') # Len(landings')
    BY <1>1, <1>3, <1>4, <2>3
  <2>8. QED
    BY <2>2, <2>5, <2>6, <2>7
<1>8. QED
  BY <1>5, <1>6, <1>7 DEF LogInv

\* A record is appended by a call that has landed, and it is the latest one
\* unless some landing raced.
LEMMA LogRecord ==
  ASSUME TypeOK, LogInv, NEW c \in Call, Record(c)
  PROVE  LogInv'
<1> USE DEF TypeOK
<1>1. /\ pc[c] = "landed" /\ landings' = landings /\ raced' = raced
      /\ log' = Append(log, c) \/ log' = log
  BY DEF Record
<1>2. /\ pc' \in [Call -> Working \cup Ended] /\ pc'[c] = "done"
      /\ \A d \in Call \ {c} : pc'[d] = pc[d]
  BY DEF Record, Goto, Ended
<1>3. CASE log' = log
  BY <1>1, <1>2, <1>3, LogQuiet DEF Pending, Ended
<1>4. CASE log' = Append(log, c)
  <2>1. /\ Len(log) \in Nat /\ Len(log') = Len(log) + 1 /\ log'[Len(log) + 1] = c
        /\ \A i \in 1..Len(log) : log'[i] = log[i]
        /\ Len(landings) \in Nat
    BY <1>4
  <2>2. \A d \in Call : Pending(d)' => Pending(d)
    BY <1>1, <1>2 DEF Pending
  <2>3. LandedCalls'
    <3>1. ASSUME NEW j \in 1..Len(landings)
          PROVE  pc'[landings[j]] \in {"linked", "landed"} \cup Ended
      <4>1. landings[j] \in Call /\ pc[landings[j]] \in {"linked", "landed"} \cup Ended
        BY DEF LogInv, LandedCalls
      <4>2. QED
        BY <1>2, <4>1 DEF Ended
    <3>2. QED
      BY <1>1, <2>2, <3>1 DEF LogInv, LandedCalls
  <2>4. LogOnlyLanded'
    <3>1. \E j \in 1..Len(landings) : landings[j] = c
      BY <1>1 DEF LogInv, LandedCalls, Pending
    <3>2. ASSUME NEW i \in 1..(Len(log) + 1)
          PROVE  \E j \in 1..Len(landings) : landings[j] = log'[i]
      <4>1. CASE i = Len(log) + 1
        BY <2>1, <3>1, <4>1
      <4>2. CASE i \in 1..Len(log)
        BY <2>1, <4>2 DEF LogInv, LogOnlyLanded
      <4>3. QED
        BY <2>1, <4>1, <4>2
    <3>3. QED
      BY <1>1, <2>1, <3>2 DEF LogOnlyLanded
  <2>5. LogOrder'
    <3> SUFFICES ASSUME ~raced
                 PROVE  /\ \A x \in Call : ~Pending(x)'
                        /\ Len(log') <= Len(landings')
                        /\ Len(log') = Len(landings') => LogAligned'
      BY <1>1 DEF LogOrder
    <3>1. Pending(c) /\ Len(log) < Len(landings) /\ landings[Len(landings)] = c
          /\ (Len(log) + 1 = Len(landings) => LogAligned)
      BY <1>1 DEF LogInv, LogOrder, Pending
    <3>2. \A x \in Call : ~Pending(x)'
      <4>1. \A x \in Call : Pending(x) => x = c
        BY <3>1 DEF LogInv, LogOrder
      <4>2. ~Pending(c)'
        BY <1>2 DEF Pending
      <4>3. QED
        BY <2>2, <4>1, <4>2
    <3>3. Len(log') = Len(landings') => LogAligned'
      BY <1>1, <2>1, <3>1 DEF LogAligned
    <3>4. QED
      BY <1>1, <2>1, <3>1, <3>2, <3>3
  <2>6. QED
    BY <2>3, <2>4, <2>5 DEF LogInv
<1>5. QED
  BY <1>1, <1>3, <1>4

\* Every step keeps the invariant of the log.
LEMMA NextLog == TypeOK /\ LogInv /\ [Next]_vars => LogInv'
<1> SUFFICES ASSUME TypeOK, LogInv, [Next]_vars PROVE LogInv'
  OBVIOUS
<1>1. ASSUME NEW c \in Call, CallStep(c), ~(Link(c) \/ Replace(c) \/ Record(c))
      PROVE  LogInv'
  <2>1. /\ pc' \in [Call -> Working \cup Ended] /\ \A d \in Call \ {c} : pc'[d] = pc[d]
        /\ UNCHANGED <<landings, log, raced>>
    BY <1>1 DEF TypeOK, Goto, CallStep, Probe, Stat, CreateTmp, FillTmp, VerifyLeaf, Reread,
       VerifyRefused, LinkRefused, UnlinkTmp, Fail, Crash, Refuse, RefuseLeavingTmp,
       Working, Ended
  <2>2. /\ pc[c] \in {"linked", "landed"} \cup Ended => pc'[c] \in {"linked", "landed"} \cup Ended
        /\ Pending(c)' => Pending(c)
    BY <1>1 DEF TypeOK, Goto, CallStep, Probe, Stat, CreateTmp, FillTmp, VerifyLeaf, Reread,
       VerifyRefused, LinkRefused, UnlinkTmp, Fail, Crash, Refuse, RefuseLeavingTmp,
       Working, Ended, Pending
  <2>3. QED
    BY <2>1, <2>2, LogQuiet
<1>2. CASE UNCHANGED <<pc, landings, log, raced>>
  BY <1>2 DEF LogInv, LandedCalls, LogOnlyLanded, LogOrder, LogAligned, Pending
<1>3. QED
  BY <1>1, <1>2, LogLanding, LogRecord
  DEF Next, EditInPlace, EditByRename, Delete, RawChange, Finished, vars

\* The log names landed calls only, and in the order they landed unless raced.
THEOREM LogInvariant == Spec => []LogInv
<1>1. TypeOK /\ LogInv /\ [Next]_vars => LogInv'
  BY NextLog
<1>2. QED
  BY <1>1, InitLog, TypeCorrect, PTL DEF Spec

\* The log never vouches for bytes that did not reach the artifact.
THEOREM LogHonest == Spec => []LogOnlyLanded
BY LogInvariant, PTL DEF LogInv

\* With every landing recorded before the next, the audit's verdict is exact.
THEOREM AuditVerdict == Spec => []AuditExact
<1>1. TypeOK /\ LogInv => AuditExact
  <2> SUFFICES ASSUME TypeOK, LogInv, ~raced, Len(log) = Len(landings),
                      landings # <<>>, dest # NoFile
               PROVE  Audit = "guard" <=> dest.bytes # job[landings[Len(landings)]].data
    BY DEF AuditExact
  <2>1. Len(landings) \in 1..Len(log) /\ log # <<>>
    BY DEF TypeOK
  <2>2. RecordedBytes = job[landings[Len(landings)]].data
    BY <2>1 DEF LogInv, LogOrder, LogAligned, RecordedBytes
  <2>3. QED
    BY <2>1, <2>2 DEF Audit
<1>2. QED
  BY <1>1, TypeCorrect, LogInvariant, PTL

-----------------------------------------------------------------------------
(* Bound writes *)

\* Without changes from outside, the artifact holds the last landed bytes.
LastLanded ==
    landings # <<>> => dest # NoFile /\ dest.bytes = job[landings[Len(landings)]].data

\* What a bound call saw when it was last validated: the artifact held the bytes
\* of landing number seen, and those were the bytes it is bound to.
SawBound(c) == seen[c] > 0 => job[landings[seen[c]]].data = job[c].bound

\* A bound call always plans to overwrite, hence never links.
BoundOverwrites ==
    \A c \in Call : Bound(c) =>
        /\ pc[c] # "linked"
        /\ pc[c] \in {"planned", "writing", "written", "reread", "verified"} => ~ExpectAbsent(c)

LandedPast == \A j \in 1..Len(landings) : pc[landings[j]] \in {"linked", "landed"} \cup Ended

SawInv ==
    raws = 0 =>
        /\ LastLanded
        /\ \A c \in Call : (Bound(c) /\ pc[c] = "verified") => seen[c] <= Len(landings) /\ SawBound(c)
        /\ \A j \in 1..Len(landings) :
              Bound(landings[j]) => seen[landings[j]] < j /\ SawBound(landings[j])

BindingInv == BoundOverwrites /\ LandedPast /\ SawInv

\* No call has validated or landed at the start.
LEMMA InitBinding == Init => BindingInv
BY DEF Init, BindingInv, BoundOverwrites, LandedPast, SawInv, LastLanded, Bound

\* A step that neither validates nor lands keeps what bound calls saw.
LEMMA BindingQuiet ==
  ASSUME TypeOK, BindingInv, NEW c \in Call,
         \A d \in Call \ {c} : pc'[d] = pc[d] /\ plan'[d] = plan[d],
         Bound(c) => pc'[c] # "linked" /\
            (pc'[c] \in {"planned", "writing", "written", "reread", "verified"} => plan'[c] # NoFile),
         pc[c] \in {"linked", "landed"} \cup Ended => pc'[c] \in {"linked", "landed"} \cup Ended,
         Bound(c) /\ pc'[c] = "verified" => pc[c] = "verified",
         UNCHANGED <<job, seen, landings, raws, dest>>
  PROVE  BindingInv'
<1> USE DEF TypeOK
<1>1. \A j \in 1..Len(landings) : landings[j] \in Call
  OBVIOUS
<1>2. \A d \in Call : Bound(d)' <=> Bound(d)
  BY DEF Bound
<1>3. \A d \in Call : SawBound(d)' <=> SawBound(d)
  BY DEF SawBound
<1>4. LastLanded' <=> LastLanded
  BY DEF LastLanded
<1>5. \A d \in Call : Bound(d)' =>
        /\ pc'[d] # "linked"
        /\ pc'[d] \in {"planned", "writing", "written", "reread", "verified"} => ~ExpectAbsent(d)'
  BY <1>2 DEF BindingInv, BoundOverwrites, LandedPast, SawInv, ExpectAbsent
<1>6. \A j \in 1..Len(landings) : pc'[landings[j]] \in {"linked", "landed"} \cup Ended
  <2> SUFFICES ASSUME NEW j \in 1..Len(landings)
               PROVE  pc'[landings[j]] \in {"linked", "landed"} \cup Ended
    OBVIOUS
  <2>1. landings[j] \in Call /\ pc[landings[j]] \in {"linked", "landed"} \cup Ended
    BY <1>1 DEF BindingInv, BoundOverwrites, LandedPast, SawInv
  <2>2. QED
    BY <2>1
<1>7. ASSUME raws = 0
      PROVE  /\ LastLanded'
             /\ \A d \in Call : (Bound(d) /\ pc'[d] = "verified") =>
                   seen[d] <= Len(landings) /\ SawBound(d)'
             /\ \A j \in 1..Len(landings) :
                   Bound(landings[j]) => seen[landings[j]] < j /\ SawBound(landings[j])'
  BY <1>1, <1>3, <1>4, <1>7 DEF BindingInv, BoundOverwrites, LandedPast, SawInv
<1>8. BoundOverwrites'
  BY <1>5 DEF BoundOverwrites
<1>9. LandedPast'
  BY <1>6 DEF LandedPast
<1>10. SawInv'
  BY <1>2, <1>7 DEF SawInv
<1>11. QED
  BY <1>8, <1>9, <1>10 DEF BindingInv

\* Validation: without changes from outside, a bound call has just seen that
\* the last landed bytes are the ones it is bound to.
LEMMA BindingReread ==
  ASSUME TypeOK, BindingInv, NEW c \in Call, Reread(c)
  PROVE  BindingInv'
<1> USE DEF TypeOK
<1> DEFINE n == Len(landings)
<1>1. /\ pc[c] = "reread" /\ ContentUnchanged(c)
      /\ UNCHANGED <<dest, plan, job, landings, raws>>
      /\ seen' = [seen EXCEPT ![c] = n]
  BY DEF Reread
<1>2. pc'[c] = "verified" /\ \A d \in Call \ {c} : pc'[d] = pc[d] /\ seen'[d] = seen[d]
  BY <1>1 DEF Reread, Goto
<1>3. n \in Nat /\ seen'[c] = n /\ \A j \in 1..n : landings[j] \in Call
  BY <1>1
<1>4. \A j \in 1..n : landings[j] # c
  BY <1>1 DEF BindingInv, BoundOverwrites, LandedPast, SawInv, Ended
<1>5. \A d \in Call \ {c} : SawBound(d)' <=> SawBound(d)
  BY <1>1, <1>2 DEF SawBound
<1>6. \A d \in Call : Bound(d)' <=> Bound(d)
  BY <1>1 DEF Bound
<1>7. \A d \in Call : Bound(d)' =>
        /\ pc'[d] # "linked"
        /\ pc'[d] \in {"planned", "writing", "written", "reread", "verified"} => ~ExpectAbsent(d)'
  BY <1>1, <1>2, <1>6 DEF BindingInv, BoundOverwrites, LandedPast, SawInv, ExpectAbsent
<1>8. \A j \in 1..n : pc'[landings[j]] \in {"linked", "landed"} \cup Ended
  BY <1>2, <1>3, <1>4 DEF BindingInv, BoundOverwrites, LandedPast, SawInv
<1>9. ASSUME raws = 0
      PROVE  /\ LastLanded'
             /\ \A d \in Call : (Bound(d) /\ pc'[d] = "verified") =>
                   seen'[d] <= n /\ SawBound(d)'
             /\ \A j \in 1..n :
                   Bound(landings[j]) => seen'[landings[j]] < j /\ SawBound(landings[j])'
  <2>1. LastLanded /\ LastLanded'
    BY <1>1, <1>9 DEF BindingInv, BoundOverwrites, LandedPast, SawInv, LastLanded
  <2>2. seen'[c] <= n /\ SawBound(c)'
    <3>1. CASE n = 0
      BY <1>3, <3>1 DEF SawBound
    <3>2. CASE n > 0
      <4>1. landings # <<>>
        BY <3>2
      <4>2. job[landings[n]].data = job[c].bound
        BY <1>1, <2>1, <4>1 DEF LastLanded, ContentUnchanged
      <4>3. QED
        BY <1>1, <1>3, <4>2 DEF SawBound
    <3>3. QED
      BY <1>3, <3>1, <3>2
  <2>3. ASSUME NEW d \in Call, Bound(d), pc'[d] = "verified" PROVE seen'[d] <= n /\ SawBound(d)'
    <3>1. CASE d = c
      BY <2>2, <3>1
    <3>2. CASE d # c
      BY <1>2, <1>5, <1>9, <2>3, <3>2 DEF BindingInv, BoundOverwrites, LandedPast, SawInv
    <3>3. QED
      BY <3>1, <3>2
  <2>4. ASSUME NEW j \in 1..n, Bound(landings[j])
        PROVE  seen'[landings[j]] < j /\ SawBound(landings[j])'
    BY <1>1, <1>2, <1>3, <1>4, <1>5, <1>9, <2>4 DEF BindingInv, BoundOverwrites, LandedPast, SawInv
  <2>5. QED
    BY <2>1, <2>3, <2>4
<1>10. BoundOverwrites'
  BY <1>7 DEF BoundOverwrites
<1>11. LandedPast'
  BY <1>1, <1>8 DEF LandedPast
<1>12. SawInv'
  BY <1>1, <1>6, <1>9 DEF SawInv
<1>13. QED
  BY <1>10, <1>11, <1>12 DEF BindingInv

\* The stat half alone validates only unbound calls.
LEMMA BindingVerifyLeaf ==
  ASSUME TypeOK, BindingInv, NEW c \in Call, VerifyLeaf(c)
  PROVE  BindingInv'
<1> USE DEF TypeOK
<1>1. /\ pc[c] = "written" /\ UNCHANGED <<dest, plan, job, landings, raws>>
      /\ pc' = [pc EXCEPT ![c] = IF Bound(c) THEN "reread" ELSE "verified"]
      /\ \A d \in Call \ {c} : seen'[d] = seen[d]
  BY DEF VerifyLeaf, Goto
<1>2. \A j \in 1..Len(landings) : landings[j] \in Call /\ landings[j] # c
  <2>1. \A j \in 1..Len(landings) : pc[landings[j]] # "written"
    BY DEF BindingInv, BoundOverwrites, LandedPast, SawInv, Ended
  <2>2. QED
    BY <1>1, <2>1
<1>3. \A d \in Call \ {c} : SawBound(d)' <=> SawBound(d)
  BY <1>1 DEF SawBound
<1>4. \A d \in Call : Bound(d)' <=> Bound(d)
  BY <1>1 DEF Bound
<1>5. LastLanded' <=> LastLanded
  BY <1>1 DEF LastLanded
<1>6. \A d \in Call : Bound(d)' =>
        /\ pc'[d] # "linked"
        /\ pc'[d] \in {"planned", "writing", "written", "reread", "verified"} => ~ExpectAbsent(d)'
  BY <1>1, <1>4 DEF BindingInv, BoundOverwrites, LandedPast, SawInv, ExpectAbsent
<1>7. ASSUME NEW j \in 1..Len(landings)
      PROVE  pc'[landings[j]] \in {"linked", "landed"} \cup Ended
  <2>1. pc[landings[j]] \in {"linked", "landed"} \cup Ended
    BY DEF BindingInv, BoundOverwrites, LandedPast, SawInv
  <2>2. QED
    BY <1>1, <1>2, <2>1
<1>8. QED
  BY <1>1, <1>2, <1>3, <1>4, <1>5, <1>6, <1>7 DEF BindingInv, BoundOverwrites, LandedPast, SawInv

\* A landing call saw landing number seen, which precedes its own.
LEMMA BindingLanding ==
  ASSUME WholeInv, BindingInv, NEW c \in Call, Link(c) \/ Replace(c)
  PROVE  BindingInv'
<1> USE DEF WholeInv, TypeOK
<1> DEFINE n == Len(landings)
<1>1. /\ pc[c] = "verified" /\ dest' = tmp[c] /\ landings' = Append(landings, c)
      /\ UNCHANGED <<plan, job, seen, raws>>
  BY DEF Link, Replace, Landed
<1>2. pc'[c] \in {"linked", "landed"} /\ \A d \in Call \ {c} : pc'[d] = pc[d]
  BY DEF Link, Replace, Goto
<1>3. Bound(c) => pc'[c] = "landed"
  BY <1>1 DEF BindingInv, BoundOverwrites, LandedPast, SawInv, Link, Replace, Goto
<1>4. /\ n \in Nat /\ Len(landings') = n + 1 /\ landings'[n + 1] = c
      /\ \A j \in 1..n : landings'[j] = landings[j] /\ landings[j] \in Call
  BY <1>1
<1>5. dest' # NoFile /\ dest'.bytes = job[c].data
  BY <1>1, ConstantsAssumption DEF TmpHeld, TmpWhole, File
<1>6. \A d \in Call : Bound(d)' <=> Bound(d)
  BY <1>1 DEF Bound
<1>7. \A d \in Call : Bound(d)' =>
        /\ pc'[d] # "linked"
        /\ pc'[d] \in {"planned", "writing", "written", "reread", "verified"} => ~ExpectAbsent(d)'
  BY <1>1, <1>2, <1>3, <1>6 DEF BindingInv, BoundOverwrites, LandedPast, SawInv, ExpectAbsent
<1>8. ASSUME NEW j \in 1..(n + 1)
      PROVE  pc'[landings'[j]] \in {"linked", "landed"} \cup Ended
  <2>1. CASE j = n + 1
    BY <1>2, <1>4, <2>1
  <2>2. CASE j \in 1..n
    <3>1. landings'[j] = landings[j] /\ landings[j] \in Call
          /\ pc[landings[j]] \in {"linked", "landed"} \cup Ended
      BY <1>4, <2>2 DEF BindingInv, BoundOverwrites, LandedPast, SawInv
    <3>2. QED
      BY <1>2, <3>1
  <2>3. QED
    BY <1>4, <2>1, <2>2
<1>9. ASSUME raws = 0
      PROVE  /\ LastLanded'
             /\ \A d \in Call : (Bound(d) /\ pc'[d] = "verified") =>
                   seen[d] <= n + 1 /\ SawBound(d)'
             /\ \A j \in 1..(n + 1) :
                   Bound(landings'[j]) => seen[landings'[j]] < j /\ SawBound(landings[j])'
  <2>1. LastLanded'
    BY <1>1, <1>4, <1>5 DEF LastLanded
  <2>2. \A d \in Call : seen[d] <= n /\ SawBound(d) => SawBound(d)'
    BY <1>1, <1>4 DEF SawBound
  <2>3. ASSUME NEW d \in Call, Bound(d), pc'[d] = "verified"
        PROVE  seen[d] <= n + 1 /\ SawBound(d)'
    <3>1. seen[d] <= n /\ SawBound(d)
      BY <1>2, <1>9, <2>3 DEF BindingInv, BoundOverwrites, LandedPast, SawInv
    <3>2. QED
      BY <1>4, <2>2, <3>1
  <2>4. ASSUME NEW j \in 1..(n + 1), Bound(landings'[j])
        PROVE  seen[landings'[j]] < j /\ SawBound(landings[j])'
    <3>1. CASE j = n + 1
      <4>1. landings'[j] = c /\ seen[c] <= n /\ SawBound(c)
        BY <1>1, <1>4, <1>9, <2>4, <3>1 DEF BindingInv, BoundOverwrites, LandedPast, SawInv
      <4>2. QED
        BY <1>1, <1>4, <2>2, <3>1, <4>1
    <3>2. CASE j \in 1..n
      <4>1. landings'[j] = landings[j] /\ landings[j] \in Call
            /\ seen[landings[j]] < j /\ SawBound(landings[j])
        BY <1>4, <1>9, <2>4, <3>2 DEF BindingInv, BoundOverwrites, LandedPast, SawInv
      <4>2. seen[landings[j]] <= n
        BY <1>4, <3>2, <4>1
      <4>3. SawBound(landings[j])'
        BY <1>1, <1>4, <3>2, <4>1, <4>2 DEF SawBound
      <4>4. QED
        BY <4>1, <4>3
    <3>3. QED
      BY <1>4, <3>1, <3>2
  <2>5. QED
    BY <2>1, <2>3, <2>4
<1>10. BoundOverwrites'
  BY <1>7 DEF BoundOverwrites
<1>11. LandedPast'
  BY <1>4, <1>8 DEF LandedPast
<1>12. SawInv'
  BY <1>1, <1>4, <1>6, <1>9 DEF SawInv
<1>13. QED
  BY <1>10, <1>11, <1>12 DEF BindingInv

\* A change from outside voids the claim about bound writes and nothing else.
LEMMA BindingRaw ==
  ASSUME TypeOK, BindingInv, EditInPlace \/ EditByRename \/ Delete
  PROVE  BindingInv'
<1>1. raws' = raws + 1 /\ UNCHANGED <<pc, plan, job, landings>>
  BY DEF EditInPlace, EditByRename, Delete, RawChange
<1>2. raws' # 0
  BY <1>1 DEF TypeOK
<1>3. \A d \in Call : (Bound(d)' <=> Bound(d)) /\ (ExpectAbsent(d)' <=> ExpectAbsent(d))
  BY <1>1 DEF Bound, ExpectAbsent
<1>4. QED
  BY <1>1, <1>2, <1>3 DEF BindingInv, BoundOverwrites, LandedPast, SawInv

\* Every step keeps the invariant of the bound calls.
LEMMA NextBinding == WholeInv /\ PlanUnset /\ BindingInv /\ [Next]_vars => BindingInv'
<1> SUFFICES ASSUME WholeInv, PlanUnset, BindingInv, [Next]_vars PROVE BindingInv'
  OBVIOUS
<1> USE DEF WholeInv, TypeOK
<1>1. ASSUME NEW c \in Call, CallStep(c),
             ~(VerifyLeaf(c) \/ Reread(c) \/ Link(c) \/ Replace(c))
      PROVE  BindingInv'
  <2>1. /\ \A d \in Call \ {c} : pc'[d] = pc[d] /\ plan'[d] = plan[d]
        /\ UNCHANGED <<job, seen, landings, raws, dest>>
    BY <1>1 DEF Goto, CallStep, Probe, Stat, CreateTmp, FillTmp, VerifyRefused, LinkRefused,
       UnlinkTmp, Record, Fail, Crash, Refuse, RefuseLeavingTmp
  <2>2. /\ pc[c] \in {"linked", "landed"} \cup Ended => pc'[c] \in {"linked", "landed"} \cup Ended
        /\ Bound(c) /\ pc'[c] = "verified" => pc[c] = "verified"
        /\ pc'[c] # "linked"
    BY <1>1 DEF Goto, CallStep, Probe, Stat, CreateTmp, FillTmp, VerifyRefused, LinkRefused,
       UnlinkTmp, Record, Fail, Crash, Refuse, RefuseLeavingTmp, Working, Ended
  <2>3. Bound(c) /\ pc'[c] \in {"planned", "writing", "written", "reread", "verified"}
        => plan'[c] # NoFile
    <3>1. CASE Probe(c)
      BY <3>1 DEF Probe, Goto
    <3>2. CASE Stat(c)
      BY <3>2, ConstantsAssumption DEF Stat, Goto, File
    <3>3. CASE CreateTmp(c) \/ FillTmp(c)
      BY <3>3 DEF CreateTmp, FillTmp, Goto, BindingInv, BoundOverwrites, ExpectAbsent
    <3>4. CASE VerifyRefused(c) \/ LinkRefused(c) \/ UnlinkTmp(c) \/ Record(c) \/ Fail(c) \/ Crash(c)
      BY <3>4 DEF VerifyRefused, LinkRefused, UnlinkTmp, Record, Fail, Crash, Refuse,
         RefuseLeavingTmp, Goto
    <3>5. QED
      BY <1>1, <3>1, <3>2, <3>3, <3>4 DEF CallStep
  <2>4. QED
    BY <2>1, <2>2, <2>3, BindingQuiet
<1>2. CASE UNCHANGED vars
  BY <1>2 DEF vars, BindingInv, BoundOverwrites, LandedPast, SawInv, LastLanded, SawBound, Bound, ExpectAbsent
<1>3. QED
  BY <1>1, <1>2, BindingVerifyLeaf, BindingReread, BindingLanding, BindingRaw DEF Next, Finished

\* A bound write never lands on bytes it had not validated since the last write
\* that changed them: lost corrections need the window after the reread.
THEOREM StaleBinding == Spec => []StaleBindingRefused
<1>1. Spec => []BindingInv
  <2>1. TypeOK /\ PlanUnset /\ [Next]_vars => PlanUnset'
    BY NextPlan
  <2>2. WholeInv => TypeOK
    BY DEF WholeInv
  <2>3. WholeInv /\ PlanUnset /\ BindingInv /\ [Next]_vars => BindingInv'
    BY NextBinding
  <2>4. QED
    BY <2>1, <2>2, <2>3, InitPlan, InitBinding, WholeInvariant, PTL DEF Spec
<1>2. TypeOK /\ BindingInv => StaleBindingRefused
  <2> SUFFICES ASSUME TypeOK, BindingInv, raws = 0,
                      NEW j \in 1..Len(landings), NEW i \in 1..(j - 1),
                      Bound(landings[j]),
                      \A k \in i..(j - 1) : job[landings[k]].data # job[landings[j]].bound
               PROVE  seen[landings[j]] < i
    BY DEF StaleBindingRefused
  <2>1. seen[landings[j]] < j /\ SawBound(landings[j])
    BY DEF BindingInv, BoundOverwrites, LandedPast, SawInv
  <2>2. seen[landings[j]] \in Nat
    BY DEF TypeOK
  <2>3. ASSUME seen[landings[j]] >= i PROVE FALSE
    <3>1. seen[landings[j]] \in i..(j - 1) /\ seen[landings[j]] > 0
      BY <2>1, <2>2, <2>3 DEF TypeOK
    <3>2. QED
      BY <2>1, <3>1 DEF SawBound
  <2>4. QED
    BY <2>2, <2>3 DEF TypeOK
<1>3. QED
  BY <1>1, <1>2, TypeCorrect, PTL
=============================================================================
