---------------------------- MODULE MediatedWrite ----------------------------
(***************************************************************************)
(* Concurrent calls of the mediated writer on one governed artifact, the   *)
(* provenance record each successful call appends, and the audit that      *)
(* later compares the artifact with the log.                               *)
(*                                                                         *)
(* One step per system call that another process can observe: probe and    *)
(* stat of the destination, exclusive create of the temporary file, its    *)
(* contents, the revalidation (stat, then reread when the call is bound to *)
(* expected bytes), link or replace, unlink of the temporary name, and the *)
(* append to the log.  Inode numbers are reused once no name refers to     *)
(* them, as file systems do.  The checks of the path and of the ancestor   *)
(* directories are one possible failure of the step they belong to.        *)
(***************************************************************************)
EXTENDS Naturals, Sequences

CONSTANTS Call,       \* calls of mediated_write, each made once
          Data,       \* complete artifact bodies
          Inode,      \* inode numbers
          NoFile,     \* no directory entry
          NoBinding,  \* expected_data is None
          Torn,       \* bytes of a file that is not completely written
          MaxRaw      \* bound on the changes made outside the writer

ASSUME ConstantsAssumption ==
    /\ NoBinding \notin Data
    /\ Torn \notin Data
    /\ MaxRaw \in Nat
    /\ NoFile \notin Inode
    /\ NoFile \notin [ino : Inode, bytes : Data \cup {Torn}]

VARIABLES
    dest,      \* the file the artifact's name refers to, or NoFile
    tmp,       \* the file each call's temporary name refers to, or NoFile
    orphans,   \* inodes that temporary names left behind still refer to
    pc,        \* the next system call of each call
    job,       \* arguments of each call: data and expected_data
    plan,      \* expected_leaf: the inode found at planning, NoFile = expect_absent
    seen,      \* how many writes had landed when the call was last validated
    landings,  \* the calls whose bytes reached the artifact, in order
    log,       \* the calls whose record reached the write log, in order
    raced,     \* a write landed while an earlier one had yet to append its record
    raws       \* changes made outside the writer so far

vars == <<dest, tmp, orphans, pc, job, plan, seen, landings, log, raced, raws>>

File == [ino : Inode, bytes : Data \cup {Torn}]
Job  == [data : Data, bound : Data \cup {NoBinding}]

Working == {"idle", "probed", "planned", "writing", "written", "reread",
            "verified", "linked", "landed"}
Ended   == {"done", "refused", "crashed"}

Init ==
    /\ dest \in {NoFile} \cup [ino : Inode, bytes : Data]
    /\ tmp = [c \in Call |-> NoFile]
    /\ orphans = {}
    /\ pc = [c \in Call |-> "idle"]
    /\ job \in [Call -> Job]
    /\ plan = [c \in Call |-> NoFile]
    /\ seen = [c \in Call |-> 0]
    /\ landings = <<>>
    /\ log = <<>>
    /\ raced = FALSE
    /\ raws = 0

-----------------------------------------------------------------------------
(* The file system *)

TmpInodes == {tmp[c].ino : c \in {d \in Call : tmp[d] # NoFile}}

FreeInodes ==
    {i \in Inode : i \notin orphans /\ i \notin TmpInodes /\ (dest = NoFile \/ dest.ino # i)}

\* st_nlink > 1 at the destination
Hardlinked == dest # NoFile /\ dest.ino \in orphans \cup TmpInodes

Bound(c) == job[c].bound # NoBinding

ExpectAbsent(c) == plan[c] = NoFile

Goto(c, label) == pc' = [pc EXCEPT ![c] = label]

\* A refusal removes the temporary file; when even that fails the name stays.
Refuse(c) ==
    /\ Goto(c, "refused")
    /\ tmp' = [tmp EXCEPT ![c] = NoFile]
    /\ UNCHANGED <<dest, orphans, job, plan, seen, landings, log, raced, raws>>

RefuseLeavingTmp(c) ==
    /\ tmp[c] # NoFile
    /\ Goto(c, "refused")
    /\ tmp' = [tmp EXCEPT ![c] = NoFile]
    /\ orphans' = orphans \cup {tmp[c].ino}
    /\ UNCHANGED <<dest, job, plan, seen, landings, log, raced, raws>>

-----------------------------------------------------------------------------
(* One call of mediated_write *)

\* lexists(candidate): fixes whether this call creates or replaces.
Probe(c) ==
    /\ pc[c] = "idle"
    /\ Goto(c, IF dest # NoFile THEN "probed" ELSE IF Bound(c) THEN "refused" ELSE "planned")
    /\ UNCHANGED <<dest, tmp, orphans, job, plan, seen, landings, log, raced, raws>>

\* lstat(candidate): a vanished or hard-linked destination ends the call.
Stat(c) ==
    /\ pc[c] = "probed"
    /\ IF dest = NoFile \/ Hardlinked
       THEN Goto(c, "refused") /\ UNCHANGED plan
       ELSE Goto(c, "planned") /\ plan' = [plan EXCEPT ![c] = dest.ino]
    /\ UNCHANGED <<dest, tmp, orphans, job, seen, landings, log, raced, raws>>

\* open(tmp, O_CREAT | O_EXCL): a fresh name in the destination's directory.
CreateTmp(c) ==
    /\ pc[c] = "planned"
    /\ \E i \in FreeInodes : tmp' = [tmp EXCEPT ![c] = [ino |-> i, bytes |-> Torn]]
    /\ Goto(c, "writing")
    /\ UNCHANGED <<dest, orphans, job, plan, seen, landings, log, raced, raws>>

\* Mutant of FillTmp: the expected bytes are written instead of the new ones.
FillTmpExpected(c) ==
    /\ pc[c] = "writing"
    /\ tmp' = [tmp EXCEPT ![c].bytes = job[c].bound]
    /\ Goto(c, "written")
    /\ UNCHANGED <<dest, orphans, job, plan, seen, landings, log, raced, raws>>

\* _write_all and fsync
FillTmp(c) ==
    /\ pc[c] = "writing"
    /\ tmp' = [tmp EXCEPT ![c].bytes = job[c].data]
    /\ Goto(c, "written")
    /\ UNCHANGED <<dest, orphans, job, plan, seen, landings, log, raced, raws>>

\* The stat half of _verify_expected_leaf
LeafUnchanged(c) ==
    IF ExpectAbsent(c) THEN dest = NoFile
    ELSE dest # NoFile /\ ~Hardlinked /\ dest.ino = plan[c]

\* Mutant of VerifyLeaf: the inode is trusted for the contents.
VerifyLeafNoReread(c) ==
    /\ pc[c] = "written"
    /\ LeafUnchanged(c)
    /\ Goto(c, "verified")
    /\ seen' = [seen EXCEPT ![c] = Len(landings)]
    /\ UNCHANGED <<dest, tmp, orphans, job, plan, landings, log, raced, raws>>

VerifyLeaf(c) ==
    /\ pc[c] = "written"
    /\ LeafUnchanged(c)
    /\ Goto(c, IF Bound(c) THEN "reread" ELSE "verified")
    /\ seen' = [seen EXCEPT ![c] = Len(landings)]
    /\ UNCHANGED <<dest, tmp, orphans, job, plan, landings, log, raced, raws>>

\* The reread half: reopen by name, same inode, exactly the expected bytes.
ContentUnchanged(c) ==
    dest # NoFile /\ dest.ino = plan[c] /\ dest.bytes = job[c].bound

Reread(c) ==
    /\ pc[c] = "reread"
    /\ ContentUnchanged(c)
    /\ Goto(c, "verified")
    /\ seen' = [seen EXCEPT ![c] = Len(landings)]
    /\ UNCHANGED <<dest, tmp, orphans, job, plan, landings, log, raced, raws>>

VerifyRefused(c) ==
    /\ \/ pc[c] = "written" /\ ~LeafUnchanged(c)
       \/ pc[c] = "reread" /\ ~ContentUnchanged(c)
    /\ Refuse(c)

\* Bookkeeping of the model: the order in which bytes reached the artifact.
Landed(c) ==
    /\ landings' = Append(landings, c)
    /\ raced' = (raced \/ \E d \in Call : pc[d] \in {"linked", "landed"})

\* Mutant of Link: a rename, which replaces whatever is there.
LinkOverwriting(c) ==
    /\ pc[c] = "verified" /\ ExpectAbsent(c)
    /\ dest' = tmp[c]
    /\ Landed(c)
    /\ Goto(c, "linked")
    /\ UNCHANGED <<tmp, orphans, job, plan, seen, log, raws>>

\* os.link(tmp, final): fails when the destination exists by now.
Link(c) ==
    /\ pc[c] = "verified" /\ ExpectAbsent(c)
    /\ dest = NoFile
    /\ dest' = tmp[c]
    /\ Landed(c)
    /\ Goto(c, "linked")
    /\ UNCHANGED <<tmp, orphans, job, plan, seen, log, raws>>

LinkRefused(c) ==
    /\ pc[c] = "verified" /\ ExpectAbsent(c)
    /\ dest # NoFile
    /\ Refuse(c)

\* os.unlink(tmp) after the link
UnlinkTmp(c) ==
    /\ pc[c] = "linked"
    /\ tmp' = [tmp EXCEPT ![c] = NoFile]
    /\ Goto(c, "landed")
    /\ UNCHANGED <<dest, orphans, job, plan, seen, landings, log, raced, raws>>

\* os.replace(tmp, final): unconditional, whatever the name refers to by now.
Replace(c) ==
    /\ pc[c] = "verified" /\ ~ExpectAbsent(c)
    /\ dest' = tmp[c]
    /\ tmp' = [tmp EXCEPT ![c] = NoFile]
    /\ Landed(c)
    /\ Goto(c, "landed")
    /\ UNCHANGED <<orphans, job, plan, seen, log, raws>>

\* record_write: best effort, the call succeeds whether or not it appended.
Record(c) ==
    /\ pc[c] = "landed"
    /\ log' \in {Append(log, c), log}
    /\ Goto(c, "done")
    /\ UNCHANGED <<dest, tmp, orphans, job, plan, seen, landings, raced, raws>>

\* A system call fails or an ancestor directory changed: write-failed, toctou.
Fail(c) ==
    /\ pc[c] \in {"planned", "writing", "written", "reread", "verified", "linked"}
    /\ Refuse(c) \/ RefuseLeavingTmp(c)

\* The process dies: nothing cleans up its temporary file.
Crash(c) ==
    /\ pc[c] \in Working
    /\ Goto(c, "crashed")
    /\ tmp' = [tmp EXCEPT ![c] = NoFile]
    /\ orphans' = IF tmp[c] = NoFile THEN orphans ELSE orphans \cup {tmp[c].ino}
    /\ UNCHANGED <<dest, job, plan, seen, landings, log, raced, raws>>

CallStep(c) ==
    \/ Probe(c) \/ Stat(c) \/ CreateTmp(c) \/ FillTmp(c)
    \/ VerifyLeaf(c) \/ Reread(c) \/ VerifyRefused(c)
    \/ Link(c) \/ LinkRefused(c) \/ UnlinkTmp(c) \/ Replace(c)
    \/ Record(c) \/ Fail(c) \/ Crash(c)

-----------------------------------------------------------------------------
(* Changes made outside the writer: an editor, an assignee, delete-report. *)

RawChange(file) ==
    /\ raws < MaxRaw
    /\ raws' = raws + 1
    /\ dest' = file
    /\ UNCHANGED <<tmp, orphans, pc, job, plan, seen, landings, log, raced>>

EditInPlace == dest # NoFile /\ \E d \in Data : RawChange([dest EXCEPT !.bytes = d])
EditByRename == \E d \in Data, i \in FreeInodes : RawChange([ino |-> i, bytes |-> d])
Delete == dest # NoFile /\ RawChange(NoFile)

\* Every call has ended: nothing is left to do.
Quiescent == \A c \in Call : pc[c] \in Ended
Finished == Quiescent /\ UNCHANGED vars

Next == (\E c \in Call : CallStep(c)) \/ EditInPlace \/ EditByRename \/ Delete \/ Finished

Spec == Init /\ [][Next]_vars

-----------------------------------------------------------------------------
(* The audit *)

\* latest_by_path: the bytes the last record in the log vouches for.
RecordedBytes == job[log[Len(log)]].data

\* Mutant of Audit: bytes that any record vouches for are accepted.
AuditAnyRecord ==
    CASE dest = NoFile -> "silent"
      [] dest # NoFile /\ log = <<>> -> "advisory"
      [] dest # NoFile /\ log # <<>> /\ (\E i \in 1..Len(log) : job[log[i]].data = dest.bytes) -> "silent"
      [] dest # NoFile /\ log # <<>> /\ (\A i \in 1..Len(log) : job[log[i]].data # dest.bytes) -> "guard"

\* audit_provenance for this one artifact
Audit ==
    CASE dest = NoFile -> "silent"
      [] dest # NoFile /\ log = <<>> -> "advisory"
      [] dest # NoFile /\ log # <<>> /\ dest.bytes = RecordedBytes -> "silent"
      [] dest # NoFile /\ log # <<>> /\ dest.bytes # RecordedBytes -> "guard"

-----------------------------------------------------------------------------
(* Properties *)

\* Every variable keeps its type.
TypeOK ==
    /\ dest \in {NoFile} \cup File
    /\ tmp \in [Call -> {NoFile} \cup File]
    /\ orphans \subseteq Inode
    /\ pc \in [Call -> Working \cup Ended]
    /\ job \in [Call -> Job]
    /\ plan \in [Call -> {NoFile} \cup Inode]
    /\ seen \in [Call -> Nat]
    /\ landings \in Seq(Call)
    /\ log \in Seq(Call)
    /\ raced \in BOOLEAN
    /\ raws \in 0..MaxRaw

\* A reader of the artifact never sees a partly written body: neither a crash,
\* a refusal, a reused inode nor another call's temporary file can expose one.
NeverTorn == dest # NoFile => dest.bytes \in Data

\* The log vouches only for bytes that really reached the artifact: a refused
\* call, or one that died before its link or replace, leaves no record.
LogOnlyLanded ==
    \A i \in 1..Len(log) : \E j \in 1..Len(landings) : landings[j] = log[i]

\* The audit is exact once every call has ended, if no write landed while an
\* earlier one had yet to record and no record was missed: it names a raw edit
\* if and only if the artifact no longer holds the last bytes a mediated write
\* put there (a revert to older mediated bytes included).
AuditExact ==
    (/\ Quiescent /\ ~raced /\ Len(log) = Len(landings)
     /\ landings # <<>> /\ dest # NoFile)
    => (Audit = "guard" <=> dest.bytes # job[landings[Len(landings)]].data)

\* A correction bound to bytes that an earlier write has already replaced does
\* not land, unless it had validated them before that write: the only lost
\* update left is inside the window between the reread and the replace.
StaleBindingRefused ==
    raws = 0 =>
        \A j \in 1..Len(landings) : \A i \in 1..(j - 1) :
            LET late == landings[j]
            IN  (/\ Bound(late)
                 /\ \A k \in i..(j - 1) : job[landings[k]].data # job[late].bound)
                => seen[late] < i

\* What a reader sees of the artifact, and how far each call has come in the
\* terms of the abstract register.
RegisterValue == IF dest = NoFile THEN NoFile ELSE dest.bytes

RegisterWant == [c \in Call |-> job[c].data]

CallStatus(c) ==
    CASE pc[c] \in {"idle", "probed"} -> "idle"
      [] pc[c] \in {"planned", "writing", "written", "reread", "verified"} ->
           IF ExpectAbsent(c) THEN "create" ELSE "overwrite"
      [] pc[c] \in {"linked", "landed"} -> "landed"
      [] OTHER -> "ended"

RegisterStatus == [c \in Call |-> CallStatus(c)]

Register == INSTANCE ArtifactRegister WITH
    Absent <- NoFile, value <- RegisterValue, want <- RegisterWant, status <- RegisterStatus

\* The write path implements the abstract register: whole bodies, one effect
\* per call, and a create never lands on an artifact that exists.
RegisterSpec == Register!Spec
=============================================================================
