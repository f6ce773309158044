------------------------------ MODULE Backlog ------------------------------
(***************************************************************************)
(* BACKLOG.md: write-backlog allocates, revises and restamps entries,      *)
(* delete-backlog removes them, and the artifact writers' --source         *)
(* promotes them.  Each command reads the file once, renders a whole new   *)
(* body from what it read, and hands that body to the mediated writer      *)
(* without binding it to what was read; the write lands as a whole or is   *)
(* refused (see MediatedWrite), so a command here is a read and a landing. *)
(***************************************************************************)
EXTENDS Integers

CONSTANTS Caller,     \* command invocations that may overlap
          Note,       \* what an entry says (title and body)
          Artifact,   \* governed tasks, specs, phases, decisions
          None,       \* no mark, no entry, no source
          MaxId,      \* the largest id the BL-NNN grammar can name: 999
          MaxAlloc,   \* bound: no instance allocates an id above it
          Serial,     \* backlog writers take turns (the one project manager)
          Legacy,     \* the file may predate its `Highest id issued:` field
          ReadFaults  \* reading an existing BACKLOG.md may raise OSError

Id == 1..MaxId
Entry == [note : Note, tail : SUBSET Note]

ASSUME BacklogAssumption ==
    /\ MaxId \in Nat
    /\ MaxAlloc \in 0..(MaxId + 1)
    /\ Serial \in BOOLEAN /\ Legacy \in BOOLEAN /\ ReadFaults \in BOOLEAN
    /\ None \notin Nat
    /\ None \notin Note
    /\ None \notin Entry

VARIABLES
    file,       \* BACKLOG.md: its mark, its sections by id, its preamble
    source,     \* the `Source:` line of each artifact
    call,       \* where each invocation is and what it will write
    issued,     \* history: ids reported as allocated
    stamped,    \* history: ids some promotion stamped
    discarded   \* history: ids dropped with --discard

vars == <<file, source, call, issued, stamped, discarded>>

(***************************************************************************)
(* The file.  An entry whose id the three-digit grammar cannot name is no  *)
(* section of its own: its text belongs to the last section, or to the     *)
(* preamble if there is none.  A mark it cannot name is no mark.           *)
(***************************************************************************)
File == [mark : (0..MaxId) \cup {None}, section : [Id -> Entry \cup {None}], preamble : SUBSET Note]

NoBacklog == [mark |-> None, section |-> [i \in Id |-> None], preamble |-> {}]

Live(f) == {i \in Id : f.section[i] # None}

Highest(f) == IF Live(f) = {} THEN 0
              ELSE CHOOSE i \in Live(f) : \A j \in Live(f) : j <= i

\* Mutant: a legacy file is healed to one below its highest entry.
ReconciledOneLow(f) == IF f.mark = None THEN Highest(f) - 1 ELSE f.mark

Reconciled(f) == IF f.mark = None THEN Highest(f) ELSE f.mark

Regressed(f) == f.mark # None /\ f.mark < Highest(f)

WriteMark(f, n) == [f EXCEPT !.mark = IF n \in 0..MaxId THEN n ELSE None]

AppendEntry(f, i, n) ==
    IF i \in Id THEN [f EXCEPT !.section[i] = [note |-> n, tail |-> {}]]
    ELSE IF Live(f) = {} THEN [f EXCEPT !.preamble = @ \cup {n}]
    ELSE [f EXCEPT !.section[Highest(f)].tail = @ \cup {n}]

ReplaceEntry(f, i, n) == [f EXCEPT !.section[i] = [note |-> n, tail |-> {}]]

\* Mutant: the removal brings the mark back to the highest entry left.
WithoutMark(f, i) ==
    LET g == [f EXCEPT !.section[i] = None] IN [g EXCEPT !.mark = Highest(g)]

Without(f, i) == [f EXCEPT !.section[i] = None]

(***************************************************************************)
(* The invocations.                                                        *)
(***************************************************************************)
Op == {"add", "revise", "delete", "discard"}
Idle == [pc |-> "idle"]

\* Files of before the field: any entries, no mark.
LegacyFile == {[NoBacklog EXCEPT !.section = [i \in Id |->
                    IF i \in S THEN [note |-> n, tail |-> {}] ELSE None]] :
               S \in SUBSET {i \in Id : i <= MaxAlloc}, n \in Note}

Init ==
    /\ file \in {NoBacklog} \cup (IF Legacy THEN LegacyFile ELSE {})
    /\ source = [a \in Artifact |-> None]
    /\ call = [c \in Caller |-> Idle]
    /\ issued = Live(file)
    /\ stamped = {}
    /\ discarded = {}

MayRead(c) ==
    /\ call[c] = Idle
    /\ Serial => \A d \in Caller : call[d].pc \notin {"scan", "write"}

\* What the command believes BACKLOG.md holds; an OSError reads as no file.
Seen == {file} \cup IF ReadFaults THEN {NoBacklog} ELSE {}

\* The invocation c has rendered `next` and is about to write it.
Renders(c, op, i, next) ==
    /\ call' = [call EXCEPT ![c] = [pc |-> "write", op |-> op, id |-> i, next |-> next]]
    /\ UNCHANGED <<file, source, issued, stamped, discarded>>

\* write-backlog without --bl-id.
Add(c, n) ==
    /\ MayRead(c)
    /\ \E f \in Seen :
          LET i == Reconciled(f) + 1
          IN /\ ~Regressed(f)
             /\ i <= MaxAlloc
             /\ Renders(c, "add", i, WriteMark(AppendEntry(f, i, n), i))

\* Mutant: a supplied id need not be live.
ReviseAny(c, i, n) ==
    /\ MayRead(c)
    /\ \E f \in Seen :
          /\ ~Regressed(f)
          /\ Renders(c, "revise", i, WriteMark(ReplaceEntry(f, i, n), Reconciled(f)))

\* write-backlog --bl-id with a title and a body.
Revise(c, i, n) ==
    /\ MayRead(c)
    /\ \E f \in Seen :
          /\ ~Regressed(f)
          /\ i \in Live(f)
          /\ Renders(c, "revise", i, WriteMark(ReplaceEntry(f, i, n), Reconciled(f)))

\* write-backlog --bl-id --revisit alone: title and body are kept.
Restamp(c, i) ==
    /\ MayRead(c)
    /\ \E f \in Seen :
          /\ ~Regressed(f)
          /\ i \in Live(f)
          /\ Renders(c, "revise", i, WriteMark(f, Reconciled(f)))

\* delete-backlog, up to the interlock.
Delete(c, i) ==
    /\ MayRead(c)
    /\ i \in Live(file)
    /\ call' = [call EXCEPT ![c] = [pc |-> "scan", id |-> i, next |-> Without(file, i)]]
    /\ UNCHANGED <<file, source, issued, stamped, discarded>>

Stamped(i) == \E a \in Artifact : source[a] = i

\* Mutant: no interlock.
ScanAnyway(c, discard) ==
    /\ call[c].pc = "scan"
    /\ Renders(c, IF discard THEN "discard" ELSE "delete", call[c].id, call[c].next)

\* The interlock: a stamp is found, or the operator said --discard.
Scan(c, discard) ==
    /\ call[c].pc = "scan"
    /\ Stamped(call[c].id) \/ discard
    /\ Renders(c, IF Stamped(call[c].id) THEN "delete" ELSE "discard", call[c].id, call[c].next)

\* The mediated write lands, whatever the file holds by now.
Land(c) ==
    /\ call[c].pc = "write"
    /\ file' = call[c].next
    /\ issued' = IF call[c].op = "add" THEN issued \cup {call[c].id} ELSE issued
    /\ discarded' = IF call[c].op = "discard" THEN discarded \cup {call[c].id} ELSE discarded
    /\ call' = [call EXCEPT ![c] = Idle]
    /\ UNCHANGED <<source, stamped>>

\* write-task, write-spec or write-phase --source: the live check ...
Promote(c, a, i) ==
    /\ call[c] = Idle
    /\ i \in Live(file)
    /\ call' = [call EXCEPT ![c] = [pc |-> "stamp", id |-> i, artifact |-> a]]
    /\ UNCHANGED <<file, source, issued, stamped, discarded>>

\* ... and the artifact written with its `Source:` line.
Stamp(c) ==
    /\ call[c].pc = "stamp"
    /\ source' = [source EXCEPT ![call[c].artifact] = call[c].id]
    /\ stamped' = stamped \cup {call[c].id}
    /\ call' = [call EXCEPT ![c] = Idle]
    /\ UNCHANGED <<file, issued, discarded>>

\* The artifact is written again without --source: the stamp is not kept.
Rewrite(a) ==
    /\ source[a] # None
    /\ source' = [source EXCEPT ![a] = None]
    /\ UNCHANGED <<file, call, issued, stamped, discarded>>

\* A guard refuses, or the process dies, before anything was written.
Abort(c) ==
    /\ call[c] # Idle
    /\ call' = [call EXCEPT ![c] = Idle]
    /\ UNCHANGED <<file, source, issued, stamped, discarded>>

Next ==
    \/ \E c \in Caller :
          \/ \E n \in Note : Add(c, n)
          \/ \E i \in Id, n \in Note : Revise(c, i, n)
          \/ \E i \in Id : Restamp(c, i)
          \/ \E i \in Id : Delete(c, i)
          \/ \E discard \in BOOLEAN : Scan(c, discard)
          \/ Land(c)
          \/ \E a \in Artifact, i \in Id : Promote(c, a, i)
          \/ Stamp(c)
          \/ Abort(c)
    \/ \E a \in Artifact : Rewrite(a)

Spec == Init /\ [][Next]_vars

(***************************************************************************)
(* Properties.                                                             *)
(***************************************************************************)
Call ==
    {Idle}
    \cup [pc : {"scan"}, id : Id, next : File]
    \cup [pc : {"write"}, op : Op, id : 1..(MaxId + 1), next : File]
    \cup [pc : {"stamp"}, id : Id, artifact : Artifact]

\* Types of the variables.
TypeOK ==
    /\ file \in File
    /\ source \in [Artifact -> Id \cup {None}]
    /\ call \in [Caller -> Call]
    /\ issued \subseteq 1..(MaxId + 1)
    /\ stamped \subseteq Id
    /\ discarded \subseteq 1..(MaxId + 1)

\* The mark the writers leave never sits below a live entry, so their own
\* backlog-mark-regressed refusal is never provoked by themselves, whoever
\* overlaps whom.
MarkCovers ==
    /\ ~Regressed(file)
    /\ \A c \in Caller : call[c].pc \in {"scan", "write"} => ~Regressed(call[c].next)

\* An entry the backlog acknowledged is still live unless a promotion was
\* stamped for it or the operator discarded it, even though the interlock
\* scans artifacts that are rewritten meanwhile.
NothingDropped == issued \subseteq Live(file) \cup stamped \cup discarded

\* A deleted entry's id is never handed out again (write_backlog.py:54,
\* CONVENTIONS.md:1370).
NeverReissued ==
    [][\A c \in Caller : Land(c) /\ call[c].op = "add" => call[c].id \notin issued]_vars

\* The backlog implements the ledger that issues every id once.
Ledger == INSTANCE BacklogLedger WITH
    entry <- [i \in Id |-> IF file.section[i] = None THEN None ELSE file.section[i].note]
LedgerSpec == Ledger!Spec
=============================================================================
