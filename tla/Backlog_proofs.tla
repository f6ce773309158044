--------------------------- MODULE Backlog_proofs ---------------------------
(***************************************************************************)
(* What holds of the backlog for every set of invocations, notes and       *)
(* artifacts and every size of the id grammar, and, beside it, of the      *)
(* evidence a plan leaves (PlanCloseout) for every set of units, every     *)
(* allowance, and any number of plans, archives, accidents and crashes,    *)
(* and the request evidence (EvidenceStore), in the last part.             *)
(***************************************************************************)
EXTENDS MCBacklog, Sequences, FiniteSetTheorems, SequenceTheorems, WellFoundedInduction,
        TLAPS

(***************************************************************************)
(* The file.                                                               *)
(***************************************************************************)
\* A bounded set of numbers that is not empty has a greatest one.
LEMMA GreatestPlace ==
    ASSUME NEW n \in Nat, NEW S, S \subseteq 1 .. n, S # {}
    PROVE  \E i \in S : \A j \in S : j <= i
<1> DEFINE T == {n - i : i \in S}
<1>1. T \subseteq Nat /\ T # {}
  <2>1. \A i \in S : n - i \in Nat
    OBVIOUS
  <2>2. PICK i \in S : TRUE
    OBVIOUS
  <2>3. n - i \in T
    OBVIOUS
  <2> QED
    BY <2>1, <2>3
<1>2. PICK x \in T : \A y \in T : ~ (<<y, x>> \in OpToRel(<, Nat))
  <2> HIDE DEF T
  <2> QED
    BY <1>1, WFMin, NatLessThanWellFounded, Zenon
<1>3. PICK i \in S : x = n - i
  BY <1>2
<1>4. ASSUME NEW j \in S PROVE j <= i
  <2> DEFINE y == n - j
  <2>1. y \in T
    OBVIOUS
  <2>2. y \in Nat /\ x \in Nat
    BY <1>1, <2>1
  <2> HIDE DEF T, y
  <2>3. y < x => <<y, x>> \in OpToRel(<, Nat)
    BY <2>2 DEF OpToRel
  <2>4. ~ (y < x)
    BY <1>2, <2>1, <2>3
  <2> QED
    BY <1>3, <2>4 DEF y
<1> QED
  BY <1>3, <1>4

\* A non-empty set of ids has a greatest one (max(live), write_backlog.py:287).
LEMMA GreatestExists ==
    ASSUME NEW S, S \subseteq Id, S # {}
    PROVE  \E i \in S : \A j \in S : j <= i
<1>1. MaxId \in Nat /\ S \subseteq 1 .. MaxId
  BY BacklogAssumption DEF Id
<1> QED
  BY <1>1, GreatestPlace

\* Highest is the greatest live id, or 0 (write_backlog.py:286-287).
LEMMA HighestBounds ==
    ASSUME NEW f \in File
    PROVE  /\ Highest(f) \in 0..MaxId
           /\ \A j \in Live(f) : j <= Highest(f)
           /\ Live(f) # {} => Highest(f) \in Live(f)
<1>0. MaxId \in Nat /\ Live(f) \subseteq 1..MaxId /\ Live(f) \subseteq Id
  BY BacklogAssumption DEF Live, Id
<1>1. CASE Live(f) = {}
  BY <1>0, <1>1 DEF Highest
<1>2. CASE Live(f) # {}
  <2>1. \E i \in Live(f) : \A j \in Live(f) : j <= i
    BY <1>0, <1>2, GreatestExists
  <2>2. Highest(f) \in Live(f) /\ \A j \in Live(f) : j <= Highest(f)
    BY <2>1, <1>2 DEF Highest
  <2> QED BY <2>2, <1>0
<1> QED BY <1>1, <1>2

\* An unregressed mark bounds the live ids, read or healed
\* (write_backlog.py:286-301).
LEMMA ReconciledBounds ==
    ASSUME NEW f \in File, ~Regressed(f)
    PROVE  /\ Reconciled(f) \in 0..MaxId
           /\ \A j \in Live(f) : j <= Reconciled(f)
<1>1. /\ Highest(f) \in 0..MaxId
      /\ \A j \in Live(f) : j <= Highest(f)
  BY HighestBounds
<1>2. f.mark \in (0..MaxId) \cup {None} /\ Live(f) \subseteq 1..MaxId /\ MaxId \in Nat
  BY BacklogAssumption DEF File, Live, Id
<1>3. CASE f.mark = None
  BY <1>1, <1>3 DEF Reconciled
<1>4. CASE f.mark # None
  BY <1>1, <1>2, <1>4 DEF Reconciled, Regressed
<1> QED BY <1>3, <1>4

\* Writing a mark that bounds the live ids never regresses it
\* (write_backlog.py:102-116).
LEMMA MarkWritten ==
    ASSUME NEW f \in File, NEW m \in 0..(MaxId + 1), \A j \in Live(f) : j <= m
    PROVE  /\ WriteMark(f, m) \in File
           /\ ~Regressed(WriteMark(f, m))
           /\ Live(WriteMark(f, m)) = Live(f)
           /\ WriteMark(f, m).mark = (IF m \in 0..MaxId THEN m ELSE None)
<1> DEFINE g == WriteMark(f, m)
<1>1. /\ g \in File
      /\ g.section = f.section
      /\ g.mark = IF m \in 0..MaxId THEN m ELSE None
  BY DEF WriteMark, File
<1>2. Live(g) = Live(f)
  BY <1>1 DEF Live
<1>3. /\ Highest(g) \in 0..MaxId
      /\ Live(g) # {} => Highest(g) \in Live(g)
  BY <1>1, HighestBounds
<1>4. Live(g) = {} => Highest(g) = 0
  BY DEF Highest
<1>5. Highest(g) <= m
  BY <1>2, <1>3, <1>4
<1>6. ~Regressed(g)
  BY <1>1, <1>3, <1>5, BacklogAssumption DEF Regressed
<1> QED BY <1>1, <1>2, <1>6

\* What the three edits do to the live ids (write_backlog.py:303-345,
\* delete_backlog.py:119-120).
LEMMA Edits ==
    ASSUME NEW f \in File, NEW n \in Note
    PROVE  /\ \A i \in Id : /\ AppendEntry(f, i, n) \in File
                           /\ Live(AppendEntry(f, i, n)) = Live(f) \cup {i}
                           /\ ReplaceEntry(f, i, n) \in File
                           /\ Live(ReplaceEntry(f, i, n)) = Live(f) \cup {i}
           /\ \A i : i \notin Id => /\ AppendEntry(f, i, n) \in File
                                   /\ Live(AppendEntry(f, i, n)) = Live(f)
<1>1. [note |-> n, tail |-> {}] \in Entry /\ None \notin Entry
  BY BacklogAssumption DEF Entry
<1>2. ASSUME NEW i \in Id
      PROVE  /\ ReplaceEntry(f, i, n) \in File
             /\ Live(ReplaceEntry(f, i, n)) = Live(f) \cup {i}
  <2> DEFINE g == ReplaceEntry(f, i, n)
  <2>1. g \in File
    BY <1>1 DEF ReplaceEntry, File
  <2>2. \A j \in Id : g.section[j] = IF j = i THEN [note |-> n, tail |-> {}] ELSE f.section[j]
    BY DEF ReplaceEntry, File
  <2>3. [note |-> n, tail |-> {}] # None
    BY <1>1
  <2>4. Live(g) = Live(f) \cup {i}
    BY <2>2, <2>3 DEF Live
  <2> QED BY <2>1, <2>4
<1>3. \A i \in Id : AppendEntry(f, i, n) = ReplaceEntry(f, i, n)
  BY DEF AppendEntry, ReplaceEntry
<1>4. ASSUME NEW i, i \notin Id
      PROVE  /\ AppendEntry(f, i, n) \in File
             /\ Live(AppendEntry(f, i, n)) = Live(f)
  <2>1. CASE Live(f) = {}
    BY <1>4, <2>1 DEF AppendEntry, File, Live
  <2>2. CASE Live(f) # {}
    <3> DEFINE h == Highest(f)
               e == [f.section[h] EXCEPT !.tail = @ \cup {n}]
               g == [f EXCEPT !.section = [@ EXCEPT ![h] = e]]
    <3>1. h \in Id /\ f.section[h] \in Entry
      BY <2>2, HighestBounds DEF Live, File
    <3>2. e \in Entry
      BY <3>1 DEF Entry
    <3>3. AppendEntry(f, i, n) = g
      BY <1>4, <2>2 DEF AppendEntry
    <3> HIDE DEF h, e
    <3>4. /\ g \in File
          /\ \A j \in Id : g.section[j] = IF j = h THEN e ELSE f.section[j]
      BY <3>1, <3>2 DEF File
    <3>5. e # None /\ f.section[h] # None
      BY <3>1, <3>2, <1>1
    <3>6. Live(g) = Live(f)
      BY <3>4, <3>5 DEF Live
    <3> QED BY <3>3, <3>4, <3>6
  <2> QED BY <2>1, <2>2
<1> QED BY <1>2, <1>3, <1>4

\* Removing an entry keeps the mark and every other live id
\* (delete_backlog.py:119-120, 139).
LEMMA Removal ==
    ASSUME NEW f \in File, NEW i \in Id
    PROVE  /\ Without(f, i) \in File
           /\ Live(Without(f, i)) = Live(f) \ {i}
           /\ Without(f, i).mark = f.mark
           /\ ~Regressed(f) => ~Regressed(Without(f, i))
<1> DEFINE g == Without(f, i)
<1>1. /\ g \in File /\ g.mark = f.mark
      /\ \A j \in Id : g.section[j] = IF j = i THEN None ELSE f.section[j]
  BY DEF Without, File
<1>2. Live(g) = Live(f) \ {i}
  BY <1>1 DEF Live
<1>3. Highest(g) <= Highest(f)
  <2>1. /\ Highest(g) \in 0..MaxId /\ Highest(f) \in 0..MaxId
        /\ Live(g) # {} => Highest(g) \in Live(g)
        /\ \A j \in Live(f) : j <= Highest(f)
    BY <1>1, HighestBounds
  <2>2. Live(g) = {} => Highest(g) = 0
    BY DEF Highest
  <2> QED BY <1>2, <2>1, <2>2
<1>4. /\ Highest(g) \in 0..MaxId /\ Highest(f) \in 0..MaxId
      /\ f.mark \in (0..MaxId) \cup {None}
  BY <1>1, HighestBounds DEF File
<1>5. ~Regressed(f) => ~Regressed(g)
  BY <1>1, <1>3, <1>4, BacklogAssumption DEF Regressed
<1> QED BY <1>1, <1>2, <1>5

(***************************************************************************)
(* Types and the mark: true whoever overlaps whom.                         *)
(***************************************************************************)
\* What a call record holds in each phase of its command.
LEMMA CallTypes ==
    ASSUME TypeOK, NEW c \in Caller
    PROVE  /\ call[c].pc = "write" => /\ call[c].op \in Op
                                     /\ call[c].id \in 1..(MaxId + 1)
                                     /\ call[c].next \in File
           /\ call[c].pc = "scan" => call[c].id \in Id /\ call[c].next \in File
           /\ call[c].pc = "stamp" => call[c].id \in Id /\ call[c].artifact \in Artifact
BY DEF TypeOK, Call, Idle

\* A command that rendered a good file (write_backlog.py:344-345).
LEMMA RendersGood ==
    ASSUME TypeOK, MarkCovers, NEW c \in Caller, NEW what \in Op,
           NEW i \in 1..(MaxId + 1), NEW g \in File, ~Regressed(g), Renders(c, what, i, g)
    PROVE  TypeOK' /\ MarkCovers'
<1> DEFINE r == [pc |-> "write", op |-> what, id |-> i, next |-> g]
<1>1. call' = [call EXCEPT ![c] = r] /\ UNCHANGED <<file, source, issued, stamped, discarded>>
  BY DEF Renders
<1>2. r \in Call
  BY DEF Call
<1> HIDE DEF r
<1>3. TypeOK'
  BY <1>1, <1>2 DEF TypeOK
<1>4. MarkCovers'
  <2>1. ~Regressed(file)'
    BY <1>1 DEF MarkCovers, Regressed, Highest, Live
  <2>2. ASSUME NEW d \in Caller, call'[d].pc \in {"scan", "write"}
        PROVE  ~Regressed(call'[d].next)
    <3>1. CASE d = c
      <4>1. call'[d].next = g
        BY <1>1, <3>1 DEF TypeOK, r
      <4> QED BY <4>1
    <3>2. CASE d # c
      BY <1>1, <2>2, <3>2 DEF TypeOK, MarkCovers
    <3> QED BY <3>1, <3>2
  <2> QED BY <2>1, <2>2 DEF MarkCovers, Regressed, Highest, Live
<1> QED BY <1>3, <1>4

\* Every step keeps the types and the mark.
LEMMA MarkStep ==
    ASSUME TypeOK, MarkCovers, [Next]_vars
    PROVE  TypeOK' /\ MarkCovers'
<1>0. NoBacklog \in File /\ Seen \subseteq File
  BY BacklogAssumption DEF NoBacklog, File, Seen, TypeOK
<1>00. Live(NoBacklog) = {} /\ ~Regressed(NoBacklog)
  BY DEF NoBacklog, Live, Regressed
<1>000. \A f \in Seen : ~Regressed(f)
  BY <1>00 DEF Seen, MarkCovers
<1>1. ASSUME NEW c \in Caller, NEW n \in Note, Add(c, n)
      PROVE  TypeOK' /\ MarkCovers'
  <2>1. PICK f \in Seen :
            LET i == Reconciled(f) + 1
            IN /\ ~Regressed(f)
               /\ i <= MaxAlloc
               /\ Renders(c, "add", i, WriteMark(AppendEntry(f, i, n), i))
    BY <1>1 DEF Add
  <2> DEFINE i == Reconciled(f) + 1
             g == AppendEntry(f, i, n)
  <2>2. f \in File /\ i \in 1..(MaxId + 1) /\ \A j \in Live(f) : j <= i
    BY <1>0, <2>1, ReconciledBounds, BacklogAssumption DEF Live, Id
  <2>3. g \in File /\ \A j \in Live(g) : j <= i
    <3> HIDE DEF i
    <3>1. i \in Int
      BY <2>2
    <3> QED BY <2>2, <3>1, Edits
  <2>4. WriteMark(g, i) \in File /\ ~Regressed(WriteMark(g, i))
    <3> HIDE DEF g, i
    <3> QED BY <2>2, <2>3, MarkWritten, BacklogAssumption
  <2> QED BY <2>1, <2>2, <2>4, RendersGood DEF Op
<1>2. ASSUME NEW c \in Caller, NEW i \in Id, NEW n \in Note, Revise(c, i, n)
      PROVE  TypeOK' /\ MarkCovers'
  <2>1. PICK f \in Seen :
            /\ ~Regressed(f)
            /\ i \in Live(f)
            /\ Renders(c, "revise", i, WriteMark(ReplaceEntry(f, i, n), Reconciled(f)))
    BY <1>2 DEF Revise
  <2> DEFINE g == ReplaceEntry(f, i, n)
  <2>2. f \in File /\ Reconciled(f) \in 0..(MaxId + 1) /\ \A j \in Live(f) : j <= Reconciled(f)
    BY <1>0, <2>1, ReconciledBounds, BacklogAssumption
  <2>3. g \in File /\ \A j \in Live(g) : j <= Reconciled(f)
    BY <2>1, <2>2, Edits
  <2>4. WriteMark(g, Reconciled(f)) \in File /\ ~Regressed(WriteMark(g, Reconciled(f)))
    <3> HIDE DEF g
    <3> QED BY <2>2, <2>3, MarkWritten
  <2>5. i \in 1..(MaxId + 1)
    BY BacklogAssumption DEF Id
  <2> QED BY <2>1, <2>4, <2>5, RendersGood DEF Op
<1>3. ASSUME NEW c \in Caller, NEW i \in Id, Restamp(c, i)
      PROVE  TypeOK' /\ MarkCovers'
  <2>1. PICK f \in Seen :
            /\ ~Regressed(f)
            /\ i \in Live(f)
            /\ Renders(c, "revise", i, WriteMark(f, Reconciled(f)))
    BY <1>3 DEF Restamp
  <2>2. f \in File /\ Reconciled(f) \in 0..(MaxId + 1) /\ \A j \in Live(f) : j <= Reconciled(f)
    BY <1>0, <2>1, ReconciledBounds, BacklogAssumption
  <2>3. WriteMark(f, Reconciled(f)) \in File /\ ~Regressed(WriteMark(f, Reconciled(f)))
    BY <2>2, MarkWritten
  <2>4. i \in 1..(MaxId + 1)
    BY BacklogAssumption DEF Id
  <2> QED BY <2>1, <2>3, <2>4, RendersGood DEF Op
<1>4. ASSUME NEW c \in Caller, NEW i \in Id, Delete(c, i)
      PROVE  TypeOK' /\ MarkCovers'
  <2> DEFINE r == [pc |-> "scan", id |-> i, next |-> Without(file, i)]
  <2>1. Without(file, i) \in File /\ ~Regressed(Without(file, i))
    BY Removal DEF TypeOK, MarkCovers
  <2>2. r \in Call /\ call' = [call EXCEPT ![c] = r]
        /\ UNCHANGED <<file, source, issued, stamped, discarded>>
    BY <1>4, <2>1 DEF Delete, Call
  <2>3. r.next = Without(file, i)
    OBVIOUS
  <2> HIDE DEF r
  <2>4. TypeOK'
    BY <2>2 DEF TypeOK
  <2>5. \A d \in Caller : call'[d] = IF d = c THEN r ELSE call[d]
    BY <2>2 DEF TypeOK
  <2>6. \A d \in Caller : call'[d].pc \in {"scan", "write"} => ~Regressed(call'[d].next)
    BY <2>1, <2>3, <2>5 DEF MarkCovers
  <2> QED BY <2>2, <2>4, <2>6 DEF MarkCovers, Regressed, Highest, Live
<1>5. ASSUME NEW c \in Caller, NEW discard \in BOOLEAN, Scan(c, discard)
      PROVE  TypeOK' /\ MarkCovers'
  <2>1. call[c].id \in 1..(MaxId + 1) /\ call[c].next \in File /\ ~Regressed(call[c].next)
    BY <1>5, CallTypes, BacklogAssumption DEF Scan, MarkCovers, Id
  <2> QED BY <1>5, <2>1, RendersGood DEF Scan, Op
<1>6. ASSUME NEW c \in Caller, Land(c)
      PROVE  TypeOK' /\ MarkCovers'
  <2>1. /\ call[c].op \in Op /\ call[c].id \in 1..(MaxId + 1) /\ call[c].next \in File
        /\ ~Regressed(call[c].next)
        /\ file' = call[c].next
        /\ call' = [call EXCEPT ![c] = Idle]
    BY <1>6, CallTypes DEF Land, MarkCovers
  <2>2. \A d \in Caller : call'[d] = IF d = c THEN Idle ELSE call[d]
    BY <2>1 DEF TypeOK
  <2>3. \A d \in Caller : call'[d].pc \in {"scan", "write"} => ~Regressed(call'[d].next)
    BY <2>2 DEF MarkCovers, Idle
  <2>4. ~Regressed(file')
    BY <2>1
  <2>5. MarkCovers'
    BY <2>3, <2>4 DEF MarkCovers, Regressed, Highest, Live
  <2> QED BY <1>6, <2>1, <2>5 DEF Land, TypeOK, Call
<1>7. ASSUME NEW c \in Caller, NEW a \in Artifact, NEW i \in Id, Promote(c, a, i)
      PROVE  TypeOK' /\ MarkCovers'
  <2> DEFINE r == [pc |-> "stamp", id |-> i, artifact |-> a]
  <2>1. r \in Call /\ call' = [call EXCEPT ![c] = r]
        /\ UNCHANGED <<file, source, issued, stamped, discarded>>
    BY <1>7 DEF Promote, Call
  <2>2. r.pc = "stamp"
    OBVIOUS
  <2> HIDE DEF r
  <2>3. \A d \in Caller : call'[d] = IF d = c THEN r ELSE call[d]
    BY <2>1 DEF TypeOK
  <2>4. TypeOK'
    BY <2>1 DEF TypeOK
  <2>5. ~Regressed(file')
    BY <2>1 DEF MarkCovers, Regressed, Highest, Live
  <2>6. \A d \in Caller : call'[d].pc \in {"scan", "write"} => ~Regressed(call'[d].next)
    BY <2>2, <2>3 DEF MarkCovers
  <2> QED BY <2>1, <2>4, <2>5, <2>6 DEF MarkCovers, Regressed, Highest, Live
<1>8. ASSUME NEW c \in Caller, Stamp(c)
      PROVE  TypeOK' /\ MarkCovers'
  <2>1. call[c].id \in Id /\ call[c].artifact \in Artifact
    BY <1>8, CallTypes DEF Stamp
  <2>2. \A d \in Caller : call'[d] = IF d = c THEN Idle ELSE call[d]
    BY <1>8 DEF Stamp, TypeOK
  <2>3. MarkCovers'
    BY <1>8, <2>2 DEF Stamp, MarkCovers, Idle, Regressed, Highest, Live
  <2> QED BY <1>8, <2>1, <2>3 DEF Stamp, TypeOK, Call
<1>9. ASSUME NEW a \in Artifact, Rewrite(a)
      PROVE  TypeOK' /\ MarkCovers'
  BY <1>9 DEF Rewrite, TypeOK, MarkCovers, Regressed, Highest, Live
<1>10. ASSUME NEW c \in Caller, Abort(c)
       PROVE  TypeOK' /\ MarkCovers'
  <2>1. \A d \in Caller : call'[d] = IF d = c THEN Idle ELSE call[d]
    BY <1>10 DEF Abort, TypeOK
  <2>2. MarkCovers'
    BY <1>10, <2>1 DEF Abort, MarkCovers, Idle, Regressed, Highest, Live
  <2> QED BY <1>10, <2>2 DEF Abort, TypeOK, Call
<1>11. CASE UNCHANGED vars
  BY <1>11 DEF vars, TypeOK, MarkCovers, Regressed, Highest, Live
<1> QED
  BY <1>1, <1>2, <1>3, <1>4, <1>5, <1>6, <1>7, <1>8, <1>9, <1>10, <1>11 DEF Next

\* The initial files are well formed.
LEMMA MarkInit == Init => TypeOK /\ MarkCovers
<1> SUFFICES ASSUME Init PROVE TypeOK /\ MarkCovers
  OBVIOUS
<1>1. file \in File /\ file.mark = None
  BY BacklogAssumption DEF Init, NoBacklog, LegacyFile, File, Entry
<1>2. Live(file) \subseteq 1..(MaxId + 1)
  BY BacklogAssumption DEF Live, Id
<1>3. ~Regressed(file)
  BY <1>1 DEF Regressed
<1>4. \A c \in Caller : call[c] = Idle
  BY DEF Init
<1>5. TypeOK
  BY <1>1, <1>2 DEF Init, TypeOK, Call
<1> QED BY <1>3, <1>4, <1>5 DEF MarkCovers, Idle

\* Every variable keeps its type, whatever overlaps, fails or is healed.
THEOREM BacklogTypes == Spec => []TypeOK
<1>1. TypeOK /\ MarkCovers /\ [Next]_vars => TypeOK' /\ MarkCovers'
  BY MarkStep
<1> QED BY <1>1, MarkInit, PTL DEF Spec

\* No interleaving of the writers, no unreadable or legacy file and no id
\* beyond the grammar makes them write a mark below a live entry, so the
\* backlog-mark-regressed refusal (write_backlog.py:292-301) is never met
\* without a raw edit.
THEOREM MarkAlwaysCovers == Spec => []MarkCovers
<1>1. TypeOK /\ MarkCovers /\ [Next]_vars => TypeOK' /\ MarkCovers'
  BY MarkStep
<1> QED BY <1>1, MarkInit, PTL DEF Spec

(***************************************************************************)
(* Ids name one entry for ever: true while writers take turns, the file    *)
(* has its field, it can be read, and the id grammar is not exhausted.     *)
(***************************************************************************)
Careful == Serial /\ ~Legacy /\ ~ReadFaults /\ MaxAlloc <= MaxId

Writing(c) == call[c].pc \in {"scan", "write"}

\* What a pending write r still knows of the file f it will replace.
Pending(r, f, stamps) ==
    /\ r.op = "add" =>
          /\ r.id \in Id
          /\ r.id = Reconciled(f) + 1
          /\ \E n \in Note : r.next = WriteMark(AppendEntry(f, r.id, n), r.id)
    /\ r.op = "revise" =>
          /\ r.id \in Live(f)
          /\ \/ \E n \in Note : r.next = WriteMark(ReplaceEntry(f, r.id, n), Reconciled(f))
             \/ r.next = WriteMark(f, Reconciled(f))
    /\ r.op \in {"delete", "discard"} => r.id \in Live(f) /\ r.next = Without(f, r.id)
    /\ r.op = "delete" => r.id \in stamps

\* The inductive strengthening: the mark bounds every id ever issued, and
\* the one pending write was rendered from the file as it is.
SerialInv ==
    /\ \A c, d \in Caller : Writing(c) /\ Writing(d) => c = d
    /\ Live(file) \subseteq issued
    /\ file.mark = None => issued = {}
    /\ file.mark # None => issued \subseteq 1..file.mark
    /\ NothingDropped
    /\ \A a \in Artifact : source[a] # None => source[a] \in stamped
    /\ \A c \in Caller : call[c].pc = "scan" =>
          call[c].id \in Live(file) /\ call[c].next = Without(file, call[c].id)
    /\ \A c \in Caller : call[c].pc = "write" => Pending(call[c], file, stamped)

\* A command that rendered its file from the current one, alone.
LEMMA RendersSerial ==
    ASSUME TypeOK, SerialInv, NEW c \in Caller, NEW what, NEW i, NEW g,
           Renders(c, what, i, g), \A d \in Caller : d # c => ~Writing(d),
           Pending([pc |-> "write", op |-> what, id |-> i, next |-> g], file, stamped)
    PROVE  SerialInv'
<1> DEFINE r == [pc |-> "write", op |-> what, id |-> i, next |-> g]
<1>1. call' = [call EXCEPT ![c] = r] /\ UNCHANGED <<file, source, issued, stamped, discarded>>
  BY DEF Renders
<1>2. r.pc = "write" /\ Pending(r, file, stamped)
  OBVIOUS
<1> HIDE DEF r
<1>3. \A d \in Caller : call'[d] = IF d = c THEN r ELSE call[d]
  BY <1>1 DEF TypeOK
<1>4. \A d \in Caller : Writing(d)' => d = c
  BY <1>3 DEF Writing
<1>5. NothingDropped'
  BY <1>1 DEF SerialInv, NothingDropped, Live
<1>6. \A d \in Caller : call'[d].pc = "write" => Pending(call'[d], file', stamped')
  BY <1>1, <1>2, <1>3 DEF SerialInv
<1>7. \A d \in Caller : call'[d].pc # "scan"
  BY <1>2, <1>3 DEF Writing
<1>8. Live(file)' \subseteq issued'
  BY <1>1 DEF SerialInv, Live
<1> QED BY <1>1, <1>4, <1>5, <1>6, <1>7, <1>8 DEF SerialInv

\* A call that leaves the file and the history alone and stops writing,
\* or never was.
LEMMA LeavesSerial ==
    ASSUME TypeOK, SerialInv, NEW c \in Caller, NEW r, r.pc \notin {"scan", "write"},
           call' = [call EXCEPT ![c] = r], UNCHANGED <<file, issued, discarded>>,
           stamped \subseteq stamped',
           \A a \in Artifact : source'[a] # None => source'[a] \in stamped'
    PROVE  SerialInv'
<1>1. \A d \in Caller : call'[d] = IF d = c THEN r ELSE call[d]
  BY DEF TypeOK
<1>2. \A d \in Caller : Writing(d)' => Writing(d)
  BY <1>1 DEF Writing
<1>3. NothingDropped' /\ Live(file)' \subseteq issued'
  BY DEF SerialInv, NothingDropped, Live
<1>4. ASSUME NEW d \in Caller, call'[d].pc = "write"
      PROVE  Pending(call'[d], file', stamped')
  <2>1. call'[d] = call[d] /\ Pending(call[d], file, stamped)
    BY <1>1, <1>4 DEF SerialInv
  <2>2. Pending(call[d], file, stamped')
    BY <2>1 DEF Pending
  <2> QED BY <2>1, <2>2
<1>5. ASSUME NEW d \in Caller, call'[d].pc = "scan"
      PROVE  call'[d].id \in Live(file)' /\ call'[d].next = Without(file', call'[d].id)
  BY <1>1, <1>5 DEF SerialInv, Live
<1>6. \A d, e \in Caller : Writing(d)' /\ Writing(e)' => d = e
  BY <1>2 DEF SerialInv
<1> QED BY <1>3, <1>4, <1>5, <1>6 DEF SerialInv

\* The pending write, and what it does to the file, the ids and the notes.
LEMMA LandEffect ==
    ASSUME Careful, TypeOK, MarkCovers, SerialInv, NEW c \in Caller, Land(c)
    PROVE  LET i == call[c].id
           IN /\ i \in Id
              /\ call[c].op = "add" =>
                    /\ i = Reconciled(file) + 1 /\ i \notin issued
                    /\ file'.mark = i
                    /\ Live(file') = Live(file) \cup {i}
                    /\ \E n \in Note : file'.section =
                          [file.section EXCEPT ![i] = [note |-> n, tail |-> {}]]
              /\ call[c].op = "revise" =>
                    /\ i \in Live(file)
                    /\ file'.mark = Reconciled(file)
                    /\ Live(file') = Live(file)
                    /\ \/ \E n \in Note : file'.section =
                             [file.section EXCEPT ![i] = [note |-> n, tail |-> {}]]
                       \/ file'.section = file.section
              /\ call[c].op \in {"delete", "discard"} =>
                    /\ i \in Live(file)
                    /\ file'.mark = file.mark
                    /\ Live(file') = Live(file) \ {i}
                    /\ file'.section = [file.section EXCEPT ![i] = None]
              /\ call[c].op = "delete" => i \in stamped
<1> DEFINE i == call[c].id
<1>1. /\ file \in File /\ ~Regressed(file) /\ file' = call[c].next
      /\ Pending(call[c], file, stamped) /\ call[c].op \in Op
  BY CallTypes DEF Land, SerialInv, TypeOK, MarkCovers
<1>2. /\ Reconciled(file) \in 0..MaxId
      /\ \A j \in Live(file) : j <= Reconciled(file)
      /\ Live(file) \subseteq Id
  BY <1>1, ReconciledBounds DEF Live
<1>3. CASE call[c].op = "add"
  <2>1. PICK n \in Note : file' = WriteMark(AppendEntry(file, i, n), i)
    BY <1>1, <1>3 DEF Pending
  <2>2. i \in Id /\ i = Reconciled(file) + 1
    BY <1>1, <1>3 DEF Pending
  <2>3. i \notin issued
    BY <1>1, <1>2, <2>2, BacklogAssumption DEF SerialInv, Reconciled, File
  <2> DEFINE g == AppendEntry(file, i, n)
  <2>4. /\ g \in File /\ Live(g) = Live(file) \cup {i}
        /\ g.section = [file.section EXCEPT ![i] = [note |-> n, tail |-> {}]]
    <3>1. g \in File /\ Live(g) = Live(file) \cup {i}
      BY <1>1, <2>2, Edits
    <3> QED BY <1>1, <2>2, <3>1 DEF AppendEntry, File
  <2> HIDE DEF g
  <2>5. i \in 0..MaxId /\ \A j \in Live(g) : j <= i
    BY <1>2, <2>2, <2>4, BacklogAssumption DEF Id
  <2>6. file'.mark = i /\ Live(file') = Live(g) /\ file'.section = g.section
    <3>1. WriteMark(g, i).section = g.section
      BY <2>4 DEF WriteMark, File
    <3>2. /\ Live(WriteMark(g, i)) = Live(g)
          /\ WriteMark(g, i).mark = i
      <4> HIDE DEF i
      <4> QED BY <2>4, <2>5, MarkWritten, BacklogAssumption
    <3> QED BY <2>1, <3>1, <3>2 DEF g
  <2> QED BY <1>3, <2>2, <2>3, <2>4, <2>6
<1>4. CASE call[c].op = "revise"
  <2>1. PICK g \in {file} \cup {ReplaceEntry(file, i, n) : n \in Note} :
            file' = WriteMark(g, Reconciled(file))
    BY <1>1, <1>4 DEF Pending
  <2>2. i \in Live(file) /\ i \in Id
    BY <1>1, <1>2, <1>4 DEF Pending
  <2>3. /\ g \in File /\ Live(g) = Live(file)
        /\ \/ \E n \in Note : g.section =
                 [file.section EXCEPT ![i] = [note |-> n, tail |-> {}]]
           \/ g.section = file.section
    <3>1. CASE g = file
      BY <1>1, <3>1
    <3>2. ASSUME NEW n \in Note, g = ReplaceEntry(file, i, n)
          PROVE  /\ g \in File /\ Live(g) = Live(file)
                 /\ g.section = [file.section EXCEPT ![i] = [note |-> n, tail |-> {}]]
      <4>1. g \in File /\ Live(g) = Live(file)
        <5> HIDE DEF i
        <5>1. ReplaceEntry(file, i, n) \in File
              /\ Live(ReplaceEntry(file, i, n)) = Live(file) \cup {i}
          BY <1>1, <2>2, Edits
        <5> QED BY <2>2, <3>2, <5>1
      <4> QED BY <1>1, <3>2, <4>1 DEF ReplaceEntry, File
    <3> QED BY <3>1, <3>2
  <2>4. file'.mark = Reconciled(file) /\ Live(file') = Live(g) /\ file'.section = g.section
    <3>1. WriteMark(g, Reconciled(file)).section = g.section
      BY <2>3 DEF WriteMark, File
    <3>2. /\ Live(WriteMark(g, Reconciled(file))) = Live(g)
          /\ WriteMark(g, Reconciled(file)).mark = Reconciled(file)
      BY <1>2, <2>3, MarkWritten, BacklogAssumption
    <3> QED BY <2>1, <3>1, <3>2
  <2> QED BY <1>4, <2>2, <2>3, <2>4
<1>5. CASE call[c].op \in {"delete", "discard"}
  <2>1. i \in Live(file) /\ file' = Without(file, i) /\ i \in Id
    BY <1>1, <1>2, <1>5 DEF Pending
  <2>2. Live(file') = Live(file) \ {i} /\ file'.mark = file.mark
    BY <1>1, <2>1, Removal
  <2>3. file'.section = [file.section EXCEPT ![i] = None]
    BY <1>1, <2>1 DEF Without, File
  <2>4. call[c].op = "delete" => i \in stamped
    BY <1>1 DEF Pending
  <2> QED BY <1>5, <2>1, <2>2, <2>3, <2>4
<1> QED BY <1>1, <1>3, <1>4, <1>5 DEF Op

\* Every careful step keeps the strengthening.
LEMMA SerialStep ==
    ASSUME Careful, TypeOK, MarkCovers, SerialInv, [Next]_vars
    PROVE  SerialInv'
<1>0. Seen = {file} /\ file \in File /\ ~Regressed(file)
  BY DEF Seen, Careful, TypeOK, MarkCovers
<1>00. /\ Reconciled(file) \in 0..MaxId
       /\ Live(file) \subseteq Id
       /\ MaxAlloc \in Nat /\ MaxAlloc <= MaxId /\ MaxId \in Nat
  BY <1>0, ReconciledBounds, BacklogAssumption DEF Live, Careful
<1>000. \A c \in Caller : MayRead(c) => \A d \in Caller : ~Writing(d)
  BY DEF MayRead, Careful, Writing
<1>1. ASSUME NEW c \in Caller, NEW n \in Note, Add(c, n)
      PROVE  SerialInv'
  <2> DEFINE i == Reconciled(file) + 1
             g == WriteMark(AppendEntry(file, i, n), i)
             r == [pc |-> "write", op |-> "add", id |-> i, next |-> g]
  <2>1. Renders(c, "add", i, g) /\ i <= MaxAlloc /\ MayRead(c)
    BY <1>0, <1>1 DEF Add
  <2>2. i \in Id
    BY <1>00, <2>1 DEF Id
  <2>3. Pending(r, file, stamped)
    <3>1. r.op = "add" /\ r.id = i /\ r.next = g
      OBVIOUS
    <3> HIDE DEF r
    <3> QED BY <2>2, <3>1 DEF Pending
  <2> HIDE DEF i, g
  <2> QED BY <1>000, <2>1, <2>3, RendersSerial
<1>2. ASSUME NEW c \in Caller, NEW i \in Id, NEW n \in Note, Revise(c, i, n)
      PROVE  SerialInv'
  <2> DEFINE g == WriteMark(ReplaceEntry(file, i, n), Reconciled(file))
             r == [pc |-> "write", op |-> "revise", id |-> i, next |-> g]
  <2>1. Renders(c, "revise", i, g) /\ i \in Live(file) /\ MayRead(c)
    BY <1>0, <1>2 DEF Revise
  <2>2. Pending(r, file, stamped)
    <3>1. r.op = "revise" /\ r.id = i /\ r.next = g
      OBVIOUS
    <3> HIDE DEF r
    <3> QED BY <2>1, <3>1 DEF Pending
  <2> HIDE DEF g
  <2> QED BY <1>000, <2>1, <2>2, RendersSerial
<1>3. ASSUME NEW c \in Caller, NEW i \in Id, Restamp(c, i)
      PROVE  SerialInv'
  <2> DEFINE g == WriteMark(file, Reconciled(file))
             r == [pc |-> "write", op |-> "revise", id |-> i, next |-> g]
  <2>1. Renders(c, "revise", i, g) /\ i \in Live(file) /\ MayRead(c)
    BY <1>0, <1>3 DEF Restamp
  <2>2. Pending(r, file, stamped)
    <3>1. r.op = "revise" /\ r.id = i /\ r.next = g
      OBVIOUS
    <3> HIDE DEF r
    <3> QED BY <2>1, <3>1 DEF Pending
  <2> HIDE DEF g
  <2> QED BY <1>000, <2>1, <2>2, RendersSerial
<1>4. ASSUME NEW c \in Caller, NEW i \in Id, Delete(c, i)
      PROVE  SerialInv'
  <2> DEFINE r == [pc |-> "scan", id |-> i, next |-> Without(file, i)]
  <2>1. /\ MayRead(c) /\ i \in Live(file) /\ call' = [call EXCEPT ![c] = r]
        /\ UNCHANGED <<file, source, issued, stamped, discarded>>
    BY <1>4 DEF Delete
  <2>2. r.pc = "scan" /\ r.id = i /\ r.next = Without(file, i)
    OBVIOUS
  <2> HIDE DEF r
  <2>3. \A d \in Caller : call'[d] = IF d = c THEN r ELSE call[d]
    BY <2>1 DEF TypeOK
  <2>4. \A d \in Caller : Writing(d)' => d = c
    BY <1>000, <2>1, <2>3 DEF Writing
  <2>5. NothingDropped' /\ Live(file)' \subseteq issued'
    BY <2>1 DEF SerialInv, NothingDropped, Live
  <2>6. \A d \in Caller : call'[d].pc = "write" => Pending(call'[d], file', stamped')
    BY <2>2, <2>3, <2>4 DEF Writing
  <2>7. ASSUME NEW d \in Caller, call'[d].pc = "scan"
        PROVE  call'[d].id \in Live(file)' /\ call'[d].next = Without(file', call'[d].id)
    <3>1. d = c
      BY <2>4, <2>7 DEF Writing
    <3> QED BY <2>1, <2>2, <2>3, <3>1 DEF Live
  <2> QED BY <2>1, <2>4, <2>5, <2>6, <2>7 DEF SerialInv
<1>5. ASSUME NEW c \in Caller, NEW discard \in BOOLEAN, Scan(c, discard)
      PROVE  SerialInv'
  <2> DEFINE what == IF Stamped(call[c].id) THEN "delete" ELSE "discard"
             r == [pc |-> "write", op |-> what, id |-> call[c].id, next |-> call[c].next]
  <2>1. /\ Renders(c, what, call[c].id, call[c].next) /\ call[c].pc = "scan"
        /\ call[c].id \in Live(file) /\ call[c].next = Without(file, call[c].id)
    BY <1>5 DEF Scan, SerialInv
  <2>2. \A d \in Caller : d # c => ~Writing(d)
    BY <2>1 DEF SerialInv, Writing
  <2>3. what = "delete" => call[c].id \in stamped
    <3>1. call[c].id \in Id /\ None \notin Id
      BY <1>00, <2>1, BacklogAssumption DEF Id
    <3> QED BY <3>1 DEF Stamped, SerialInv
  <2>4. what \in {"delete", "discard"}
    OBVIOUS
  <2>5. r.op = what /\ r.id = call[c].id /\ r.next = call[c].next
    OBVIOUS
  <2>6. Pending(r, file, stamped)
    <3> HIDE DEF r, what
    <3> QED BY <2>1, <2>3, <2>4, <2>5 DEF Pending
  <2> HIDE DEF what
  <2> QED BY <2>1, <2>2, <2>6, RendersSerial
<1>6. ASSUME NEW c \in Caller, Land(c)
      PROVE  SerialInv'
  <2> DEFINE i == call[c].id
  <2>1. \A d \in Caller : call'[d] = IF d = c THEN Idle ELSE call[d]
    BY <1>6 DEF Land, TypeOK
  <2>2. \A d \in Caller : ~Writing(d)'
    <3>1. Writing(c)
      BY <1>6 DEF Land, Writing
    <3> QED BY <2>1, <3>1 DEF SerialInv, Writing, Idle
  <2>3. /\ call[c].op \in Op /\ UNCHANGED <<source, stamped>>
        /\ issued' = IF call[c].op = "add" THEN issued \cup {i} ELSE issued
        /\ discarded' = IF call[c].op = "discard" THEN discarded \cup {i} ELSE discarded
    BY <1>6, CallTypes DEF Land
  <2>4. /\ Live(file') \subseteq issued'
        /\ issued' \subseteq Live(file') \cup stamped \cup discarded'
        /\ file'.mark = None => issued' = {}
        /\ file'.mark # None => issued' \subseteq 1..file'.mark
    <3>1. /\ issued \subseteq Live(file) \cup stamped \cup discarded
          /\ Live(file) \subseteq issued
          /\ file.mark = None => issued = {} /\ Live(file) = {}
          /\ file.mark # None => file.mark = Reconciled(file) /\ issued \subseteq 1..file.mark
      BY DEF SerialInv, NothingDropped, Reconciled
    <3>2. CASE call[c].op = "add"
      <4>1. /\ i \in Id /\ i = Reconciled(file) + 1 /\ file'.mark = i
            /\ Live(file') = Live(file) \cup {i}
        BY <1>6, <3>2, LandEffect
      <4>2. issued \subseteq 1..Reconciled(file) /\ i # None
        BY <3>1, <1>00, <4>1, BacklogAssumption DEF Id
      <4>3. issued' = issued \cup {i} /\ discarded' = discarded
        BY <2>3, <3>2
      <4> HIDE DEF i
      <4>4. issued' \subseteq 1..file'.mark
        <5>1. issued \subseteq 1..(i - 1) /\ i \in Nat \ {0}
          BY <4>1, <4>2, <1>00 DEF Id
        <5>2. \A j \in issued' : j \in 1..i
          BY <4>3, <5>1
        <5> QED BY <4>1, <5>2
      <4> QED BY <3>1, <4>1, <4>2, <4>3, <4>4
    <3>3. CASE call[c].op = "revise"
      <4>1. i \in Live(file) /\ file'.mark = Reconciled(file) /\ Live(file') = Live(file)
        BY <1>6, <3>3, LandEffect
      <4>2. file.mark # None
        BY <3>1, <4>1
      <4> QED BY <2>3, <3>1, <3>3, <4>1, <4>2
    <3>4. CASE call[c].op \in {"delete", "discard"}
      <4>1. /\ i \in Live(file) /\ file'.mark = file.mark /\ Live(file') = Live(file) \ {i}
            /\ call[c].op = "delete" => i \in stamped
        BY <1>6, <3>4, LandEffect
      <4> QED BY <2>3, <3>1, <3>4, <4>1
    <3> QED BY <2>3, <3>2, <3>3, <3>4 DEF Op
  <2>5. NothingDropped' /\ Live(file)' \subseteq issued'
    BY <2>3, <2>4 DEF NothingDropped, Live
  <2>6. \A d \in Caller : call'[d].pc \notin {"scan", "write"}
    BY <2>2 DEF Writing
  <2>7. \A a \in Artifact : source'[a] # None => source'[a] \in stamped'
    BY <2>3 DEF SerialInv
  <2> QED BY <2>2, <2>4, <2>5, <2>6, <2>7 DEF SerialInv
<1>7. ASSUME NEW c \in Caller, NEW a \in Artifact, NEW i \in Id, Promote(c, a, i)
      PROVE  SerialInv'
  <2> DEFINE r == [pc |-> "stamp", id |-> i, artifact |-> a]
  <2>1. /\ call' = [call EXCEPT ![c] = r] /\ r.pc \notin {"scan", "write"}
        /\ UNCHANGED <<file, source, issued, stamped, discarded>>
    BY <1>7 DEF Promote
  <2> HIDE DEF r
  <2>2. \A b \in Artifact : source'[b] # None => source'[b] \in stamped'
    BY <2>1 DEF SerialInv
  <2> QED BY <2>1, <2>2, LeavesSerial
<1>8. ASSUME NEW c \in Caller, Stamp(c)
      PROVE  SerialInv'
  <2>1. \A b \in Artifact : source'[b] # None => source'[b] \in stamped'
    BY <1>8 DEF Stamp, TypeOK, SerialInv
  <2>2. Idle.pc \notin {"scan", "write"}
    BY DEF Idle
  <2> QED BY <1>8, <2>1, <2>2, LeavesSerial DEF Stamp
<1>9. ASSUME NEW a \in Artifact, Rewrite(a)
      PROVE  SerialInv'
  <2>1. \A b \in Artifact : source'[b] # None => source'[b] \in stamped'
    BY <1>9 DEF Rewrite, TypeOK, SerialInv
  <2>2. UNCHANGED <<file, call, issued, stamped, discarded>>
    BY <1>9 DEF Rewrite
  <2> QED BY <2>1, <2>2 DEF SerialInv, NothingDropped, Live, Writing
<1>10. ASSUME NEW c \in Caller, Abort(c)
       PROVE  SerialInv'
  <2>1. \A b \in Artifact : source'[b] # None => source'[b] \in stamped'
    BY <1>10 DEF Abort, SerialInv
  <2>2. Idle.pc \notin {"scan", "write"}
    BY DEF Idle
  <2> QED BY <1>10, <2>1, <2>2, LeavesSerial DEF Abort
<1>11. CASE UNCHANGED vars
  <2>1. UNCHANGED <<file, source, call, issued, stamped, discarded>>
    BY <1>11 DEF vars
  <2> QED BY <2>1 DEF SerialInv, NothingDropped, Live, Writing
<1> QED
  BY <1>1, <1>2, <1>3, <1>4, <1>5, <1>6, <1>7, <1>8, <1>9, <1>10, <1>11 DEF Next

\* The empty backlog satisfies the strengthening.
LEMMA SerialInit == ASSUME Careful, Init PROVE SerialInv
<1>1. file = NoBacklog /\ issued = Live(file) /\ \A c \in Caller : call[c] = Idle
  BY DEF Init, Careful
<1>2. file.mark = None /\ Live(file) = {}
  BY <1>1 DEF NoBacklog, Live
<1>3. \A a \in Artifact : source[a] = None
  BY DEF Init
<1> QED BY <1>1, <1>2, <1>3 DEF SerialInv, NothingDropped, Writing, Idle

\* An acknowledged entry is live, promoted or discarded, however promotions
\* and rewrites of the stamped artifacts overlap the delete's scan.
THEOREM NothingDroppedHolds == Careful => (Spec => []NothingDropped)
<1> SUFFICES ASSUME Careful PROVE Spec => []NothingDropped
  OBVIOUS
<1> DEFINE IInv == TypeOK /\ MarkCovers /\ SerialInv
<1>1. Init => IInv
  BY MarkInit, SerialInit
<1>2. IInv /\ [Next]_vars => IInv'
  BY MarkStep, SerialStep
<1>3. IInv => NothingDropped
  BY DEF SerialInv
<1> HIDE DEF IInv
<1> QED BY <1>1, <1>2, <1>3, PTL DEF Spec

\* Ids are never reissued (write_backlog.py:54, CONVENTIONS.md:1370).
THEOREM IdsNeverReissued == Careful => (Spec => NeverReissued)
<1> SUFFICES ASSUME Careful PROVE Spec => NeverReissued
  OBVIOUS
<1> DEFINE IInv == TypeOK /\ MarkCovers /\ SerialInv
           A == \A c \in Caller : Land(c) /\ call[c].op = "add" => call[c].id \notin issued
<1>1. Init => IInv
  BY MarkInit, SerialInit
<1>2. IInv /\ [Next]_vars => IInv'
  BY MarkStep, SerialStep
<1>3. IInv /\ [Next]_vars => [A]_vars
  BY LandEffect
<1>4. NeverReissued <=> [][A]_vars
  BY DEF NeverReissued
<1> HIDE DEF IInv, A
<1> QED BY <1>1, <1>2, <1>3, <1>4, PTL DEF Spec

\* Every careful step is a step of the ledger or leaves it as it is.
LEMMA LedgerStep ==
    ASSUME Careful, TypeOK, MarkCovers, SerialInv, [Next]_vars
    PROVE  [Ledger!Next]_(Ledger!vars)
<1> DEFINE Said(f) == [i \in Id |-> IF f.section[i] = None THEN None ELSE f.section[i].note]
<1>1. ASSUME UNCHANGED <<file, issued>>
      PROVE  UNCHANGED Ledger!vars
  BY <1>1 DEF Ledger!vars
<1>2. ASSUME NEW c \in Caller, Land(c)
      PROVE  [Ledger!Next]_(Ledger!vars)
  <2> DEFINE i == call[c].id
  <2>1. /\ file \in File
        /\ i \in Id /\ call[c].op \in Op
        /\ issued' = IF call[c].op = "add" THEN issued \cup {i} ELSE issued
    BY <1>2, LandEffect, CallTypes DEF Land, TypeOK
  <2>2. \A n : [note |-> n, tail |-> {}].note = n
    OBVIOUS
  <2>3. \A n \in Note : [note |-> n, tail |-> {}] # None
    BY BacklogAssumption DEF Entry
  <2>4. ASSUME NEW n \in Note,
               file'.section = [file.section EXCEPT ![i] = [note |-> n, tail |-> {}]]
        PROVE  Said(file') = [Said(file) EXCEPT ![i] = n]
    <3> DEFINE e == [note |-> n, tail |-> {}]
    <3>1. e.note = n /\ e # None /\ file'.section = [file.section EXCEPT ![i] = e]
      BY <2>2, <2>3, <2>4
    <3> HIDE DEF e, i
    <3>2. \A j \in Id : file'.section[j] = IF j = i THEN e ELSE file.section[j]
      BY <2>1, <3>1 DEF File
    <3> QED BY <2>1, <3>1, <3>2
  <2>5. CASE call[c].op = "add"
    <3>1. i \notin issued /\ \E n \in Note : file'.section =
              [file.section EXCEPT ![i] = [note |-> n, tail |-> {}]]
      BY <1>2, <2>5, LandEffect
    <3>2. PICK n \in Note : Said(file') = [Said(file) EXCEPT ![i] = n]
      BY <3>1, <2>4
    <3>3. Ledger!Issue(i, n)
      BY <2>1, <2>5, <3>1, <3>2 DEF Ledger!Issue
    <3> QED BY <2>1, <3>3 DEF Ledger!Next
  <2>6. CASE call[c].op = "revise"
    <3>1. i \in Live(file) /\ Said(file)[i] # None
      BY <1>2, <2>1, <2>6, LandEffect, BacklogAssumption DEF Live, File, Entry
    <3>2. issued' = issued
      BY <2>1, <2>6
    <3>3. CASE file'.section = file.section
      <4>1. Said(file') = Said(file)
        BY <3>3
      <4> QED BY <3>2, <4>1 DEF Ledger!vars
    <3>4. CASE \E n \in Note : file'.section =
                  [file.section EXCEPT ![i] = [note |-> n, tail |-> {}]]
      <4>1. PICK n \in Note : Said(file') = [Said(file) EXCEPT ![i] = n]
        BY <3>4, <2>4
      <4>2. Ledger!Revise(i, n)
        BY <3>1, <3>2, <4>1 DEF Ledger!Revise
      <4> QED BY <2>1, <4>2 DEF Ledger!Next
    <3> QED BY <1>2, <2>6, <3>3, <3>4, LandEffect
  <2>7. CASE call[c].op \in {"delete", "discard"}
    <3>1. i \in Live(file) /\ Said(file)[i] # None
      BY <1>2, <2>1, <2>7, LandEffect, BacklogAssumption DEF Live, File, Entry
    <3>2. issued' = issued
      BY <2>1, <2>7
    <3>3. file'.section = [file.section EXCEPT ![i] = None]
      BY <1>2, <2>7, LandEffect
    <3>4. Said(file') = [Said(file) EXCEPT ![i] = None]
      <4> HIDE DEF i
      <4>1. \A j \in Id : file'.section[j] = IF j = i THEN None ELSE file.section[j]
        BY <2>1, <3>3 DEF File
      <4> QED BY <2>1, <4>1
    <3>5. \E j \in Id : Ledger!Drop(j)
      BY <2>1, <3>1, <3>2, <3>4 DEF Ledger!Drop
    <3> QED BY <3>5, Zenon DEF Ledger!Next
  <2> QED BY <2>1, <2>5, <2>6, <2>7 DEF Op
<1>3. ASSUME Next, ~\E c \in Caller : Land(c)
      PROVE  UNCHANGED <<file, issued>>
  BY <1>3 DEF Next, Add, Revise, Restamp, Delete, Scan, Promote, Stamp, Abort, Rewrite, Renders
<1>4. CASE UNCHANGED vars
  BY <1>1, <1>4 DEF vars
<1> QED BY <1>1, <1>2, <1>3, <1>4

\* The backlog implements the ledger: an id names one entry for ever, and a
\* revision or a removal only ever concerns a live one.
THEOREM ImplementsLedger == Careful => (Spec => LedgerSpec)
<1> SUFFICES ASSUME Careful PROVE Spec => LedgerSpec
  OBVIOUS
<1> DEFINE IInv == TypeOK /\ MarkCovers /\ SerialInv
<1>1. Init => IInv
  BY MarkInit, SerialInit
<1>2. IInv /\ [Next]_vars => IInv'
  BY MarkStep, SerialStep
<1>3. Init => Ledger!Init
  <2> SUFFICES ASSUME Init PROVE Ledger!Init
    OBVIOUS
  <2>1. file = NoBacklog /\ issued = Live(file)
    BY DEF Init, Careful
  <2>2. \A i \in Id : file.section[i] = None
    BY <2>1 DEF NoBacklog
  <2> QED BY <2>1, <2>2 DEF Ledger!Init, Live
<1>4. IInv /\ [Next]_vars => [Ledger!Next]_(Ledger!vars)
  BY LedgerStep
<1> HIDE DEF IInv
<1> QED BY <1>1, <1>2, <1>3, <1>4, PTL DEF Spec, LedgerSpec, Ledger!Spec

(***************************************************************************)
(* The evidence of a plan: its ledger.                                     *)
(***************************************************************************)
States == {"not-yet-observable", "not-applicable", "unavailable", "omitted", "observed"}
Entries == [k : {"E", "D"}, p : Nat, u : Units, f : C!Families,
            x : {"-", "approve", "request-changes", "D2"}, plan : Nat]
Tallies == [k : {"U"}, p : Nat, u : Units, plan : Nat, state : [C!Families -> States],
            count : [C!Families -> Nat], truth : [C!Families -> Nat]]
Marks == {C!Torn, C!Junk}
Lines == Entries \cup Tallies \cup Marks

LEMMA LineKinds ==
    /\ \A r \in Lines : r.k \in {"E", "D", "U"} <=> r \in Entries \cup Tallies
    /\ \A r \in Lines : r.k \in {"E", "D"} <=> r \in Entries
    /\ \A r \in Lines : r.k = "U" <=> r \in Tallies
    /\ Marks \subseteq Lines /\ \A r \in Marks : r.k \notin {"E", "D", "U"}
BY DEF Lines, Entries, Tallies, Marks, C!Torn, C!Junk

\* The same records at the same places, whatever became of the other lines.
Same(l, m) ==
    /\ m \in Seq(Lines)
    /\ \A w, u : C!Ledger(m, w, u) = C!Ledger(l, w, u)
    /\ \A i \in DOMAIN m : m[i].k \in {"E", "D", "U"} => i \in DOMAIN l /\ m[i] = l[i]

LEMMA SameCounts ==
    ASSUME NEW l, NEW m, Same(l, m), NEW w, NEW u
    PROVE  /\ C!Summaries(m, w, u) = C!Summaries(l, w, u)
           /\ \A f : C!Of(m, w, u, f) = C!Of(l, w, u, f)
           /\ \A f : C!Counted(m, w, u, f) = C!Counted(l, w, u, f)
           /\ \A i \in C!Ledger(m, w, u) : m[i] = l[i]
           /\ C!Approved(m, w, u) <=> C!Approved(l, w, u)
<1>1. C!Ledger(m, w, u) = C!Ledger(l, w, u)
  BY DEF Same
<1>2. \A i \in C!Ledger(m, w, u) : m[i] = l[i]
  BY DEF Same, C!Ledger
<1>3. C!Summaries(m, w, u) = C!Summaries(l, w, u)
  BY <1>1, <1>2 DEF C!Summaries
<1>4. C!Ordinary(m, w, u) = C!Ordinary(l, w, u) /\ C!Ordinary(m, w, u) \subseteq C!Ledger(m, w, u)
  BY <1>1, <1>2 DEF C!Ordinary
<1>5. \A f : C!Of(m, w, u, f) = C!Of(l, w, u, f) /\ C!Of(m, w, u, f) \subseteq C!Ordinary(m, w, u)
  BY <1>2, <1>4 DEF C!Of
<1>6. \A f : C!Counted(m, w, u, f) = C!Counted(l, w, u, f)
  BY <1>2, <1>4, <1>5 DEF C!Counted
<1>7. C!Approved(m, w, u) <=> C!Approved(l, w, u)
  BY <1>2, <1>4, <1>5 DEF C!Approved
<1> QED
  BY <1>2, <1>3, <1>5, <1>6, <1>7

LEMMA FrontOf ==
    ASSUME NEW S, NEW s \in Seq(S), Len(s) > 0
    PROVE  /\ SubSeq(s, 1, Len(s) - 1) \in Seq(S)
           /\ Len(SubSeq(s, 1, Len(s) - 1)) = Len(s) - 1
           /\ \A i \in 1 .. Len(s) - 1 : SubSeq(s, 1, Len(s) - 1)[i] = s[i]
<1> DEFINE n == Len(s) - 1
<1>1. n \in Nat /\ \A i \in 1 .. n : s[i] \in S
  OBVIOUS
<1> HIDE DEF n
<1>2. /\ SubSeq(s, 1, n) \in Seq(S)
      /\ Len(SubSeq(s, 1, n)) = IF 1 <= n THEN n - 1 + 1 ELSE 0
      /\ \A i \in 1 .. n - 1 + 1 : SubSeq(s, 1, n)[i] = s[1 + i - 1]
  BY <1>1, SubSeqProperties
<1>3. \A i \in 1 .. n : i \in 1 .. n - 1 + 1 /\ s[1 + i - 1] = s[i]
  BY <1>1
<1>4. Len(SubSeq(s, 1, n)) = n
  BY <1>1, <1>2
<1>5. \A i \in 1 .. n : SubSeq(s, 1, n)[i] = s[i]
  BY <1>2, <1>3
<1> QED
  BY <1>2, <1>4, <1>5 DEF n

LEMMA AppendedLine ==
    ASSUME NEW l \in Seq(Lines), NEW r \in Lines
    PROVE  /\ Append(l, r) \in Seq(Lines) /\ Len(l) \in Nat
           /\ DOMAIN l = 1 .. Len(l) /\ DOMAIN Append(l, r) = 1 .. Len(l) + 1
           /\ \A i \in 1 .. Len(l) : Append(l, r)[i] = l[i] /\ l[i] \in Lines
           /\ Append(l, r)[Len(l) + 1] = r
OBVIOUS

\* The place a new record takes in the ledger of unit u for window w, if any.
Place(l, r, w, u) == IF r.p = w /\ r.u = u THEN {Len(l) + 1} ELSE {}
SummaryPlace(l, r, w, u) == IF r.k = "U" THEN Place(l, r, w, u) ELSE {}
FamilyPlace(l, r, w, u, f) == IF r.k # "U" /\ r.f = f THEN Place(l, r, w, u) ELSE {}
CountedPlace(l, r, w, u, f) ==
    IF f = "RRR" /\ r.x = "approve" THEN {} ELSE FamilyPlace(l, r, w, u, f)

\* What one more record adds, by its window, unit and family.
LEMMA AppendedCounts ==
    ASSUME NEW l, NEW r, NEW w, NEW u, NEW f, l \in Seq(Lines), r \in Entries \cup Tallies
    PROVE  /\ C!Of(Append(l, r), w, u, f) = C!Of(l, w, u, f) \cup FamilyPlace(l, r, w, u, f)
           /\ C!Counted(Append(l, r), w, u, f)
                = C!Counted(l, w, u, f) \cup CountedPlace(l, r, w, u, f)
<1> DEFINE m == Append(l, r)
           here == r.p = w /\ r.u = u
           n == Len(l) + 1
<1>1. /\ DOMAIN m = DOMAIN l \cup {n} /\ n \notin DOMAIN l /\ m[n] = r
      /\ \A i \in DOMAIN l : m[i] = l[i]
  BY AppendedLine DEF Lines
<1>2. r.k \in {"E", "D", "U"}
  BY LineKinds DEF Lines
<1> HIDE DEF m, n
<1>3. C!Ledger(m, w, u) = C!Ledger(l, w, u) \cup (IF here THEN {n} ELSE {})
  BY <1>1, <1>2 DEF C!Ledger
<1>4. C!Ledger(l, w, u) \subseteq DOMAIN l
  BY DEF C!Ledger
<1>5. C!Ordinary(m, w, u) = C!Ordinary(l, w, u) \cup (IF here /\ r.k # "U" THEN {n} ELSE {})
  BY <1>1, <1>3, <1>4 DEF C!Ordinary
<1>6. C!Ordinary(l, w, u) \subseteq DOMAIN l
  BY <1>4 DEF C!Ordinary
<1>7. C!Of(m, w, u, f)
        = C!Of(l, w, u, f) \cup (IF here /\ r.k # "U" /\ r.f = f THEN {n} ELSE {})
  BY <1>1, <1>5, <1>6 DEF C!Of
<1>8. C!Of(l, w, u, f) \subseteq DOMAIN l
  BY <1>6 DEF C!Of
<1>9. C!Counted(m, w, u, f) = C!Counted(l, w, u, f)
         \cup (IF here /\ r.k # "U" /\ r.f = f /\ (f = "RRR" => r.x # "approve")
               THEN {n} ELSE {})
  BY <1>1, <1>7, <1>8 DEF C!Counted
<1> QED
  BY <1>7, <1>9 DEF m, n, Place, FamilyPlace, CountedPlace

LEMMA AppendedSummaries ==
    ASSUME NEW l, NEW r, NEW w, NEW u, l \in Seq(Lines), r \in Entries \cup Tallies
    PROVE  C!Summaries(Append(l, r), w, u) = C!Summaries(l, w, u) \cup SummaryPlace(l, r, w, u)
<1> DEFINE m == Append(l, r)
           n == Len(l) + 1
<1>1. /\ DOMAIN m = DOMAIN l \cup {n} /\ n \notin DOMAIN l /\ m[n] = r
      /\ \A i \in DOMAIN l : m[i] = l[i]
  BY AppendedLine DEF Lines
<1> HIDE DEF m, n
<1>2. C!Summaries(m, w, u)
        = C!Summaries(l, w, u) \cup (IF r.k = "U" /\ r.p = w /\ r.u = u THEN {n} ELSE {})
  BY <1>1 DEF C!Summaries, C!Ledger
<1> QED
  BY <1>2 DEF m, n, Place, SummaryPlace

\* PlanCloseout's instance of the standard operator is the operator.
LEMMA CardinalityIs ==
    ASSUME NEW S
    PROVE  C!Cardinality(S) = Cardinality(S)
BY DEF C!Cardinality, Cardinality, C!IsFiniteSet, IsFiniteSet

LEMMA FiniteCounts ==
    ASSUME NEW l \in Seq(Lines), NEW w, NEW u, NEW f
    PROVE  /\ IsFiniteSet(C!Of(l, w, u, f)) /\ Cardinality(C!Of(l, w, u, f)) \in Nat
           /\ IsFiniteSet(C!Counted(l, w, u, f)) /\ Cardinality(C!Counted(l, w, u, f)) \in Nat
           /\ Len(l) + 1 \notin C!Of(l, w, u, f) /\ Len(l) + 1 \notin C!Counted(l, w, u, f)
<1>1. DOMAIN l = 1 .. Len(l) /\ Len(l) \in Nat /\ Len(l) + 1 \notin 1 .. Len(l)
  OBVIOUS
<1>2. IsFiniteSet(1 .. Len(l))
  BY <1>1, FS_Interval
<1>3. C!Ledger(l, w, u) \subseteq 1 .. Len(l)
  BY <1>1 DEF C!Ledger
<1>4. C!Of(l, w, u, f) \subseteq 1 .. Len(l) /\ C!Counted(l, w, u, f) \subseteq 1 .. Len(l)
  BY <1>3 DEF C!Of, C!Counted, C!Ordinary
<1> QED
  BY <1>1, <1>2, <1>4, FS_Subset, FS_CardinalityType

LEMMA FiniteSummaries ==
    ASSUME NEW l, NEW w, NEW u, l \in Seq(Lines)
    PROVE  /\ C!Summaries(l, w, u) \subseteq 1 .. Len(l) /\ Len(l) \in Nat
           /\ Cardinality(C!Summaries(l, w, u)) \in Nat
<1>1. DOMAIN l = 1 .. Len(l) /\ Len(l) \in Nat
  OBVIOUS
<1>2. C!Summaries(l, w, u) \subseteq 1 .. Len(l)
  BY <1>1 DEF C!Summaries, C!Ledger
<1>3. IsFiniteSet(C!Summaries(l, w, u))
  <2>1. IsFiniteSet(1 .. Len(l))
    BY <1>1, FS_Interval
  <2> QED
    BY <1>2, <2>1, FS_Subset
<1> QED
  BY <1>1, <1>2, <1>3, FS_CardinalityType

\* An emission leaves the records as they were or adds its own.
LEMMA Emitted ==
    ASSUME NEW l \in Seq(Lines), NEW r \in Entries \cup Tallies, NEW fault
    PROVE  Same(l, C!Emit(l, r, fault)) \/ C!Emit(l, r, fault) = Append(l, r)
<1>1. Same(l, l)
  BY DEF Same
<1>2. ASSUME C!TornTail(l) PROVE Same(l, Append(C!Front(l), C!Junk))
  <2> DEFINE m == Append(C!Front(l), C!Junk)
  <2>1. Len(l) \in Nat /\ Len(l) > 0 /\ l[Len(l)].k = "torn"
    BY <1>2 DEF C!TornTail, C!Last
  <2>2. /\ C!Front(l) \in Seq(Lines) /\ Len(C!Front(l)) = Len(l) - 1
        /\ \A i \in 1 .. Len(l) - 1 : C!Front(l)[i] = l[i]
    BY <2>1, FrontOf DEF C!Front
  <2>3. C!Junk \in Lines /\ C!Junk.k = "junk"
    BY DEF Lines, Marks, C!Junk
  <2>4. /\ m \in Seq(Lines) /\ DOMAIN m = DOMAIN l /\ m[Len(l)] = C!Junk
        /\ \A i \in DOMAIN l : i # Len(l) => m[i] = l[i]
    BY <2>1, <2>2, <2>3, AppendedLine
  <2> HIDE DEF m
  <2>5. \A i \in DOMAIN l : m[i] = l[i] \/ (m[i].k = "junk" /\ l[i].k = "torn")
    BY <2>1, <2>3, <2>4
  <2>6. \A w, u : C!Ledger(m, w, u) = C!Ledger(l, w, u)
    BY <2>4, <2>5 DEF C!Ledger
  <2> QED
    BY <2>4, <2>5, <2>6 DEF Same, m
<1>3. Same(l, Append(l, C!Torn))
  <2> DEFINE m == Append(l, C!Torn)
             n == Len(l) + 1
  <2>1. C!Torn \in Lines /\ C!Torn.k = "torn"
    BY DEF Lines, Marks, C!Torn
  <2>2. /\ m \in Seq(Lines) /\ DOMAIN m = DOMAIN l \cup {n}
        /\ m[n].k = "torn" /\ \A i \in DOMAIN l : m[i] = l[i]
    BY <2>1, AppendedLine
  <2> HIDE DEF m, n
  <2>3. \A w, u : C!Ledger(m, w, u) = C!Ledger(l, w, u)
    BY <2>2 DEF C!Ledger
  <2> QED
    BY <2>2, <2>3 DEF Same, m
<1>4. C!Emit(l, r, fault) \in {l, Append(l, r), Append(l, C!Torn)}
        \/ (C!TornTail(l) /\ C!Emit(l, r, fault) = Append(C!Front(l), C!Junk))
  BY DEF C!Emit, C!AppendLine
<1> QED
  BY <1>1, <1>2, <1>3, <1>4

(***************************************************************************)
(* Counting.                                                               *)
(***************************************************************************)

\* Of family f of unit u, whose observations number s and whose independent
\* count is e: no more is counted than was seen, and what was seen and not
\* counted is not more than what is missing.
Balanced(l, u, f, s, e) ==
    /\ s <= e
    /\ \A w \in Nat : /\ Cardinality(C!Counted(l, w, u, f)) <= s
                      /\ s + Cardinality(C!Of(l, w, u, f))
                           <= e + Cardinality(C!Counted(l, w, u, f))

LEMMA EmptyBalanced ==
    ASSUME NEW u, NEW f, NEW s \in Nat, NEW e \in Nat, s <= e
    PROVE  Balanced(<<>>, u, f, s, e)
<1>1. ASSUME NEW w
      PROVE  /\ Cardinality(C!Of(<<>>, w, u, f)) = 0
             /\ Cardinality(C!Counted(<<>>, w, u, f)) = 0
  <2>1. C!Ledger(<<>>, w, u) = {}
    BY DEF C!Ledger
  <2>2. C!Of(<<>>, w, u, f) = {} /\ C!Counted(<<>>, w, u, f) = {}
    BY <2>1 DEF C!Of, C!Ordinary, C!Counted
  <2> QED
    BY <2>2, FS_EmptySet
<1> QED
  BY <1>1 DEF Balanced

\* Other records leave the balance alone, and the count may run ahead.
LEMMA OthersBalanced ==
    ASSUME NEW l \in Seq(Lines), NEW m, NEW u, NEW f, NEW r \in Entries \cup Tallies,
           NEW s \in Nat, NEW e \in Nat, NEW d \in Nat, Balanced(l, u, f, s, e),
           Same(l, m) \/ (m = Append(l, r) /\ ~ (r.k # "U" /\ r.u = u /\ r.f = f))
    PROVE  Balanced(m, u, f, s, e + d)
<1>1. ASSUME NEW w
      PROVE  C!Of(m, w, u, f) = C!Of(l, w, u, f) /\ C!Counted(m, w, u, f) = C!Counted(l, w, u, f)
  <2>1. CASE Same(l, m)
    BY <2>1, SameCounts
  <2>2. CASE m = Append(l, r) /\ ~ (r.k # "U" /\ r.u = u /\ r.f = f)
    <3>1. /\ C!Of(m, w, u, f) = C!Of(l, w, u, f) \cup FamilyPlace(l, r, w, u, f)
          /\ C!Counted(m, w, u, f) = C!Counted(l, w, u, f) \cup CountedPlace(l, r, w, u, f)
      BY <2>2, AppendedCounts
    <3>2. FamilyPlace(l, r, w, u, f) = {} /\ CountedPlace(l, r, w, u, f) = {}
      BY <2>2 DEF FamilyPlace, CountedPlace, Place
    <3> QED
      BY <3>1, <3>2
  <2> QED
    BY <2>1, <2>2
<1>2. ASSUME NEW w
      PROVE  /\ Cardinality(C!Of(l, w, u, f)) \in Nat
             /\ Cardinality(C!Counted(l, w, u, f)) \in Nat
  BY FiniteCounts
<1>3. ASSUME NEW w \in Nat
      PROVE  /\ Cardinality(C!Counted(l, w, u, f)) <= s
             /\ s + Cardinality(C!Of(l, w, u, f)) <= e + Cardinality(C!Counted(l, w, u, f))
             /\ s <= e
  BY DEF Balanced
<1>4. ASSUME NEW w \in Nat
      PROVE  s + Cardinality(C!Of(l, w, u, f)) <= e + d + Cardinality(C!Counted(l, w, u, f))
  BY <1>2, <1>3
<1>5. s <= e + d
  BY <1>3
<1> QED
  BY <1>1, <1>3, <1>4, <1>5 DEF Balanced

\* r is a record of f of u, of which d would be counted.
Observes(r, u, f, d) ==
    /\ r \in Entries /\ r.u = u /\ r.f = f
    /\ d \in {0, 1} /\ (d = 0 <=> (f = "RRR" /\ r.x = "approve"))

\* An observation, recorded or not.
LEMMA ObservedBalanced ==
    ASSUME NEW l \in Seq(Lines), NEW m, NEW u, NEW f, NEW r,
           NEW s \in Nat, NEW e \in Nat, NEW d, Balanced(l, u, f, s, e),
           Same(l, m) \/ m = Append(l, r), Observes(r, u, f, d)
    PROVE  Balanced(m, u, f, s + d, e + 1)
<1> DEFINE n == Len(l) + 1
<1>1. r \in Entries \cup Tallies /\ d \in {0, 1}
  BY DEF Observes
<1>2. ASSUME NEW w
      PROVE  \/ /\ C!Of(m, w, u, f) = C!Of(l, w, u, f)
                /\ C!Counted(m, w, u, f) = C!Counted(l, w, u, f)
             \/ /\ C!Of(m, w, u, f) = C!Of(l, w, u, f) \cup {n}
                /\ C!Counted(m, w, u, f) = IF d = 1 THEN C!Counted(l, w, u, f) \cup {n}
                                                     ELSE C!Counted(l, w, u, f)
  <2>1. CASE Same(l, m)
    BY <2>1, SameCounts
  <2>2. CASE m = Append(l, r)
    <3>1. /\ C!Of(m, w, u, f) = C!Of(l, w, u, f) \cup FamilyPlace(l, r, w, u, f)
          /\ C!Counted(m, w, u, f) = C!Counted(l, w, u, f) \cup CountedPlace(l, r, w, u, f)
      BY <1>1, <2>2, AppendedCounts
    <3>2. r.k # "U" /\ r.f = f
      BY LineKinds DEF Lines, Observes
    <3>3. FamilyPlace(l, r, w, u, f) \in {{}, {n}}
      BY DEF FamilyPlace, Place
    <3>4. CountedPlace(l, r, w, u, f) = IF d = 1 THEN FamilyPlace(l, r, w, u, f) ELSE {}
      BY DEF CountedPlace, Observes
    <3> HIDE DEF n
    <3> QED
      BY <3>1, <3>3, <3>4
  <2> QED
    BY <2>1, <2>2
<1>3. ASSUME NEW w
      PROVE  /\ Cardinality(C!Of(l, w, u, f)) \in Nat
             /\ Cardinality(C!Counted(l, w, u, f)) \in Nat
             /\ Cardinality(C!Of(l, w, u, f) \cup {n}) = Cardinality(C!Of(l, w, u, f)) + 1
             /\ Cardinality(C!Counted(l, w, u, f) \cup {n})
                  = Cardinality(C!Counted(l, w, u, f)) + 1
  BY FiniteCounts, FS_AddElement
<1>4. /\ s <= e
      /\ \A w \in Nat : /\ Cardinality(C!Counted(l, w, u, f)) <= s
                        /\ s + Cardinality(C!Of(l, w, u, f))
                             <= e + Cardinality(C!Counted(l, w, u, f))
  BY DEF Balanced
<1> HIDE DEF n
<1>5. ASSUME NEW w
      PROVE  \/ /\ Cardinality(C!Of(m, w, u, f)) = Cardinality(C!Of(l, w, u, f))
                /\ Cardinality(C!Counted(m, w, u, f)) = Cardinality(C!Counted(l, w, u, f))
             \/ /\ Cardinality(C!Of(m, w, u, f)) = Cardinality(C!Of(l, w, u, f)) + 1
                /\ \/ /\ d = 0
                      /\ Cardinality(C!Counted(m, w, u, f)) = Cardinality(C!Counted(l, w, u, f))
                   \/ /\ d = 1
                      /\ Cardinality(C!Counted(m, w, u, f))
                           = Cardinality(C!Counted(l, w, u, f)) + 1
  BY <1>1, <1>2, <1>3
<1>6. ASSUME NEW w \in Nat
      PROVE  /\ Cardinality(C!Counted(m, w, u, f)) <= s + d
             /\ s + d + Cardinality(C!Of(m, w, u, f))
                  <= e + 1 + Cardinality(C!Counted(m, w, u, f))
  <2>1. /\ Cardinality(C!Counted(l, w, u, f)) <= s
        /\ s + Cardinality(C!Of(l, w, u, f)) <= e + Cardinality(C!Counted(l, w, u, f))
    BY <1>4
  <2>2. Cardinality(C!Of(l, w, u, f)) \in Nat /\ Cardinality(C!Counted(l, w, u, f)) \in Nat
    BY <1>3
  <2> QED
    BY <1>1, <1>5, <2>1, <2>2
<1> QED
  BY <1>1, <1>4, <1>6 DEF Balanced

(***************************************************************************)
(* A record at a time.                                                     *)
(***************************************************************************)

Wrote(l, m, r) == Same(l, m) \/ m = Append(l, r)

\* The invariants of the lines in a plan: every record is of that plan, a
\* summary counts truly what it calls observed, and the later of two summaries
\* of a unit in a window knows its defects after approval.
Tracked == {"PCC", "RRR", "RRG"}
Honest(r) == \A f \in Tracked : r.state[f] = "observed" => r.count[f] = r.truth[f]
FromPlan(l, p) == \A i \in DOMAIN l : l[i].k \in {"E", "D", "U"} => l[i].plan = p
HonestLines(l) == \A i \in DOMAIN l : l[i].k = "U" => Honest(l[i])
Settled(r) == r.state["PAD"] = "observed"
Slotted(l) == \A w, u : \A i, j \in C!Summaries(l, w, u) : i < j => Settled(l[j])
LinesGood(l, p) == l \in Seq(Lines) /\ FromPlan(l, p) /\ HonestLines(l) /\ Slotted(l)

\* What may be added to them.
Fits(l, r, p) ==
    /\ r \in Entries \cup Tallies /\ r.plan = p
    /\ r.k = "U" => /\ Honest(r)
                    /\ C!Summaries(l, r.p, r.u) # {} => Settled(r)

LEMMA EmittedWrote ==
    ASSUME NEW l, NEW r, NEW fault, l \in Seq(Lines), r \in Entries \cup Tallies
    PROVE  Wrote(l, C!Emit(l, r, fault), r)
BY Emitted DEF Wrote

LEMMA WroteItself ==
    ASSUME NEW l, NEW r, l \in Seq(Lines)
    PROVE  Wrote(l, l, r)
BY DEF Wrote, Same

LEMMA LinesKept ==
    ASSUME NEW l, NEW m, NEW r, NEW p, LinesGood(l, p), Wrote(l, m, r), Fits(l, r, p)
    PROVE  LinesGood(m, p)
<1>0. /\ l \in Seq(Lines) /\ r \in Entries \cup Tallies /\ r \in Lines /\ r.plan = p
      /\ \A i \in DOMAIN l : l[i].k \in {"E", "D", "U"} => l[i].plan = p
      /\ \A i \in DOMAIN l : l[i].k = "U" => Honest(l[i])
      /\ \A w, u : \A i, j \in C!Summaries(l, w, u) : i < j => Settled(l[j])
  BY DEF LinesGood, Fits, Lines, FromPlan, HonestLines, Slotted
<1>1. CASE Same(l, m)
  <2>1. /\ m \in Seq(Lines)
        /\ \A i \in DOMAIN m : m[i].k \in {"E", "D", "U"} => i \in DOMAIN l /\ m[i] = l[i]
    BY <1>1 DEF Same
  <2>2. FromPlan(m, p) /\ HonestLines(m)
    BY <1>0, <2>1 DEF FromPlan, HonestLines
  <2>3. ASSUME NEW w, NEW u, NEW i \in C!Summaries(m, w, u), NEW j \in C!Summaries(m, w, u), i < j
        PROVE  Settled(m[j])
    <3>1. C!Summaries(m, w, u) = C!Summaries(l, w, u)
      BY <1>1, SameCounts
    <3>2. m[j] = l[j]
      BY <1>1, SameCounts DEF C!Summaries
    <3> QED
      BY <1>0, <2>3, <3>1, <3>2
  <2> QED
    BY <2>1, <2>2, <2>3 DEF LinesGood, Slotted
<1>2. CASE m = Append(l, r)
  <2> DEFINE n == Len(l) + 1
  <2>1. /\ m \in Seq(Lines) /\ DOMAIN l = 1 .. Len(l) /\ Len(l) \in Nat
        /\ DOMAIN m = DOMAIN l \cup {n} /\ m[n] = r
        /\ \A i \in DOMAIN l : m[i] = l[i]
    BY <1>0, <1>2, AppendedLine
  <2>2. \A i \in DOMAIN l : i < n /\ ~ (n < i) /\ i # n
    BY <2>1
  <2>3. ~ (n < n)
    BY <2>1
  <2> HIDE DEF n
  <2>4. r.k = "U" => Honest(r)
    BY DEF Fits
  <2>5. FromPlan(m, p) /\ HonestLines(m)
    BY <1>0, <2>1, <2>4 DEF FromPlan, HonestLines
  <2>6. ASSUME NEW w, NEW u, NEW i \in C!Summaries(m, w, u), NEW j \in C!Summaries(m, w, u), i < j
        PROVE  Settled(m[j])
    <3>1. C!Summaries(m, w, u) = C!Summaries(l, w, u) \cup SummaryPlace(l, r, w, u)
      BY <1>0, <1>2, AppendedSummaries
    <3>2. C!Summaries(l, w, u) \subseteq DOMAIN l
      BY <1>0, <2>1, FiniteSummaries
    <3>3. CASE j \in C!Summaries(l, w, u)
      <4>1. j \in DOMAIN l /\ i # n
        BY <2>2, <2>6, <3>2, <3>3
      <4>2. i \in C!Summaries(l, w, u)
        BY <2>6, <3>1, <4>1 DEF SummaryPlace, Place, n
      <4> QED
        BY <1>0, <2>1, <2>6, <3>3, <4>1, <4>2
    <3>4. CASE j \notin C!Summaries(l, w, u)
      <4>1. j = n /\ r.k = "U" /\ r.p = w /\ r.u = u
        BY <2>6, <3>1, <3>4 DEF SummaryPlace, Place, n
      <4>2. i \in C!Summaries(l, w, u)
        BY <2>3, <2>6, <3>1, <4>1 DEF SummaryPlace, Place, n
      <4>3. Settled(r)
        BY <4>1, <4>2 DEF Fits
      <4> QED
        BY <2>1, <4>1, <4>3
    <3> QED
      BY <3>3, <3>4
  <2> QED
    BY <2>1, <2>5, <2>6 DEF LinesGood, Slotted
<1> QED
  BY <1>1, <1>2 DEF Wrote

(***************************************************************************)
(* Observations and their independent counts.                              *)
(***************************************************************************)

Count(j, f) ==
    IF f = "PCC" THEN j.prompts
    ELSE IF f = "RRR" THEN j.reviews ELSE IF f = "RRG" THEN j.reopens ELSE 0

Tallied(l, j, s) ==
    \A u \in Units : \A f \in Tracked : Balanced(l, u, f, s[u][f], Count(j[u], f))

Numbers(j, s) == \A u \in Units : \A f \in Tracked : s[u][f] \in Nat /\ Count(j[u], f) \in Nat

LEMMA TalliedOthers ==
    ASSUME NEW l, NEW m, NEW r, NEW j, NEW j2, NEW s, NEW s2,
           l \in Seq(Lines), r \in Entries \cup Tallies, Wrote(l, m, r),
           r.k = "U" \/ r.f \notin Tracked,
           Numbers(j, s), Tallied(l, j, s),
           \A u \in Units : \A f \in Tracked :
             /\ s2[u][f] = s[u][f]
             /\ \E d \in Nat : Count(j2[u], f) = Count(j[u], f) + d
    PROVE  Tallied(m, j2, s2)
<1> SUFFICES ASSUME NEW u \in Units, NEW f \in Tracked
             PROVE  Balanced(m, u, f, s2[u][f], Count(j2[u], f))
  BY DEF Tallied
<1>1. PICK d \in Nat : Count(j2[u], f) = Count(j[u], f) + d
  OBVIOUS
<1> DEFINE e == Count(j[u], f)
           x == s[u][f]
<1>2. x \in Nat /\ e \in Nat /\ s2[u][f] = x /\ Count(j2[u], f) = e + d
  BY <1>1 DEF Numbers
<1>3. Balanced(l, u, f, x, e)
  BY DEF Tallied
<1>4. Same(l, m) \/ (m = Append(l, r) /\ ~ (r.k # "U" /\ r.u = u /\ r.f = f))
  BY DEF Wrote
<1> HIDE DEF x, e
<1>5. Balanced(m, u, f, x, e + d)
  BY <1>2, <1>3, <1>4, OthersBalanced
<1> QED
  BY <1>2, <1>5

LEMMA TalliedObserved ==
    ASSUME NEW l, NEW m, NEW r, NEW j, NEW j2, NEW s, NEW s2, NEW v, NEW g, NEW d,
           l \in Seq(Lines), Wrote(l, m, r), Observes(r, v, g, d),
           Numbers(j, s), Tallied(l, j, s),
           \A u \in Units : \A f \in Tracked :
             IF u = v /\ f = g
             THEN s2[u][f] = s[u][f] + d /\ Count(j2[u], f) = Count(j[u], f) + 1
             ELSE s2[u][f] = s[u][f] /\ Count(j2[u], f) = Count(j[u], f)
    PROVE  Tallied(m, j2, s2)
<1> SUFFICES ASSUME NEW u \in Units, NEW f \in Tracked
             PROVE  Balanced(m, u, f, s2[u][f], Count(j2[u], f))
  BY DEF Tallied
<1> DEFINE e == Count(j[u], f)
           x == s[u][f]
<1>1. x \in Nat /\ e \in Nat
  BY DEF Numbers
<1>2. Balanced(l, u, f, x, e)
  BY DEF Tallied
<1>3. Same(l, m) \/ m = Append(l, r)
  BY DEF Wrote
<1>4. CASE u = v /\ f = g
  <2>1. s2[u][f] = x + d /\ Count(j2[u], f) = e + 1
    BY <1>4
  <2> HIDE DEF x, e
  <2>2. Observes(r, u, f, d)
    BY <1>4
  <2>3. Balanced(m, u, f, x + d, e + 1)
    BY <1>1, <1>2, <1>3, <2>2, ObservedBalanced
  <2> QED
    BY <2>1, <2>3
<1>5. CASE ~ (u = v /\ f = g)
  <2>1. s2[u][f] = x /\ Count(j2[u], f) = e
    BY <1>5
  <2> HIDE DEF x, e
  <2>2. r \in Entries \cup Tallies /\ ~ (r.k # "U" /\ r.u = u /\ r.f = f)
    BY <1>5 DEF Observes
  <2>3. Balanced(m, u, f, x, e + 0)
    BY <1>1, <1>2, <1>3, <2>2, OthersBalanced
  <2>4. e + 0 = e
    BY <1>1
  <2> QED
    BY <2>1, <2>3, <2>4
<1> QED
  BY <1>4, <1>5

LEMMA TalliedEmpty ==
    ASSUME NEW l, NEW j, NEW s, NEW s2, Numbers(j, s), Tallied(l, j, s), Numbers(j, s2),
           \A u \in Units : \A f \in Tracked : s2[u][f] <= s[u][f]
    PROVE  Tallied(<<>>, j, s2)
<1> SUFFICES ASSUME NEW u \in Units, NEW f \in Tracked
             PROVE  Balanced(<<>>, u, f, s2[u][f], Count(j[u], f))
  BY DEF Tallied
<1>1. s[u][f] <= Count(j[u], f)
  BY DEF Tallied, Balanced
<1>2. s[u][f] \in Nat /\ s2[u][f] \in Nat /\ Count(j[u], f) \in Nat
  BY DEF Numbers
<1>3. s2[u][f] <= Count(j[u], f)
  BY <1>1, <1>2
<1> QED
  BY <1>2, <1>3, EmptyBalanced

(***************************************************************************)
(* The state.                                                              *)
(***************************************************************************)

Places == C!Statuses \cup {"none"}
Journals == [prompts : Nat, reviews : Nat, reopens : Nat, at : Places \cup {"written"}]
Closings == [at : {"supersede"}, window : Nat, then : {"done", "clear"}, todo : SUBSET Units,
             whole : BOOLEAN]

StateType ==
    /\ work \in [Units -> Places] /\ journal \in [Units -> Journals]
    /\ archives \in Seq(Nat) /\ plan \in Nat
    /\ seen \in [Units -> [C!Families -> Nat]]
    /\ cmd \in {C!Idle, [at |-> "clear"], [at |-> "list"]} \cup Closings

\* A plan that is cleared away has left no evidence.
Cleared ==
    /\ surface = {} /\ ~ C!TasksLeft => log = <<>>
    /\ cmd.at = "clear" => log = <<>>

Review == \A u \in Units : work[u] = "in-review" => journal[u].at = "in-review"

\* While a window is being closed, those still to be summarized are approved and
\* have room, and if nothing was lost the others are settled.
Closing ==
    cmd \in Closings =>
      /\ \A u \in cmd.todo : /\ C!Approved(log, cmd.window, u)
                             /\ Cardinality(C!Summaries(log, cmd.window, u)) < Slots
      /\ cmd.whole => \A u \in Units \ cmd.todo :
           C!Approved(log, cmd.window, u) =>
             \E i \in C!Summaries(log, cmd.window, u) :
               /\ \A j \in C!Summaries(log, cmd.window, u) : j <= i
               /\ Settled(log[i])

LEMMA TypeNumbers ==
    ASSUME NEW j \in [Units -> Journals], NEW s \in [Units -> [C!Families -> Nat]]
    PROVE  Numbers(j, s)
<1> SUFFICES ASSUME NEW u \in Units, NEW f \in Tracked
             PROVE  s[u][f] \in Nat /\ Count(j[u], f) \in Nat
  BY DEF Numbers
<1>1. f \in C!Families
  BY DEF Tracked, C!Families
<1>2. j[u] \in Journals
  OBVIOUS
<1>3. Count(j[u], f) \in Nat
  BY <1>2 DEF Count, Journals
<1> QED
  BY <1>1, <1>3

\* A summary of the plan says what there is to say of its unit.
LEMMA SummaryFits ==
    ASSUME StateType, LinesGood(log, plan), Tallied(log, journal, seen),
           NEW u \in Units, NEW w \in Nat, NEW closed \in BOOLEAN
    PROVE  LET r == C!Summary(u, w, closed)
           IN  /\ r \in Tallies /\ r.p = w /\ r.u = u /\ r.plan = plan /\ Honest(r)
               /\ closed /\ C!Approved(log, w, u) => Settled(r)
<1> DEFINE r == C!Summary(u, w, closed)
           state == [f \in C!Families |-> C!State(u, f, w, closed)]
           count == [f \in C!Families |-> IF state[f] \in C!Uncounted THEN 0
                                          ELSE C!Cardinality(C!Counted(log, w, u, f))]
<1>1. /\ log \in Seq(Lines) /\ plan \in Nat /\ seen[u] \in [C!Families -> Nat]
      /\ journal[u] \in Journals
  BY DEF LinesGood, StateType
<1>2. state \in [C!Families -> States]
  BY DEF C!State, States
<1>3. count \in [C!Families -> Nat]
  BY <1>1, FiniteCounts, CardinalityIs
<1>4. r = [k |-> "U", p |-> w, u |-> u, plan |-> plan, state |-> state, count |-> count,
           truth |-> seen[u]]
  BY DEF C!Summary
<1>5. /\ \A f \in C!Families : state[f] = C!State(u, f, w, closed)
      /\ \A f \in C!Families : count[f] = IF state[f] \in C!Uncounted THEN 0
                                          ELSE Cardinality(C!Counted(log, w, u, f))
  BY CardinalityIs
<1> HIDE DEF state, count, r
<1>6. r \in Tallies /\ r.p = w /\ r.u = u /\ r.plan = plan
  BY <1>1, <1>2, <1>3, <1>4 DEF Tallies
<1>7. r.state = state /\ r.count = count /\ r.truth = seen[u]
  BY <1>4
<1>8. ASSUME NEW f \in Tracked, state[f] = "observed"
      PROVE  count[f] = seen[u][f]
  <2>1. f \in C!Families /\ f # "PAD"
    BY DEF Tracked, C!Families
  <2>2. C!State(u, f, w, closed) = "observed"
    BY <1>5, <1>8, <2>1
  <2>3. ~ (Cardinality(C!Of(log, w, u, f)) < C!Expected(u, f))
    BY <2>1, <2>2, CardinalityIs DEF C!State, C!Unavailable, C!Approved
  <2>4. C!Expected(u, f) = Count(journal[u], f)
    BY DEF C!Expected, Count
  <2>5. count[f] = Cardinality(C!Counted(log, w, u, f))
    BY <1>5, <1>8, <2>1 DEF C!Uncounted
  <2> DEFINE a == Cardinality(C!Of(log, w, u, f))
             b == Cardinality(C!Counted(log, w, u, f))
             e == Count(journal[u], f)
             x == seen[u][f]
  <2>6. a \in Nat /\ b \in Nat
    BY <1>1, FiniteCounts
  <2>7. e \in Nat /\ x \in Nat
    BY TypeNumbers DEF StateType, Numbers
  <2>8. Balanced(log, u, f, x, e)
    BY DEF Tallied
  <2>9. b <= x /\ x + a <= e + b
    BY <2>8 DEF Balanced
  <2>10. ~ (a < e)
    BY <2>3, <2>4
  <2> HIDE DEF a, b, e, x
  <2>11. b = x
    BY <2>6, <2>7, <2>9, <2>10
  <2> QED
    BY <2>5, <2>11 DEF b, x
<1>9. Honest(r)
  BY <1>7, <1>8 DEF Honest
<1>10. ASSUME closed, C!Approved(log, w, u)
       PROVE  Settled(r)
  <2>1. ~ (Cardinality(C!Of(log, w, u, "PAD")) < 0)
    <3>1. Cardinality(C!Of(log, w, u, "PAD")) \in Nat
      BY <1>1, FiniteCounts
    <3> QED
      BY <3>1
  <2>2. C!Expected(u, "PAD") = 0
    BY DEF C!Expected
  <2>3. C!State(u, "PAD", w, closed) = "observed"
    BY <1>10, <2>1, <2>2, CardinalityIs DEF C!State, C!Unavailable
  <2>4. "PAD" \in C!Families
    BY DEF C!Families
  <2> QED
    BY <1>5, <1>7, <2>3, <2>4 DEF Settled
<1> QED
  BY <1>6, <1>9, <1>10 DEF r

\* A record of what a boundary saw.
LEMMA EventFits ==
    ASSUME StateType, NEW u \in Units, NEW f \in C!Families,
           NEW x \in {"-", "approve", "request-changes", "D2"}
    PROVE  LET r == C!Event(u, f, x)
           IN  /\ r \in Entries /\ r.u = u /\ r.f = f /\ r.x = x /\ r.plan = plan
               /\ r.k # "U"
<1>1. C!Current \in Nat
  BY DEF C!Current, StateType
<1>2. plan \in Nat
  BY DEF StateType
<1> QED
  BY <1>1, <1>2 DEF C!Event, Entries

LEMMA JournalKept ==
    ASSUME NEW j, NEW u, NEW p, NEW n \in Nat, j \in [Units -> Journals], u \in Units,
           p \in Places \cup {"written"}
    PROVE  /\ [j EXCEPT ![u].prompts = @ + 1] \in [Units -> Journals]
           /\ [j EXCEPT ![u].reviews = @ + 1] \in [Units -> Journals]
           /\ [j EXCEPT ![u].at = p] \in [Units -> Journals]
           /\ [j EXCEPT ![u].at = p, ![u].reopens = @ + n] \in [Units -> Journals]
<1>1. j[u] \in Journals
  OBVIOUS
<1>2. [j[u] EXCEPT !.prompts = @ + 1] \in Journals
  BY <1>1 DEF Journals
<1>3. [j[u] EXCEPT !.reviews = @ + 1] \in Journals
  BY <1>1 DEF Journals
<1>4. [j[u] EXCEPT !.at = p] \in Journals
  BY <1>1 DEF Journals
<1>5. [[j[u] EXCEPT !.at = p] EXCEPT !.reopens = @ + n] \in Journals
  <2> DEFINE q == [j[u] EXCEPT !.at = p]
  <2>1. q \in Journals
    BY <1>4
  <2> HIDE DEF q
  <2>2. [q EXCEPT !.reopens = @ + n] \in Journals
    BY <2>1 DEF Journals
  <2> QED
    BY <2>2 DEF q
<1> HIDE DEF Journals
<1>6. [j EXCEPT ![u].at = p] \in [Units -> Journals]
  BY <1>4
<1>7. [j EXCEPT ![u].at = p, ![u].reopens = @ + n]
        = [j EXCEPT ![u] = [[j[u] EXCEPT !.at = p] EXCEPT !.reopens = @ + n]]
  BY <1>1
<1> QED
  BY <1>2, <1>3, <1>5, <1>6, <1>7

LEMMA SeenKept ==
    ASSUME NEW s, NEW u, NEW f, NEW n \in Nat, s \in [Units -> [C!Families -> Nat]],
           u \in Units, f \in C!Families
    PROVE  [s EXCEPT ![u][f] = @ + n] \in [Units -> [C!Families -> Nat]]
OBVIOUS

LEMMA StateTypeStep ==
    ASSUME StateType, C!Next
    PROVE  StateType'
<1> USE DEF StateType
<1>1. CASE C!MakePlan
  BY <1>1 DEF C!MakePlan, C!Nothing
<1>2. ASSUME NEW u \in Units, C!WriteTask(u) PROVE StateType'
  <2>1. work' \in [Units -> Places]
    BY <1>2 DEF C!WriteTask, Places, C!Statuses
  <2>2. journal' \in [Units -> Journals]
    <3> DEFINE p == IF journal[u].at = "none" THEN "written" ELSE journal[u].at
    <3>1. p \in Places \cup {"written"}
      BY DEF Journals
    <3>2. journal' = [journal EXCEPT ![u].at = p]
      BY <1>2 DEF C!WriteTask
    <3> HIDE DEF p
    <3> QED
      BY <3>1, <3>2, JournalKept
  <2> QED
    BY <1>2, <2>1, <2>2 DEF C!WriteTask
<1>3. ASSUME NEW u \in Units, C!WritePrompt(u) PROVE StateType'
  <2>1. journal' \in [Units -> Journals]
    BY <1>3, JournalKept DEF C!WritePrompt, Places
  <2>2. seen' \in [Units -> [C!Families -> Nat]]
    BY <1>3, SeenKept DEF C!WritePrompt, C!Saw, C!Families
  <2> QED
    BY <1>3, <2>1, <2>2 DEF C!WritePrompt, C!Boundary
<1>4. ASSUME NEW u \in Units, C!AgentReport(u) \/ C!DeleteReport(u) PROVE StateType'
  BY <1>4 DEF C!AgentReport, C!DeleteReport
<1>5. ASSUME NEW u \in Units, C!RouteBlocked(u) PROVE StateType'
  <2>1. seen' \in [Units -> [C!Families -> Nat]]
    BY <1>5, SeenKept DEF C!RouteBlocked, C!Saw, C!Families
  <2> QED
    BY <1>5, <2>1 DEF C!RouteBlocked, C!Boundary
<1>6. ASSUME NEW u \in Units, C!RecordPAD(u) PROVE StateType'
  <2>1. seen' \in [Units -> [C!Families -> Nat]]
    BY <1>6, SeenKept DEF C!RecordPAD, C!Saw, C!Families
  <2> QED
    BY <1>6, <2>1 DEF C!RecordPAD, C!Boundary
<1>7. ASSUME NEW u \in Units, NEW to \in C!Statuses, C!Move(u, to) PROVE StateType'
  <2>1. work' \in [Units -> Places]
    BY <1>7 DEF C!Move, Places
  <2>2. journal' \in [Units -> Journals]
    <3> DEFINE n == IF C!Reopens(journal[u].at, to) THEN 1 ELSE 0
    <3>1. n \in Nat
      OBVIOUS
    <3>2. journal' = [journal EXCEPT ![u].at = to, ![u].reopens = @ + n]
      BY <1>7 DEF C!Move
    <3> HIDE DEF n
    <3> QED
      BY <3>1, <3>2, JournalKept DEF Places
  <2>3. seen' \in [Units -> [C!Families -> Nat]]
    <3>1. seen' = [seen EXCEPT ![u]["RRG"] = @ + 1] \/ seen' = seen
      BY <1>7 DEF C!Move, C!Saw, C!Reopens
    <3>2. [seen EXCEPT ![u]["RRG"] = @ + 1] \in [Units -> [C!Families -> Nat]]
      BY SeenKept DEF C!Families
    <3> QED
      BY <3>1, <3>2
  <2> QED
    BY <1>7, <2>1, <2>2, <2>3 DEF C!Move, C!Boundary
<1>8. ASSUME NEW u \in Units, NEW v \in {"approve", "request-changes"}, NEW o \in BOOLEAN,
             C!Intake(u, v, o)
      PROVE  StateType'
  <2>1. journal' \in [Units -> Journals]
    BY <1>8, JournalKept DEF C!Intake, Places
  <2>2. seen' \in [Units -> [C!Families -> Nat]]
    <3> DEFINE a == IF v = "approve" THEN 0 ELSE 1
               b == IF o THEN 1 ELSE 0
               s == [seen EXCEPT ![u]["RRR"] = @ + a]
    <3>1. a \in Nat /\ b \in Nat
      OBVIOUS
    <3>2. seen' = [s EXCEPT ![u]["OMR"] = @ + b]
      BY <1>8 DEF C!Intake
    <3> HIDE DEF a, b
    <3>3. s \in [Units -> [C!Families -> Nat]]
      BY <3>1, SeenKept DEF C!Families
    <3> HIDE DEF s
    <3> QED
      BY <3>1, <3>2, <3>3, SeenKept DEF C!Families
  <2> QED
    BY <1>8, <2>1, <2>2 DEF C!Intake, C!Boundary
<1>9. CASE C!Supersede
  <2>1. cmd \in Closings
    BY <1>9 DEF C!Supersede, C!Idle
  <2>2. cmd' \in Closings
    BY <1>9, <2>1 DEF C!Supersede, Closings
  <2> QED
    BY <1>9, <2>2 DEF C!Supersede
<1>10. CASE C!ProjectAndDelete
  BY <1>10 DEF C!ProjectAndDelete
<1>11. CASE C!ArchiveLand
  BY <1>11 DEF C!ArchiveLand
<1>12. CASE C!ArchiveList
  <2>1. cmd' \in Closings
    BY <1>12 DEF C!ArchiveList, C!CloseWindow, C!Superseding, Closings
  <2> QED
    BY <1>12, <2>1 DEF C!ArchiveList
<1>13. CASE C!StartReset
  <2>1. cmd' \in Closings
    BY <1>13 DEF C!StartReset, C!CloseWindow, C!Superseding, C!Current, Closings
  <2> QED
    BY <1>13, <2>1 DEF C!StartReset
<1>14. CASE C!Clear
  <2>1. work' \in [Units -> Places]
    BY <1>14 DEF C!Clear, Places
  <2> QED
    BY <1>14, <2>1 DEF C!Clear
<1>15. CASE C!FinishReset
  BY <1>15 DEF C!FinishReset
<1>16. CASE C!Crash
  BY <1>16 DEF C!Crash
<1> QED
  BY <1>1, <1>2, <1>3, <1>4, <1>5, <1>6, <1>7, <1>8, <1>9, <1>10, <1>11, <1>12, <1>13, <1>14,
     <1>15, <1>16 DEF C!Next

LEMMA ReviewStep ==
    ASSUME StateType, Review, C!Next
    PROVE  Review'
<1> SUFFICES ASSUME NEW v \in Units, work'[v] = "in-review"
             PROVE  journal'[v].at = "in-review"
  BY DEF Review
<1>0. /\ work \in [Units -> Places] /\ journal \in [Units -> Journals]
      /\ work[v] = "in-review" => journal[v].at = "in-review"
  BY DEF StateType, Review
<1>1. ASSUME NEW u \in Units, C!WriteTask(u) PROVE journal'[v].at = "in-review"
  <2>1. work[u] = "none" /\ work' = [work EXCEPT ![u] = "open"]
    BY <1>1 DEF C!WriteTask
  <2>2. v # u /\ work[v] = "in-review"
    BY <1>0, <2>1
  <2>3. journal'[v] = journal[v]
    BY <1>0, <1>1, <2>2 DEF C!WriteTask
  <2> QED
    BY <1>0, <2>2, <2>3
<1>2. ASSUME NEW u \in Units, C!WritePrompt(u) PROVE journal'[v].at = "in-review"
  <2>1. work[v] = "in-review"
    BY <1>2 DEF C!WritePrompt
  <2>2. journal'[v].at = journal[v].at
    BY <1>0, <1>2 DEF C!WritePrompt, Journals
  <2> QED
    BY <1>0, <2>1, <2>2
<1>3. ASSUME NEW u \in Units, NEW to \in C!Statuses, C!Move(u, to)
      PROVE  journal'[v].at = "in-review"
  <2> DEFINE n == IF C!Reopens(journal[u].at, to) THEN 1 ELSE 0
  <2>1. /\ journal' = [journal EXCEPT ![u].at = to, ![u].reopens = @ + n]
        /\ work' = [work EXCEPT ![u] = to]
    BY <1>3 DEF C!Move
  <2> HIDE DEF n
  <2>2. CASE v = u
    <3>1. to = "in-review"
      BY <1>0, <2>1, <2>2
    <3>2. journal'[u].at = to
      BY <1>0, <2>1 DEF Journals
    <3> QED
      BY <2>2, <3>1, <3>2
  <2>3. CASE v # u
    BY <1>0, <2>1, <2>3
  <2> QED
    BY <2>2, <2>3
<1>4. ASSUME NEW u \in Units, NEW x \in {"approve", "request-changes"}, NEW o \in BOOLEAN,
             C!Intake(u, x, o)
      PROVE  journal'[v].at = "in-review"
  <2>1. work[v] = "in-review"
    BY <1>4 DEF C!Intake
  <2>2. journal'[v].at = journal[v].at
    BY <1>0, <1>4 DEF C!Intake, Journals
  <2> QED
    BY <1>0, <2>1, <2>2
<1>5. CASE C!Clear
  <2>1. journal' = journal /\ work[v] = "in-review"
    BY <1>0, <1>5 DEF C!Clear
  <2> QED
    BY <1>0, <2>1
<1>6. CASE UNCHANGED <<work, journal>>
  BY <1>0, <1>6
<1>7. ASSUME NEW u \in Units,
             C!AgentReport(u) \/ C!DeleteReport(u) \/ C!RouteBlocked(u) \/ C!RecordPAD(u)
      PROVE  UNCHANGED <<work, journal>>
  BY <1>7 DEF C!AgentReport, C!DeleteReport, C!RouteBlocked, C!RecordPAD
<1>8. ASSUME \/ C!MakePlan \/ C!Supersede \/ C!ProjectAndDelete \/ C!ArchiveLand \/ C!ArchiveList
             \/ C!StartReset \/ C!FinishReset \/ C!Crash
      PROVE  UNCHANGED <<work, journal>>
  BY <1>8 DEF C!MakePlan, C!Supersede, C!ProjectAndDelete, C!ArchiveLand, C!ArchiveList,
              C!StartReset, C!FinishReset, C!Crash
<1> QED
  BY <1>1, <1>2, <1>3, <1>4, <1>5, <1>6, <1>7, <1>8 DEF C!Next

\* An empty log has no unit approved and nothing to supersede.
LEMMA EmptyLog ==
    ASSUME NEW w, NEW u
    PROVE  ~ C!Approved(<<>>, w, u) /\ C!Summaries(<<>>, w, u) = {}
BY DEF C!Approved, C!Of, C!Ordinary, C!Summaries, C!Ledger

\* Whoever appends has a task, or closes a window that has an approved unit.
LEMMA ClearedStep ==
    ASSUME StateType, Cleared, Closing, C!Next
    PROVE  Cleared'
<1>0. /\ cmd \in {C!Idle, [at |-> "clear"], [at |-> "list"]} \cup Closings
      /\ work \in [Units -> Places]
  BY DEF StateType
<1>1. ASSUME NEW u \in Units, C!WriteTask(u) PROVE Cleared'
  <2>1. "plan" \in surface' /\ cmd' = C!Idle
    BY <1>1 DEF C!WriteTask
  <2> QED
    BY <2>1 DEF Cleared, C!Idle
<1>2. ASSUME NEW u \in Units, work'[u] # "none", cmd' = C!Idle PROVE Cleared'
  <2>1. C!TasksLeft'
    BY <1>2 DEF C!TasksLeft
  <2> QED
    BY <1>2, <2>1 DEF Cleared, C!Idle
<1>3. ASSUME NEW u \in Units, C!WritePrompt(u) \/ C!RouteBlocked(u) \/ C!RecordPAD(u)
      PROVE  Cleared'
  <2>1. work'[u] # "none" /\ cmd' = C!Idle
    BY <1>3 DEF C!WritePrompt, C!RouteBlocked, C!RecordPAD, C!Boundary
  <2> QED
    BY <1>2, <2>1
<1>4. ASSUME NEW u \in Units, NEW to \in C!Statuses, C!Move(u, to) PROVE Cleared'
  <2>1. work'[u] # "none" /\ cmd' = C!Idle
    BY <1>0, <1>4 DEF C!Move, C!Boundary, C!Statuses
  <2> QED
    BY <1>2, <2>1
<1>5. ASSUME NEW u \in Units, NEW x \in {"approve", "request-changes"}, NEW o \in BOOLEAN,
             C!Intake(u, x, o)
      PROVE  Cleared'
  <2>1. work'[u] # "none" /\ cmd' = C!Idle
    BY <1>5 DEF C!Intake, C!Boundary
  <2> QED
    BY <1>2, <2>1
<1>6. ASSUME log' = log, surface' = surface, work' = work, cmd'.at = "clear" => cmd.at = "clear"
      PROVE  Cleared'
  BY <1>6 DEF Cleared, C!TasksLeft
<1>7. ASSUME NEW u \in Units, C!AgentReport(u) \/ C!DeleteReport(u) PROVE Cleared'
  BY <1>6, <1>7 DEF C!AgentReport, C!DeleteReport
<1>8. ASSUME C!ArchiveLand \/ C!ArchiveList \/ C!StartReset \/ C!FinishReset \/ C!Crash
      PROVE  Cleared'
  <2>1. /\ log' = log /\ surface' = surface /\ work' = work
        /\ cmd'.at \in {"list", "supersede", "idle"}
    BY <1>8 DEF C!ArchiveLand, C!ArchiveList, C!StartReset, C!FinishReset, C!Crash, C!CloseWindow,
                C!Idle
  <2> QED
    BY <1>6, <2>1
<1>9. CASE C!MakePlan
  <2>1. log' = <<>>
    BY <1>9 DEF C!MakePlan, Cleared
  <2> QED
    BY <2>1 DEF Cleared
<1>10. CASE C!ProjectAndDelete
  <2>1. log' = <<>>
    BY <1>10 DEF C!ProjectAndDelete
  <2> QED
    BY <2>1 DEF Cleared
<1>11. CASE C!Clear
  <2>1. log' = <<>>
    BY <1>11 DEF C!Clear, Cleared
  <2> QED
    BY <2>1 DEF Cleared
<1>12. CASE C!Supersede
  <2>1. cmd \in Closings /\ cmd.todo # {}
    BY <1>0, <1>12 DEF C!Supersede, C!Idle
  <2>2. log # <<>>
    BY <2>1, EmptyLog DEF Closing
  <2>3. ~ (surface = {} /\ ~ C!TasksLeft)
    BY <2>2 DEF Cleared
  <2>4. ~ (surface' = {} /\ ~ C!TasksLeft')
    BY <1>12, <2>3 DEF C!Supersede, C!TasksLeft
  <2>5. cmd'.at = "supersede"
    BY <1>12, <2>1 DEF C!Supersede, Closings
  <2> QED
    BY <2>4, <2>5 DEF Cleared
<1> QED
  BY <1>1, <1>3, <1>4, <1>5, <1>7, <1>8, <1>9, <1>10, <1>11, <1>12 DEF C!Next

(***************************************************************************)
(* What is in the ledger.                                                  *)
(***************************************************************************)

\* The facts about the current state that the steps below use.
LEMMA Present ==
    ASSUME StateType, LinesGood(log, plan), Tallied(log, journal, seen)
    PROVE  /\ log \in Seq(Lines) /\ Numbers(journal, seen)
           /\ work \in [Units -> Places] /\ journal \in [Units -> Journals]
           /\ seen \in [Units -> [C!Families -> Nat]]
           /\ \A u \in Units : journal[u] \in Journals /\ seen[u] \in [C!Families -> Nat]
BY TypeNumbers DEF StateType, LinesGood

\* A boundary that records what it saw of a family, known already or not.
LEMMA ObservedStep ==
    ASSUME StateType, NEW u \in Units, NEW f \in C!Families,
           NEW x \in {"-", "approve", "request-changes", "D2"}, NEW l, LinesGood(l, plan),
           NEW m, NEW j, NEW s, NEW j2, NEW s2, NEW d \in {0, 1},
           Numbers(j, s), Tallied(l, j, s), Wrote(l, m, C!Event(u, f, x)),
           d = 0 <=> (f = "RRR" /\ x = "approve"),
           \A v \in Units : \A g \in Tracked :
             IF v = u /\ g = f
             THEN s2[v][g] = s[v][g] + d /\ Count(j2[v], g) = Count(j[v], g) + 1
             ELSE s2[v][g] = s[v][g] /\ Count(j2[v], g) = Count(j[v], g)
    PROVE  LinesGood(m, plan) /\ Tallied(m, j2, s2)
<1> DEFINE r == C!Event(u, f, x)
<1>1. r \in Entries /\ r.u = u /\ r.f = f /\ r.x = x /\ r.plan = plan /\ r.k # "U"
  BY EventFits
<1> HIDE DEF r
<1>2. Fits(l, r, plan)
  BY <1>1 DEF Fits
<1>3. Observes(r, u, f, d)
  BY <1>1 DEF Observes
<1>4. l \in Seq(Lines)
  BY DEF LinesGood
<1>5. Wrote(l, m, r)
  BY DEF r
<1>6. LinesGood(m, plan)
  BY <1>2, <1>5, LinesKept
<1>7. Tallied(m, j2, s2)
  BY <1>3, <1>4, <1>5, TalliedObserved
<1> QED
  BY <1>6, <1>7

\* A boundary whose record no tracked family counts.
LEMMA UntrackedStep ==
    ASSUME StateType, NEW u \in Units, NEW f \in C!Families,
           NEW x \in {"-", "approve", "request-changes", "D2"}, NEW l, LinesGood(l, plan),
           NEW m, NEW j, NEW s, NEW s2, f \notin Tracked,
           Numbers(j, s), Tallied(l, j, s), Wrote(l, m, C!Event(u, f, x)),
           \A v \in Units : \A g \in Tracked : s2[v][g] = s[v][g]
    PROVE  LinesGood(m, plan) /\ Tallied(m, j, s2)
<1> DEFINE r == C!Event(u, f, x)
<1>1. r \in Entries /\ r.f = f /\ r.plan = plan /\ r.k # "U"
  BY EventFits
<1> HIDE DEF r
<1>2. Fits(l, r, plan) /\ r \in Entries \cup Tallies /\ r.f \notin Tracked
  BY <1>1 DEF Fits
<1>3. l \in Seq(Lines)
  BY DEF LinesGood
<1>4. Wrote(l, m, r)
  BY DEF r
<1>5. \A v \in Units : \A g \in Tracked : \E d \in Nat : Count(j[v], g) = Count(j[v], g) + d
  <2> SUFFICES ASSUME NEW v \in Units, NEW g \in Tracked
               PROVE  Count(j[v], g) = Count(j[v], g) + 0
    OBVIOUS
  <2>1. Count(j[v], g) \in Nat
    BY DEF Numbers
  <2> QED
    BY <2>1
<1>6. LinesGood(m, plan)
  BY <1>2, <1>4, LinesKept
<1>7. Tallied(m, j, s2)
  BY <1>2, <1>3, <1>4, <1>5, TalliedOthers
<1> QED
  BY <1>6, <1>7

\* A summary written for a unit, or nothing.
LEMMA SummaryStep ==
    ASSUME StateType, LinesGood(log, plan), Tallied(log, journal, seen),
           NEW u \in Units, NEW w \in Nat, NEW closed \in BOOLEAN, NEW m, NEW j2,
           Wrote(log, m, C!Summary(u, w, closed)),
           C!Summaries(log, w, u) # {} => closed /\ C!Approved(log, w, u),
           \A v \in Units : \A g \in Tracked :
             \E d \in Nat : Count(j2[v], g) = Count(journal[v], g) + d
    PROVE  LinesGood(m, plan) /\ Tallied(m, j2, seen)
<1> DEFINE r == C!Summary(u, w, closed)
<1>1. /\ r \in Tallies /\ r.p = w /\ r.u = u /\ r.plan = plan /\ Honest(r)
      /\ closed /\ C!Approved(log, w, u) => Settled(r)
  BY SummaryFits
<1> HIDE DEF r
<1>2. r.k = "U" /\ r \in Entries \cup Tallies
  BY <1>1 DEF Tallies
<1>3. Fits(log, r, plan)
  BY <1>1, <1>2 DEF Fits
<1>4. log \in Seq(Lines) /\ Numbers(journal, seen)
  BY Present
<1>5. Wrote(log, m, r)
  BY DEF r
<1>6. LinesGood(m, plan)
  BY <1>3, <1>5, LinesKept
<1>7. Tallied(m, j2, seen)
  BY <1>2, <1>4, <1>5, TalliedOthers
<1> QED
  BY <1>6, <1>7

LEMMA PromptStep ==
    ASSUME StateType, LinesGood(log, plan), Tallied(log, journal, seen),
           NEW u \in Units, C!WritePrompt(u)
    PROVE  LinesGood(log, plan)' /\ Tallied(log, journal, seen)'
<1>1. Numbers(journal, seen) /\ log \in Seq(Lines)
  BY Present
<1>2. PICK fault \in C!Faults : log' = C!Emit(log, C!Event(u, "PCC", "-"), fault)
  BY DEF C!WritePrompt
<1>3. "PCC" \in C!Families /\ plan' = plan
  BY DEF C!WritePrompt, C!Boundary, C!Families
<1>4. C!Event(u, "PCC", "-") \in Entries \cup Tallies
  BY <1>3, EventFits
<1>5. Wrote(log, log', C!Event(u, "PCC", "-"))
  BY <1>1, <1>2, <1>4, EmittedWrote
<1>6. ASSUME NEW v \in Units, NEW g \in Tracked
      PROVE  IF v = u /\ g = "PCC"
             THEN seen'[v][g] = seen[v][g] + 1 /\ Count(journal'[v], g) = Count(journal[v], g) + 1
             ELSE seen'[v][g] = seen[v][g] /\ Count(journal'[v], g) = Count(journal[v], g)
  <2>1. g \in C!Families
    BY DEF Tracked, C!Families
  <2>2. IF v = u /\ g = "PCC" THEN seen'[v][g] = seen[v][g] + 1 ELSE seen'[v][g] = seen[v][g]
    BY <1>3, <2>1, Present DEF C!WritePrompt, C!Saw
  <2>3. IF v = u /\ g = "PCC" THEN Count(journal'[v], g) = Count(journal[v], g) + 1
                             ELSE Count(journal'[v], g) = Count(journal[v], g)
    BY Present DEF C!WritePrompt, Count, Journals
  <2> QED
    BY <2>2, <2>3
<1>7. LinesGood(log', plan) /\ Tallied(log', journal', seen')
  BY <1>1, <1>3, <1>5, <1>6, ObservedStep
<1> QED
  BY <1>3, <1>7

LEMMA IntakeStep ==
    ASSUME StateType, LinesGood(log, plan), Tallied(log, journal, seen),
           NEW u \in Units, NEW x \in {"approve", "request-changes"}, NEW o \in BOOLEAN,
           C!Intake(u, x, o)
    PROVE  LinesGood(log, plan)' /\ Tallied(log, journal, seen)'
<1> DEFINE rrr == C!Event(u, "RRR", x)
           omr == C!Event(u, "OMR", "D2")
           d == IF x = "approve" THEN 0 ELSE 1
           n == IF o THEN 1 ELSE 0
           s == [seen EXCEPT ![u]["RRR"] = @ + d]
<1>0. /\ "RRR" \in C!Families /\ "OMR" \in C!Families /\ plan' = plan
      /\ "OMR" \notin Tracked
  BY DEF C!Intake, C!Boundary, C!Families, Tracked
<1>1. Numbers(journal, seen) /\ log \in Seq(Lines)
  BY Present
<1>2. rrr \in Entries \cup Tallies /\ omr \in Entries \cup Tallies
  BY <1>0, EventFits
<1>3. d \in {0, 1} /\ (d = 0 <=> x = "approve") /\ n \in Nat
  OBVIOUS
<1>4. seen' = [s EXCEPT ![u]["OMR"] = @ + n]
  BY DEF C!Intake
<1> HIDE DEF rrr, omr, d, n, s
<1>5. PICK fault, l : /\ l = log \/ l = C!Emit(log, rrr, fault)
                      /\ log' = l \/ log' = C!Emit(l, omr, fault)
  <2>1. PICK fault \in C!Faults, sameDay \in BOOLEAN :
          LET one(l, r) == IF C!Known(r, sameDay) THEN l ELSE C!Emit(l, r, fault)
          IN  log' = IF o THEN one(one(log, rrr), omr) ELSE one(log, rrr)
    BY DEF C!Intake, rrr, omr
  <2> QED
    BY <2>1
<1>6. Wrote(log, l, rrr)
  BY <1>1, <1>2, <1>5, EmittedWrote, WroteItself
<1>7. s \in [Units -> [C!Families -> Nat]]
  <2>1. d \in Nat
    BY <1>3
  <2>2. seen \in [Units -> [C!Families -> Nat]]
    BY DEF StateType
  <2> QED
    BY <1>0, <2>1, <2>2, SeenKept DEF s
<1>8. ASSUME NEW v \in Units, NEW g \in Tracked
      PROVE  IF v = u /\ g = "RRR"
             THEN s[v][g] = seen[v][g] + d /\ Count(journal'[v], g) = Count(journal[v], g) + 1
             ELSE s[v][g] = seen[v][g] /\ Count(journal'[v], g) = Count(journal[v], g)
  <2>1. g \in C!Families
    BY DEF Tracked, C!Families
  <2>2. IF v = u /\ g = "RRR" THEN s[v][g] = seen[v][g] + d ELSE s[v][g] = seen[v][g]
    BY <1>0, <2>1, Present DEF s
  <2>3. IF v = u /\ g = "RRR" THEN Count(journal'[v], g) = Count(journal[v], g) + 1
                             ELSE Count(journal'[v], g) = Count(journal[v], g)
    BY Present DEF C!Intake, Count, Journals
  <2> QED
    BY <2>2, <2>3
<1>9. LinesGood(l, plan) /\ Tallied(l, journal', s)
  BY <1>0, <1>1, <1>3, <1>6, <1>8, ObservedStep DEF rrr
<1>10. Wrote(l, log', omr)
  BY <1>2, <1>5, <1>9, EmittedWrote, WroteItself DEF LinesGood
<1>11. \A v \in Units : \A g \in Tracked : seen'[v][g] = s[v][g]
  <2> SUFFICES ASSUME NEW v \in Units, NEW g \in Tracked PROVE seen'[v][g] = s[v][g]
    OBVIOUS
  <2>1. g \in C!Families /\ g # "OMR"
    BY DEF Tracked, C!Families
  <2> QED
    BY <1>0, <1>4, <1>7, <2>1
<1>12. Numbers(journal', s)
  <2>1. StateType'
    <3>1. C!Next
      BY DEF C!Next
    <3> QED
      BY <3>1, StateTypeStep
  <2> QED
    BY <1>7, <2>1, TypeNumbers DEF StateType
<1>13. LinesGood(log', plan) /\ Tallied(log', journal', seen')
  BY <1>0, <1>9, <1>10, <1>11, <1>12, UntrackedStep DEF omr
<1> QED
  BY <1>0, <1>13

LEMMA RecordedStep ==
    ASSUME StateType, LinesGood(log, plan), Tallied(log, journal, seen),
           NEW u \in Units, C!RouteBlocked(u) \/ C!RecordPAD(u)
    PROVE  LinesGood(log, plan)' /\ Tallied(log, journal, seen)'
<1>1. PICK f, fault :
        /\ f \in {"CLR", "PAD"}
        /\ log' = log \/ log' = C!Emit(log, C!Event(u, f, "-"), fault)
        /\ seen' = [seen EXCEPT ![u][f] = @ + 1]
        /\ journal' = journal /\ plan' = plan
  BY DEF C!RouteBlocked, C!RecordPAD, C!Boundary, C!Saw
<1>2. f \in C!Families /\ f \notin Tracked
  BY <1>1 DEF C!Families, Tracked
<1>3. Numbers(journal, seen) /\ log \in Seq(Lines)
  BY Present
<1>4. C!Event(u, f, "-") \in Entries \cup Tallies
  BY <1>2, EventFits
<1>5. Wrote(log, log', C!Event(u, f, "-"))
  BY <1>1, <1>3, <1>4, EmittedWrote, WroteItself
<1>6. \A v \in Units : \A g \in Tracked : seen'[v][g] = seen[v][g]
  <2> SUFFICES ASSUME NEW v \in Units, NEW g \in Tracked PROVE seen'[v][g] = seen[v][g]
    OBVIOUS
  <2>1. g \in C!Families /\ g # f
    BY <1>2 DEF Tracked, C!Families
  <2> QED
    BY <1>1, <1>2, <2>1, Present
<1>7. LinesGood(log', plan) /\ Tallied(log', journal, seen')
  BY <1>2, <1>3, <1>5, <1>6, UntrackedStep
<1> QED
  BY <1>1, <1>7

\* Nothing is recorded, and the independent counts may run ahead.
LEMMA QuietStep ==
    ASSUME StateType, LinesGood(log, plan), Tallied(log, journal, seen), NEW j2,
           \A v \in Units : \A g \in Tracked :
             \E d \in Nat : Count(j2[v], g) = Count(journal[v], g) + d
    PROVE  Tallied(log, j2, seen)
<1> SUFFICES ASSUME NEW u \in Units PROVE Tallied(log, j2, seen)
  BY DEF Tallied
<1> DEFINE r == C!Event(u, "CLR", "-")
<1>1. r \in Entries \cup Tallies /\ r.f \notin Tracked
  <2>1. "CLR" \in C!Families /\ "CLR" \notin Tracked
    BY DEF C!Families, Tracked
  <2> QED
    BY <2>1, EventFits
<1> HIDE DEF r
<1>2. log \in Seq(Lines) /\ Numbers(journal, seen)
  BY Present
<1>3. Wrote(log, log, r)
  BY <1>2, WroteItself
<1> QED
  BY <1>1, <1>2, <1>3, TalliedOthers

\* The journal counts at least the reopens there were: what it says of a unit in
\* review is that it is in review.
LEMMA MoveStep ==
    ASSUME StateType, Review, LinesGood(log, plan), Tallied(log, journal, seen),
           NEW u \in Units, NEW to \in C!Statuses, C!Move(u, to)
    PROVE  LinesGood(log, plan)' /\ Tallied(log, journal, seen)'
<1> DEFINE n == IF C!Reopens(journal[u].at, to) THEN 1 ELSE 0
<1>1. plan' = plan /\ C!Current \in Nat /\ log \in Seq(Lines) /\ Numbers(journal, seen)
  BY Present DEF C!Move, C!Boundary, C!Current, StateType
<1>2. ASSUME NEW v \in Units, NEW g \in Tracked
      PROVE  Count(journal'[v], g) = IF v = u /\ g = "RRG" THEN Count(journal[v], g) + n
                                                          ELSE Count(journal[v], g)
  <2>1. journal' = [journal EXCEPT ![u].at = to, ![u].reopens = @ + n]
    BY DEF C!Move
  <2>2. n \in Nat
    OBVIOUS
  <2> HIDE DEF n
  <2> QED
    BY <2>1, <2>2, Present DEF Count, Journals, Tracked
<1>3. CASE C!Reopens(work[u], to)
  <2>1. PICK fault \in C!Faults : log' = C!Emit(log, C!Event(u, "RRG", "-"), fault)
    BY <1>3 DEF C!Move, C!Reopens
  <2>2. "RRG" \in C!Families
    BY DEF C!Families
  <2>3. C!Event(u, "RRG", "-") \in Entries \cup Tallies
    BY <2>2, EventFits
  <2>4. Wrote(log, log', C!Event(u, "RRG", "-"))
    BY <1>1, <2>1, <2>3, EmittedWrote
  <2>5. n = 1
    <3>1. work[u] = "in-review" /\ to \in {"in-progress", "open"}
      BY <1>3 DEF C!Reopens
    <3>2. journal[u].at = "in-review"
      BY <3>1 DEF Review
    <3> QED
      BY <3>1, <3>2 DEF C!Reopens
  <2>6. seen' = [seen EXCEPT ![u]["RRG"] = @ + 1]
    BY <1>3 DEF C!Move, C!Saw, C!Reopens
  <2> HIDE DEF n
  <2>7. ASSUME NEW v \in Units, NEW g \in Tracked
        PROVE  IF v = u /\ g = "RRG"
               THEN seen'[v][g] = seen[v][g] + 1
                      /\ Count(journal'[v], g) = Count(journal[v], g) + 1
               ELSE seen'[v][g] = seen[v][g] /\ Count(journal'[v], g) = Count(journal[v], g)
    <3>1. g \in C!Families
      BY DEF Tracked, C!Families
    <3>2. IF v = u /\ g = "RRG" THEN seen'[v][g] = seen[v][g] + 1 ELSE seen'[v][g] = seen[v][g]
      BY <2>2, <2>6, <3>1, Present
    <3> QED
      BY <1>2, <2>5, <3>2
  <2>8. LinesGood(log', plan) /\ Tallied(log', journal', seen')
    BY <1>1, <2>2, <2>4, <2>7, ObservedStep
  <2> QED
    BY <1>1, <2>8
<1>4. CASE ~ C!Reopens(work[u], to)
  <2>1. seen' = seen
    BY <1>4 DEF C!Move, C!Reopens
  <2>2. \A v \in Units : \A g \in Tracked :
          \E d \in Nat : Count(journal'[v], g) = Count(journal[v], g) + d
    <3> SUFFICES ASSUME NEW v \in Units, NEW g \in Tracked
                 PROVE  \E d \in Nat : Count(journal'[v], g) = Count(journal[v], g) + d
      OBVIOUS
    <3>1. n \in Nat /\ 0 \in Nat /\ Count(journal[v], g) \in Nat
      BY <1>1 DEF Numbers
    <3> HIDE DEF n
    <3>2. Count(journal[v], g) = Count(journal[v], g) + 0
      BY <3>1
    <3> QED
      BY <1>2, <3>1, <3>2
  <2>3. CASE log' = log
    <3>1. Tallied(log, journal', seen)
      BY <2>2, QuietStep
    <3> QED
      BY <1>1, <2>1, <2>3, <3>1
  <2>4. CASE log' # log
    <3>1. PICK fault \in C!Faults : log' = C!SummarizeUnit(u, fault)
      BY <1>4, <2>4 DEF C!Move, C!Reopens
    <3> DEFINE w == C!Current
               no == FALSE
    <3>2. C!Summaries(log, w, u) = {} /\ log' = C!Emit(log, C!Summary(u, w, no), fault)
      BY <2>4, <3>1 DEF C!SummarizeUnit
    <3>3. w \in Nat /\ no \in BOOLEAN
      BY <1>1
    <3> HIDE DEF w, no
    <3>4. C!Summary(u, w, no) \in Entries \cup Tallies
      BY <3>3, SummaryFits
    <3>5. Wrote(log, log', C!Summary(u, w, no))
      BY <1>1, <3>2, <3>4, EmittedWrote
    <3>6. LinesGood(log', plan) /\ Tallied(log', journal', seen)
      BY <2>2, <3>2, <3>3, <3>5, SummaryStep
    <3> QED
      BY <1>1, <2>1, <3>6
  <2> QED
    BY <2>3, <2>4
<1> QED
  BY <1>3, <1>4

LEMMA SupersedeStep ==
    ASSUME StateType, Closing, LinesGood(log, plan), Tallied(log, journal, seen), C!Supersede
    PROVE  LinesGood(log, plan)' /\ Tallied(log, journal, seen)'
<1>1. cmd \in Closings
  BY DEF StateType, C!Supersede, C!Idle
<1>2. PICK u \in cmd.todo, fault \in C!Faults :
        log' = C!Emit(log, C!Summary(u, cmd.window, TRUE), fault)
  BY DEF C!Supersede
<1>3. u \in Units /\ cmd.window \in Nat
  BY <1>1, <1>2 DEF Closings
<1>4. C!Approved(log, cmd.window, u)
  BY <1>1, <1>2 DEF Closing
<1>5. log \in Seq(Lines) /\ Numbers(journal, seen)
  BY Present
<1>6. C!Summary(u, cmd.window, TRUE) \in Entries \cup Tallies
  BY <1>3, SummaryFits
<1>7. Wrote(log, log', C!Summary(u, cmd.window, TRUE))
  BY <1>2, <1>5, <1>6, EmittedWrote
<1>8. \A v \in Units : \A g \in Tracked :
        \E d \in Nat : Count(journal[v], g) = Count(journal[v], g) + d
  <2> SUFFICES ASSUME NEW v \in Units, NEW g \in Tracked
               PROVE  Count(journal[v], g) = Count(journal[v], g) + 0
    OBVIOUS
  <2>1. Count(journal[v], g) \in Nat
    BY <1>5 DEF Numbers
  <2> QED
    BY <2>1
<1>9. LinesGood(log', plan) /\ Tallied(log', journal, seen)
  BY <1>3, <1>4, <1>7, <1>8, SummaryStep
<1> QED
  BY <1>9 DEF C!Supersede

LEMMA LinesEmpty ==
    ASSUME NEW p
    PROVE  LinesGood(<<>>, p)
<1>1. <<>> \in Seq(Lines)
  OBVIOUS
<1>2. FromPlan(<<>>, p) /\ HonestLines(<<>>)
  BY DEF FromPlan, HonestLines
<1>3. Slotted(<<>>)
  BY EmptyLog DEF Slotted
<1> QED
  BY <1>1, <1>2, <1>3 DEF LinesGood

LEMMA RecordsStep ==
    ASSUME StateType, Review, Cleared, Closing, LinesGood(log, plan),
           Tallied(log, journal, seen), C!Next
    PROVE  LinesGood(log, plan)' /\ Tallied(log, journal, seen)'
<1>1. CASE C!MakePlan
  <2>1. log = <<>> /\ log' = <<>> /\ seen' = C!Nothing /\ journal' = journal
    BY <1>1 DEF C!MakePlan, Cleared
  <2>2. Numbers(journal, seen)
    BY Present
  <2>3. \A v \in Units : \A g \in Tracked : seen'[v][g] = 0
    BY <2>1 DEF C!Nothing, Tracked, C!Families
  <2>4. Numbers(journal, seen') /\ \A v \in Units : \A g \in Tracked : seen'[v][g] <= seen[v][g]
    BY <2>2, <2>3 DEF Numbers
  <2>5. Tallied(<<>>, journal, seen')
    BY <2>2, <2>4, TalliedEmpty, <2>1
  <2> QED
    BY <2>1, <2>5, LinesEmpty
<1>2. CASE C!ProjectAndDelete
  <2>1. log' = <<>> /\ seen' = seen /\ journal' = journal
    BY <1>2 DEF C!ProjectAndDelete
  <2>2. Numbers(journal, seen)
    BY Present
  <2>3. \A v \in Units : \A g \in Tracked : seen[v][g] <= seen[v][g]
    BY <2>2 DEF Numbers
  <2>4. Tallied(<<>>, journal, seen)
    BY <2>2, <2>3, TalliedEmpty
  <2> QED
    BY <2>1, <2>4, LinesEmpty
<1>3. ASSUME NEW u \in Units, C!WriteTask(u)
      PROVE  LinesGood(log, plan)' /\ Tallied(log, journal, seen)'
  <2>1. log' = log /\ plan' = plan /\ seen' = seen
    BY <1>3 DEF C!WriteTask
  <2>2. \A v \in Units : \A g \in Tracked :
          \E d \in Nat : Count(journal'[v], g) = Count(journal[v], g) + d
    <3> SUFFICES ASSUME NEW v \in Units, NEW g \in Tracked
                 PROVE  Count(journal'[v], g) = Count(journal[v], g) + 0
      OBVIOUS
    <3>1. Count(journal[v], g) \in Nat
      BY Present DEF Numbers
    <3>2. Count(journal'[v], g) = Count(journal[v], g)
      BY <1>3, Present DEF C!WriteTask, Count, Journals
    <3> QED
      BY <3>1, <3>2
  <2> QED
    BY <2>1, <2>2, QuietStep
<1>4. ASSUME UNCHANGED <<log, plan, seen, journal>>
      PROVE  LinesGood(log, plan)' /\ Tallied(log, journal, seen)'
  BY <1>4
<1>5. ASSUME NEW u \in Units, C!AgentReport(u) \/ C!DeleteReport(u)
      PROVE  UNCHANGED <<log, plan, seen, journal>>
  BY <1>5 DEF C!AgentReport, C!DeleteReport
<1>6. ASSUME \/ C!ArchiveLand \/ C!ArchiveList \/ C!StartReset \/ C!Clear \/ C!FinishReset
             \/ C!Crash
      PROVE  UNCHANGED <<log, plan, seen, journal>>
  BY <1>6 DEF C!ArchiveLand, C!ArchiveList, C!StartReset, C!Clear, C!FinishReset, C!Crash
<1> QED
  BY <1>1, <1>2, <1>3, <1>4, <1>5, <1>6, PromptStep, IntakeStep, RecordedStep, MoveStep,
     SupersedeStep DEF C!Next

(***************************************************************************)
(* The close of a window.                                                  *)
(***************************************************************************)

\* Of two places one is the later.
LEMMA LaterPlace ==
    ASSUME NEW n \in Nat, NEW S, S \subseteq 1 .. n, Cardinality(S) >= 2
    PROVE  \E i, j \in S : j < i /\ \A k \in S : k <= i
<1>1. S # {}
  <2>1. ~ (0 >= 2)
    OBVIOUS
  <2> QED
    BY <2>1, FS_EmptySet
<1>2. PICK i \in S : \A k \in S : k <= i
  BY <1>1, GreatestPlace
<1>3. S # {i}
  <2>1. ~ (1 >= 2)
    OBVIOUS
  <2> QED
    BY <2>1, FS_Singleton
<1>4. PICK j \in S : j # i
  BY <1>3
<1>5. j < i
  BY <1>2, <1>4
<1> QED
  BY <1>2, <1>5

LEMMA WindowCloses ==
    ASSUME LinesGood(log, plan), NEW w \in Nat, NEW then \in {"done", "clear"},
           cmd' = C!CloseWindow(w, then), log' = log
    PROVE  Closing'
<1>1. /\ cmd'.window = w /\ cmd'.todo = C!Superseding(w)
  BY DEF C!CloseWindow
<1>2. ASSUME NEW u \in C!Superseding(w)
      PROVE  C!Approved(log, w, u) /\ Cardinality(C!Summaries(log, w, u)) < Slots
  BY <1>2, CardinalityIs DEF C!Superseding
<1>3. ASSUME NEW u \in Units \ C!Superseding(w), C!Approved(log, w, u)
      PROVE  \E i \in C!Summaries(log, w, u) :
               (\A j \in C!Summaries(log, w, u) : j <= i) /\ Settled(log[i])
  <2> DEFINE S == C!Summaries(log, w, u)
  <2>1. log \in Seq(Lines) /\ Len(log) \in Nat
    BY DEF LinesGood
  <2>2. S \subseteq 1 .. Len(log) /\ Cardinality(S) \in Nat
    BY <2>1, FiniteSummaries
  <2>3. ~ (Cardinality(S) < Slots)
    BY <1>3, CardinalityIs DEF C!Superseding
  <2> HIDE DEF S
  <2>4. Cardinality(S) >= 2
    BY <2>2, <2>3, HostedAssumption
  <2>5. PICK i, j \in S : j < i /\ \A k \in S : k <= i
    BY <2>1, <2>2, <2>4, LaterPlace
  <2>6. Settled(log[i])
    BY <2>5 DEF LinesGood, Slotted, S
  <2> QED
    BY <2>5, <2>6 DEF S
<1> QED
  BY <1>1, <1>2, <1>3 DEF Closing

\* A summary approves nobody.
LEMMA SummaryApproves ==
    ASSUME NEW l, NEW m, NEW r, NEW w, NEW v, l \in Seq(Lines), r \in Tallies, Wrote(l, m, r)
    PROVE  C!Approved(m, w, v) <=> C!Approved(l, w, v)
<1>1. CASE Same(l, m)
  BY <1>1, SameCounts
<1>2. CASE m = Append(l, r)
  <2>1. r.k = "U" /\ r \in Entries \cup Tallies
    BY DEF Tallies
  <2>2. \A i \in DOMAIN l : m[i] = l[i]
    BY <1>2, <2>1, AppendedLine DEF Lines
  <2>3. C!Of(m, w, v, "RRR") = C!Of(l, w, v, "RRR")
    <3>1. C!Of(m, w, v, "RRR") = C!Of(l, w, v, "RRR") \cup FamilyPlace(l, r, w, v, "RRR")
      BY <1>2, <2>1, AppendedCounts
    <3>2. FamilyPlace(l, r, w, v, "RRR") = {}
      BY <2>1 DEF FamilyPlace
    <3> QED
      BY <3>1, <3>2
  <2>4. C!Of(l, w, v, "RRR") \subseteq DOMAIN l
    BY DEF C!Of, C!Ordinary, C!Ledger
  <2> QED
    BY <2>2, <2>3, <2>4 DEF C!Approved
<1> QED
  BY <1>1, <1>2 DEF Wrote

\* A summary is nobody else's.
SameSummaries(l, m, w, v) ==
    /\ C!Summaries(m, w, v) = C!Summaries(l, w, v)
    /\ \A i \in C!Summaries(l, w, v) : m[i] = l[i]

LEMMA SummaryElsewhere ==
    ASSUME NEW l, NEW m, NEW r, NEW w, NEW v, l \in Seq(Lines), r \in Tallies, Wrote(l, m, r),
           r.u # v
    PROVE  SameSummaries(l, m, w, v)
<1>1. CASE Same(l, m)
  <2>1. C!Summaries(m, w, v) \subseteq C!Ledger(m, w, v)
    BY DEF C!Summaries
  <2> QED
    BY <1>1, <2>1, SameCounts DEF SameSummaries
<1>2. CASE m = Append(l, r)
  <2>1. r \in Entries \cup Tallies
    OBVIOUS
  <2>2. \A i \in DOMAIN l : m[i] = l[i]
    BY <1>2, <2>1, AppendedLine DEF Lines
  <2>3. C!Summaries(l, w, v) \subseteq DOMAIN l
    BY DEF C!Summaries, C!Ledger
  <2>4. C!Summaries(m, w, v) = C!Summaries(l, w, v)
    <3>1. C!Summaries(m, w, v) = C!Summaries(l, w, v) \cup SummaryPlace(l, r, w, v)
      BY <1>2, <2>1, AppendedSummaries
    <3>2. SummaryPlace(l, r, w, v) = {}
      BY DEF SummaryPlace, Place
    <3> QED
      BY <3>1, <3>2
  <2> QED
    BY <2>2, <2>3, <2>4 DEF SameSummaries
<1> QED
  BY <1>1, <1>2 DEF Wrote

LEMMA SupersedeCloses ==
    ASSUME StateType, Closing, LinesGood(log, plan), Tallied(log, journal, seen), C!Supersede
    PROVE  Closing'
<1>1. cmd \in Closings
  BY DEF StateType, C!Supersede, C!Idle
<1>2. PICK u \in cmd.todo, fault \in C!Faults :
        /\ log' = C!Emit(log, C!Summary(u, cmd.window, TRUE), fault)
        /\ cmd' = [cmd EXCEPT !.todo = @ \ {u},
                              !.whole = @ /\ fault = "none" /\ ~ C!TornTail(log)]
  BY DEF C!Supersede
<1> DEFINE w == cmd.window
           r == C!Summary(u, w, TRUE)
<1>3. /\ u \in Units /\ w \in Nat /\ cmd'.window = w /\ cmd'.todo = cmd.todo \ {u}
      /\ cmd'.whole => cmd.whole /\ fault = "none" /\ ~ C!TornTail(log)
  BY <1>1, <1>2 DEF Closings
<1>4. C!Approved(log, w, u) /\ Cardinality(C!Summaries(log, w, u)) < Slots
  BY <1>1, <1>2 DEF Closing
<1>5. log \in Seq(Lines)
  BY Present
<1>6. r \in Tallies /\ r.p = w /\ r.u = u /\ Settled(r)
  BY <1>3, <1>4, SummaryFits
<1>7. log' = C!Emit(log, r, fault)
  BY <1>2
<1> HIDE DEF r, w
<1>8. r.k = "U" /\ r \in Entries \cup Tallies /\ r \in Lines
  BY <1>6 DEF Tallies, Lines
<1>9. Wrote(log, log', r)
  BY <1>5, <1>7, <1>8, EmittedWrote
<1>10. ASSUME NEW v
       PROVE  /\ C!Approved(log', w, v) <=> C!Approved(log, w, v)
              /\ v # u => /\ C!Summaries(log', w, v) = C!Summaries(log, w, v)
                          /\ \A i \in C!Summaries(log, w, v) : log'[i] = log[i]
  <2>1. C!Approved(log', w, v) <=> C!Approved(log, w, v)
    BY <1>5, <1>6, <1>9, SummaryApproves
  <2>2. ASSUME r.u # v
        PROVE  SameSummaries(log, log', w, v)
    BY <1>5, <1>6, <1>9, <2>2, SummaryElsewhere
  <2> QED
    BY <1>6, <2>1, <2>2 DEF SameSummaries
<1>11. ASSUME NEW v \in cmd.todo \ {u}
       PROVE  C!Approved(log', w, v) /\ Cardinality(C!Summaries(log', w, v)) < Slots
  BY <1>1, <1>10 DEF Closing, w
<1>12. ASSUME cmd'.whole, NEW v \in Units \ cmd'.todo, C!Approved(log', w, v)
       PROVE  \E i \in C!Summaries(log', w, v) :
                (\A j \in C!Summaries(log', w, v) : j <= i) /\ Settled(log'[i])
  <2>1. CASE v = u
    <3> DEFINE n == Len(log) + 1
    <3>1. log' = Append(log, r)
      <4>1. C!Room(log, r)
        BY <1>4, <1>6, <1>8, CardinalityIs DEF C!Room
      <4>2. fault = "none" /\ ~ C!TornTail(log)
        BY <1>3, <1>12
      <4> QED
        BY <1>7, <4>1, <4>2 DEF C!Emit, C!AppendLine
    <3>2. C!Summaries(log', w, u) = C!Summaries(log, w, u) \cup {n}
      <4>1. C!Summaries(log', w, u) = C!Summaries(log, w, u) \cup SummaryPlace(log, r, w, u)
        BY <1>5, <1>8, <3>1, AppendedSummaries
      <4>2. SummaryPlace(log, r, w, u) = {n}
        BY <1>6, <1>8 DEF SummaryPlace, Place
      <4> QED
        BY <4>1, <4>2
    <3>3. C!Summaries(log, w, u) \subseteq 1 .. Len(log) /\ Len(log) \in Nat
      BY <1>5, FiniteSummaries
    <3>4. log'[n] = r
      BY <1>5, <1>8, <3>1, AppendedLine
    <3>5. \A j \in C!Summaries(log', w, u) : j <= n
      BY <3>2, <3>3
    <3> HIDE DEF n
    <3> QED
      BY <1>6, <2>1, <3>2, <3>4, <3>5
  <2>2. CASE v # u
    <3>1. v \in Units \ cmd.todo /\ cmd.whole /\ C!Approved(log, w, v)
      BY <1>3, <1>10, <1>12, <2>2
    <3>2. PICK i \in C!Summaries(log, w, v) :
            (\A j \in C!Summaries(log, w, v) : j <= i) /\ Settled(log[i])
      BY <1>1, <3>1 DEF Closing, w
    <3>3. C!Summaries(log', w, v) = C!Summaries(log, w, v) /\ log'[i] = log[i]
      BY <1>10, <2>2, <3>2
    <3> QED
      BY <3>2, <3>3
  <2> QED
    BY <2>1, <2>2
<1> QED
  BY <1>3, <1>11, <1>12 DEF Closing

LEMMA ClosingStep ==
    ASSUME StateType, Closing, LinesGood(log, plan), Tallied(log, journal, seen), C!Next
    PROVE  Closing'
<1>1. ASSUME cmd' \in {C!Idle, [at |-> "clear"], [at |-> "list"]} PROVE Closing'
  <2>1. cmd' \notin Closings
    BY <1>1 DEF Closings, C!Idle
  <2> QED
    BY <2>1 DEF Closing
<1>2. ASSUME NEW u \in Units,
             \/ C!WriteTask(u) \/ C!WritePrompt(u)
             \/ C!AgentReport(u) \/ C!DeleteReport(u)
             \/ C!RouteBlocked(u) \/ C!RecordPAD(u) \/ (\E to \in C!Statuses : C!Move(u, to))
             \/ \E v \in {"approve", "request-changes"}, o \in BOOLEAN : C!Intake(u, v, o)
      PROVE  Closing'
  <2>1. cmd' = C!Idle
    BY <1>2 DEF C!WriteTask, C!WritePrompt, C!AgentReport, C!DeleteReport, C!RouteBlocked,
                C!RecordPAD, C!Move, C!Intake, C!Boundary
  <2> QED
    BY <1>1, <2>1
<1>3. ASSUME \/ C!MakePlan \/ C!ProjectAndDelete \/ C!ArchiveLand \/ C!FinishReset \/ C!Crash
      PROVE  Closing'
  <2>1. cmd' \in {C!Idle, [at |-> "clear"], [at |-> "list"]}
    BY <1>3 DEF C!MakePlan, C!ProjectAndDelete, C!ArchiveLand, C!FinishReset, C!Crash
  <2> QED
    BY <1>1, <2>1
<1>4. CASE C!Clear
  <2>1. cmd' = cmd /\ cmd \notin Closings
    BY <1>4 DEF C!Clear, Closings
  <2> QED
    BY <2>1 DEF Closing
<1>5. CASE C!ArchiveList
  <2>1. Len(archives) \in Nat
    BY DEF StateType
  <2>2. cmd' = C!CloseWindow(Len(archives), "done") /\ log' = log
    BY <1>5 DEF C!ArchiveList
  <2> QED
    BY <2>1, <2>2, WindowCloses
<1>6. CASE C!StartReset
  <2>1. C!Current \in Nat
    BY DEF StateType, C!Current
  <2>2. cmd' = C!CloseWindow(C!Current, "clear") /\ log' = log
    BY <1>6 DEF C!StartReset
  <2> QED
    BY <2>1, <2>2, WindowCloses
<1> QED
  BY <1>2, <1>3, <1>4, <1>5, <1>6, SupersedeCloses DEF C!Next

(***************************************************************************)
(* The theorems.                                                           *)
(***************************************************************************)

\* The invariant: the lines, their counts, and the window being closed.
CloseoutInv ==
    /\ StateType /\ Cleared /\ Review /\ Closing
    /\ LinesGood(log, plan) /\ Tallied(log, journal, seen)

LEMMA CloseoutInit ==
    ASSUME C!Init
    PROVE  CloseoutInv
<1> USE DEF C!Init
<1>1. StateType
  BY DEF StateType, C!NoTask, Places, Journals, C!Nothing
<1>2. Cleared /\ Review
  BY DEF Cleared, Review, C!NoTask, C!Idle
<1>3. Closing
  BY DEF Closing, Closings, C!Idle
<1>4. LinesGood(log, plan)
  BY LinesEmpty
<1>5. Tallied(log, journal, seen)
  <2> SUFFICES ASSUME NEW u \in Units, NEW f \in Tracked
               PROVE  Balanced(<<>>, u, f, seen[u][f], Count(journal[u], f))
    BY DEF Tallied
  <2>1. seen[u][f] = 0 /\ Count(journal[u], f) = 0
    BY DEF C!Nothing, Count, Tracked, C!Families
  <2> QED
    BY <2>1, EmptyBalanced
<1> QED
  BY <1>1, <1>2, <1>3, <1>4, <1>5 DEF CloseoutInv

LEMMA CloseoutStep ==
    ASSUME CloseoutInv, C!Next \/ UNCHANGED closeout
    PROVE  CloseoutInv'
<1>1. CASE C!Next
  <2>1. StateType' /\ Review' /\ Cleared'
    BY <1>1, StateTypeStep, ReviewStep, ClearedStep DEF CloseoutInv
  <2>2. LinesGood(log, plan)' /\ Tallied(log, journal, seen)'
    BY <1>1, RecordsStep DEF CloseoutInv
  <2>3. Closing'
    BY <1>1, ClosingStep DEF CloseoutInv
  <2> QED
    BY <2>1, <2>2, <2>3 DEF CloseoutInv
<1>2. CASE UNCHANGED closeout
  BY <1>2 DEF closeout, CloseoutInv, StateType, Cleared, C!TasksLeft, Review, Closing
<1> QED
  BY <1>1, <1>2

\* What a closing projection says.
LEMMA PadInit ==
    ASSUME C!Init
    PROVE  C!PadCounted
BY DEF C!Init, C!NotProjected, C!PadCounted

LEMMA PadStep ==
    ASSUME CloseoutInv, C!PadCounted, C!Next \/ UNCHANGED closeout
    PROVE  C!PadCounted'
<1>1. ASSUME projected' = C!NotProjected PROVE C!PadCounted'
  BY <1>1 DEF C!NotProjected, C!PadCounted
<1>2. CASE C!ProjectAndDelete
  <2>1. CASE log = <<>>
    BY <1>1, <1>2, <2>1 DEF C!ProjectAndDelete
  <2>2. CASE log # <<>>
    <3> DEFINE w == cmd.window
    <3>1. cmd \in Closings /\ cmd.todo = {}
      BY <1>2 DEF C!ProjectAndDelete, CloseoutInv, StateType, C!Idle
    <3>2. projected' = [whole |-> cmd.whole, rows |-> C!Projection(w),
                        approved |-> {u \in Units : C!Approved(log, w, u)}]
      BY <1>2, <2>2 DEF C!ProjectAndDelete
    <3>3. ASSUME cmd.whole, NEW u \in Units, C!Approved(log, w, u)
          PROVE  /\ u \in DOMAIN C!Projection(w)
                 /\ C!Projection(w)[u].state["PAD"] = "observed"
      <4> DEFINE S == C!Summaries(log, w, u)
      <4>1. PICK i \in S : (\A j \in S : j <= i) /\ Settled(log[i])
        BY <3>1, <3>3 DEF CloseoutInv, Closing
      <4>2. S \subseteq Nat
        <5>1. log \in Seq(Lines)
          BY DEF CloseoutInv, LinesGood
        <5> QED
          BY <5>1, FiniteSummaries
      <4>3. C!Max(S) = i
        <5> HIDE DEF S
        <5>1. \A x \in S : (\A y \in S : x >= y) => x = i
          BY <4>1, <4>2
        <5>2. \A y \in S : i >= y
          BY <4>1, <4>2
        <5> QED
          BY <4>1, <5>1, <5>2 DEF C!Max
      <4>4. u \in DOMAIN C!Projection(w) /\ C!Projection(w)[u] = log[C!Max(S)]
        BY <4>1 DEF C!Projection
      <4> QED
        BY <4>1, <4>3, <4>4 DEF Settled
    <3> HIDE DEF w
    <3> QED
      BY <3>2, <3>3 DEF C!PadCounted
  <2> QED
    BY <2>1, <2>2
<1>3. ASSUME NEW u \in Units,
             \/ C!WriteTask(u) \/ C!WritePrompt(u)
             \/ C!AgentReport(u) \/ C!DeleteReport(u)
             \/ C!RouteBlocked(u) \/ C!RecordPAD(u) \/ (\E to \in C!Statuses : C!Move(u, to))
             \/ \E v \in {"approve", "request-changes"}, o \in BOOLEAN : C!Intake(u, v, o)
      PROVE  projected' = C!NotProjected
  BY <1>3 DEF C!WriteTask, C!WritePrompt, C!AgentReport, C!DeleteReport, C!RouteBlocked,
              C!RecordPAD, C!Move, C!Intake, C!Boundary
<1>4. ASSUME \/ C!MakePlan \/ C!Supersede \/ C!ArchiveLand \/ C!ArchiveList \/ C!StartReset
             \/ C!Clear \/ C!FinishReset \/ C!Crash
      PROVE  projected' = C!NotProjected
  BY <1>4 DEF C!MakePlan, C!Supersede, C!ArchiveLand, C!ArchiveList, C!StartReset, C!Clear,
              C!FinishReset, C!Crash
<1>5. CASE UNCHANGED closeout
  BY <1>5 DEF closeout, C!PadCounted
<1> QED
  BY <1>1, <1>2, <1>3, <1>4, <1>5 DEF C!Next

\* What the runs' three parts do to the ledger's part of the state.
LEMMA HostedStep ==
    ASSUME [MCNext]_<<part, vars, closeout, evidence>>
    PROVE  C!Next \/ UNCHANGED closeout
BY DEF MCNext

\* The ledger keeps its invariant whatever becomes of the backlog beside it.
THEOREM EvidenceKept == MCSpec => [](CloseoutInv /\ C!PadCounted)
<1>1. MCInit => CloseoutInv /\ C!PadCounted
  BY CloseoutInit, PadInit DEF MCInit
<1>2. /\ CloseoutInv /\ C!PadCounted
      /\ [MCNext]_<<part, vars, closeout, evidence>>
      => CloseoutInv' /\ C!PadCounted'
  BY HostedStep, CloseoutStep, PadStep
<1> QED
  BY <1>1, <1>2, PTL DEF MCSpec

\* A summary that calls prompts, review passes or reopens observed counts every
\* one that happened in the plan, whatever was lost, torn or suppressed
\* (prompt_evidence.py, the counts and states of a closure summary).
THEOREM SummariesCountTrue == MCSpec => []CountsTrue
<1>1. CloseoutInv => CountsTrue
  BY DEF CloseoutInv, LinesGood, HonestLines, Honest, Tracked, CountsTrue, C!CountsTrue
<1> QED
  BY <1>1, EvidenceKept, PTL

\* The closing projection of a window settles every unit approved in it, even
\* when an earlier attempt to close it died half way.
THEOREM ProjectionSettles == MCSpec => []PadCounted
<1>1. C!PadCounted => PadCounted
  BY DEF PadCounted
<1> QED
  BY <1>1, EvidenceKept, PTL

\* No evidence outlives its plan: a plan that is cleared away has left no line
\* behind, whatever died on the way.
THEOREM EvidenceIsOfPlan == MCSpec => []NoneOutlives
<1>1. CloseoutInv => NoneOutlives
  BY DEF CloseoutInv, LinesGood, FromPlan, NoneOutlives, C!NoneOutlives
<1> QED
  BY <1>1, EvidenceKept, PTL

-----------------------------------------------------------------------------
(***************************************************************************)
(* Request evidence, where MCBacklog hosts it: for any sessions, projects, *)
(* processes and buffer sizes, and any number of hook events, commands and *)
(* processes that die.                                                     *)
(***************************************************************************)


(***************************************************************************)
(* Greatest and least.                                                     *)
(***************************************************************************)
LEMMA GreatestOrdinal ==
    ASSUME NEW n \in Nat, NEW S, S \subseteq 0 .. n, S # {}
    PROVE  E!Max(S) \in S /\ \A x \in S : x <= E!Max(S)
<1> DEFINE T == {x + 1 : x \in S}
<1>1. T \subseteq 1 .. n + 1 /\ T # {} /\ n + 1 \in Nat
  <2>1. PICK x \in S : TRUE
    OBVIOUS
  <2>2. x + 1 \in T
    OBVIOUS
  <2>3. \A y \in S : y + 1 \in 1 .. n + 1
    OBVIOUS
  <2> QED
    BY <2>2, <2>3
<1>2. PICK i \in T : \A j \in T : j <= i
  <2> HIDE DEF T
  <2> QED
    BY <1>1, GreatestPlace
<1>3. PICK x \in S : i = x + 1
  BY <1>2
<1>4. ASSUME NEW y \in S PROVE y <= x
  <2>1. y + 1 \in T
    OBVIOUS
  <2>2. y + 1 <= x + 1
    BY <1>2, <1>3, <2>1
  <2> QED
    BY <2>2
<1> QED
  BY <1>4 DEF E!Max

LEMMA LeastOrdinal ==
    ASSUME NEW n \in Nat, NEW S, S \subseteq 0 .. n, S # {}
    PROVE  E!Min(S) \in S /\ \A x \in S : E!Min(S) <= x
<1> DEFINE T == {n - x : x \in S}
<1>1. T \subseteq 0 .. n /\ T # {}
  <2>1. PICK x \in S : TRUE
    OBVIOUS
  <2>2. n - x \in T
    OBVIOUS
  <2>3. \A y \in S : n - y \in 0 .. n
    OBVIOUS
  <2> QED
    BY <2>2, <2>3
<1>2. E!Max(T) \in T /\ \A x \in T : x <= E!Max(T)
  <2> HIDE DEF T
  <2> QED
    BY <1>1, GreatestOrdinal
<1>3. PICK x \in S : E!Max(T) = n - x
  BY <1>2
<1>4. ASSUME NEW y \in S PROVE x <= y
  <2>1. n - y \in T
    OBVIOUS
  <2>2. n - y <= n - x
    BY <1>2, <1>3, <2>1
  <2> QED
    BY <2>2
<1> QED
  BY <1>4 DEF E!Min

(***************************************************************************)
(* The log of a session.                                                   *)
(***************************************************************************)
Texts  == E!PromptText \cup StopText \cup {""}
Kinds  == {"start", "prompt", "stop", "interrupt", "end", "evicted"}
Events == [ord : Nat, ev : Kinds, turn : Nat, text : Texts]

\* No ordinal is above the number of events sent.
UpTo(evs, n) == \A i \in 1 .. Len(evs) : evs[i].ord <= n

\* The greatest ordinal of a log, or 0 (intake_adapter.py:264).
LEMMA TopIs ==
    ASSUME NEW n \in Nat, NEW evs \in Seq(Events), UpTo(evs, n)
    PROVE  /\ E!Top(evs) \in 0 .. n
           /\ \A i \in 1 .. Len(evs) : evs[i].ord <= E!Top(evs)
           /\ E!Top(evs) = 0 \/ \E i \in 1 .. Len(evs) : evs[i].ord = E!Top(evs)
<1> DEFINE S == {0} \cup {evs[i].ord : i \in 1 .. Len(evs)}
<1>1. \A i \in 1 .. Len(evs) : evs[i].ord \in Nat
  <2>1. \A i \in 1 .. Len(evs) : evs[i] \in Events
    OBVIOUS
  <2> QED
    BY <2>1 DEF Events
<1>2. S \subseteq 0 .. n /\ S # {}
  BY <1>1 DEF UpTo
<1>3. E!Max(S) \in S /\ \A x \in S : x <= E!Max(S)
  <2> HIDE DEF S
  <2> QED
    BY <1>2, GreatestOrdinal
<1>4. E!Top(evs) = E!Max(S)
  BY DEF E!Top
<1> QED
  BY <1>2, <1>3, <1>4

\* What a log is cut down to ends with its last event, kept or in the marker.
LEMMA EvictKeeps ==
    ASSUME NEW n \in Nat, NEW evs \in Seq(Events), UpTo(evs, n), evs # <<>>,
           evs[Len(evs)].ev # "evicted", BufferMax \in Nat
    PROVE  /\ E!Evict(evs) \in Seq(Events) /\ UpTo(E!Evict(evs), n)
           /\ \E i \in 1 .. Len(E!Evict(evs)) : E!Evict(evs)[i].ord = evs[Len(evs)].ord
<1> DEFINE kept == E!Kept(evs)
<1>1. /\ kept \in Seq(Events) /\ kept # <<>> /\ UpTo(kept, n)
      /\ kept[Len(kept)] = evs[Len(evs)]
  <2>1. CASE Head(evs).ev = "evicted"
    <3>1. kept = Tail(evs)
      BY <2>1 DEF E!Kept
    <3>2. Len(evs) > 1
      BY <2>1
    <3>3. Len(kept) = Len(evs) - 1 /\ \A i \in 1 .. Len(kept) : kept[i] = evs[i + 1]
      BY <3>1
    <3>4. kept \in Seq(Events) /\ kept # <<>> /\ kept[Len(kept)] = evs[Len(evs)]
      <4>1. kept \in Seq(Events) /\ Len(kept) \in 1 .. Len(kept)
        BY <3>1, <3>2, <3>3
      <4>2. kept[Len(kept)] = evs[Len(kept) + 1] /\ Len(kept) + 1 = Len(evs)
        BY <3>3, <4>1
      <4> QED
        BY <4>1, <4>2
    <3>5. \A i \in 1 .. Len(kept) : i + 1 \in 1 .. Len(evs)
      BY <3>3
    <3>6. UpTo(kept, n)
      BY <3>3, <3>5 DEF UpTo
    <3> QED
      BY <3>4, <3>6
  <2>2. CASE Head(evs).ev # "evicted"
    BY <2>2 DEF E!Kept
  <2> QED
    BY <2>1, <2>2
<1> DEFINE rest(k) == SubSeq(kept, k + 1, Len(kept))
           S == {k \in 0 .. Len(kept) : E!Fits(rest(k))}
           m == E!Min(S)
<1> HIDE DEF kept
<1>2. m \in 0 .. Len(kept)
  <2>1. rest(Len(kept)) = <<>>
    BY <1>1
  <2>2. E!Fits(<<>>)
    BY DEF E!Fits
  <2> HIDE DEF rest
  <2>3. Len(kept) \in S /\ S \subseteq 0 .. Len(kept)
    BY <1>1, <2>1, <2>2
  <2> HIDE DEF S
  <2>4. Len(kept) \in Nat /\ S # {}
    BY <1>1, <2>3
  <2> QED
    BY <2>3, <2>4, LeastOrdinal
<1>3. E!Evict(evs) = IF m = 0 THEN evs ELSE <<E!Marker(kept[m])>> \o rest(m)
  BY DEF E!Evict, kept
<1> HIDE DEF m
<1>4. CASE m = 0
  BY <1>3, <1>4
<1>5. CASE m # 0
  <2>1. kept[m] \in Events /\ kept[m].ord <= n
    BY <1>1, <1>2, <1>5 DEF UpTo
  <2>2. E!Marker(kept[m]) \in Events /\ E!Marker(kept[m]).ord = kept[m].ord
    BY <2>1 DEF E!Marker, Events, Kinds, Texts
  <2>3. /\ rest(m) \in Seq(Events) /\ Len(rest(m)) = Len(kept) - m
        /\ \A i \in 1 .. Len(kept) - m : rest(m)[i] = kept[m + i]
    BY <1>1, <1>2
  <2> DEFINE r == rest(m)
             k == E!Marker(kept[m])
             all == <<k>> \o r
  <2>4. r \in Seq(Events) /\ Len(r) = Len(kept) - m /\ \A i \in 1 .. Len(r) : r[i] = kept[m + i]
    BY <2>3
  <2>5. k \in Events /\ k.ord = kept[m].ord
    BY <2>2
  <2>6. E!Evict(evs) = all
    BY <1>3, <1>5
  <2> HIDE DEF r, k
  <2>7. /\ all \in Seq(Events) /\ Len(all) = Len(r) + 1 /\ all[1] = k
        /\ \A i \in 1 .. Len(r) : all[i + 1] = r[i]
    BY <2>4, <2>5
  <2> HIDE DEF all
  <2>8. UpTo(all, n)
    <3> SUFFICES ASSUME NEW i \in 1 .. Len(all) PROVE all[i].ord <= n
      BY DEF UpTo
    <3>1. CASE i = 1
      BY <3>1, <2>1, <2>5, <2>7
    <3>2. CASE i # 1
      <4>1. i - 1 \in 1 .. Len(r) /\ all[(i - 1) + 1] = r[i - 1] /\ (i - 1) + 1 = i
        BY <3>2, <2>4, <2>7
      <4>2. m + (i - 1) \in 1 .. Len(kept)
        BY <4>1, <2>4, <1>2, <1>1
      <4>3. all[i] = kept[m + (i - 1)]
        BY <4>1, <2>4
      <4> QED
        BY <4>2, <4>3, <1>1 DEF UpTo
    <3> QED
      BY <3>1, <3>2
  <2>9. \E i \in 1 .. Len(all) : all[i].ord = kept[Len(kept)].ord
    <3>1. CASE m = Len(kept)
      <4>1. 1 \in 1 .. Len(all) /\ all[1].ord = kept[Len(kept)].ord
        BY <3>1, <2>4, <2>5, <2>7
      <4> QED
        BY <4>1
    <3>2. CASE m # Len(kept)
      <4>1. Len(r) \in 1 .. Len(r) /\ Len(r) = Len(kept) - m
        BY <3>2, <2>4, <1>1, <1>2
      <4>2. all[Len(r) + 1] = kept[Len(kept)]
        <5>1. all[Len(r) + 1] = r[Len(r)] /\ r[Len(r)] = kept[m + Len(r)]
          BY <4>1, <2>4, <2>7
        <5>2. m + Len(r) = Len(kept)
          BY <4>1, <1>1, <1>2
        <5> QED
          BY <5>1, <5>2
      <4>3. Len(r) + 1 \in 1 .. Len(all)
        BY <4>1, <2>7
      <4> QED
        BY <4>2, <4>3
    <3> QED
      BY <3>1, <3>2
  <2> QED
    BY <2>6, <2>7, <2>8, <2>9, <1>1
<1> QED
  BY <1>4, <1>5

(***************************************************************************)
(* The store.                                                              *)
(***************************************************************************)
Confs   == [reply : Nat, prop : Nat]
Bonds   == [h : Nat, from : Nat, to : Int, q : Project, conf : Confs]
Records == [h : Nat, announce : BOOLEAN, binds : Seq(Bonds), ended : BOOLEAN]

HookOps   == [at : {"append", "pair", "finish"}, s : Session, rec : Records,
              prior : Seq(Events), item : Events]
SelectOps == [at : {"close", "open", "save", "saved"}, s : Session,
              q : Project \cup {NoProject}, rec : Records, last : Nat,
              old : Bonds \cup {NoSession}, snap : Seq(Bonds)]
LockReads  == [at : {"bindread"}, q : Project, b : Bonds, conf : Confs]
LockWrites == [at : {"bindwrite"}, q : Project, b : Bonds, conf : Confs, snap : Seq(Bonds)]
Ops == {E!Idle} \cup HookOps \cup SelectOps \cup LockReads \cup LockWrites

StoreType ==
    /\ ses \in [Session -> Records \cup {NoSession}]
    /\ turns \in [Session -> Seq(Events)]
    /\ pb \in [Project -> Seq(Bonds)]
    /\ op \in [Proc -> Ops]
    /\ turn \in [Session -> Nat]
    /\ nh \in Nat /\ sent \in Nat /\ overtaken \in BOOLEAN

Hooking(o)   == o.at \in {"append", "pair", "finish"}
Selecting(o) == o.at \in {"close", "open", "save", "saved"}
Holding(o)   == Hooking(o) \/ Selecting(o)

\* No ordinal is above the number of events the host sent.
After(evs, e) == \A i \in 1 .. Len(evs) : evs[i].ord < e.ord
NumberedOp(o, n) == Hooking(o) => /\ UpTo(o.prior, n) /\ o.item.ord <= n
                                  /\ After(o.prior, o.item) /\ o.item.ev # "evicted"
Numbered == /\ \A s \in Session : UpTo(turns[s], sent)
            /\ \A p \in Proc : NumberedOp(op[p], sent)

\* No handle is above the number of handles given out.
HandedOp(o, n) == Holding(o) => o.rec.h <= n
Handed == /\ \A s \in Session : ses[s] # NoSession => ses[s].h <= nh
          /\ \A p \in Proc : HandedOp(op[p], nh)

\* The bindings of a record follow one another, and n is past those that ended.
Chain(bs, n) ==
    \A i \in 1 .. Len(bs) :
      /\ bs[i].to <= n
      /\ \A j \in 1 .. Len(bs) : i < j => bs[i].to # E!Ongoing /\ bs[i].to < bs[j].from

OwnHandle == \A s, t \in Session :
    ses[s] # NoSession /\ ses[t] # NoSession /\ ses[s].h = ses[t].h => s = t

\* So it is of every record on disk, and of every one in hand whose session is
\* still there.
ChainedIn(s) == ses[s] # NoSession => Chain(ses[s].binds, E!Top(turns[s]))
ChainedOp(o) == Holding(o) /\ E!Present(o) => Chain(o.rec.binds, E!Top(turns[o.s]))
Chained == /\ \A s \in Session : ChainedIn(s)
           /\ \A p \in Proc : ChainedOp(op[p])

\* A project's file holds its own bindings.
AllOf(bs, q) == \A i \in 1 .. Len(bs) : bs[i].q = q
Opens(o) == /\ o.q \in Project /\ o.rec.binds # <<>>
            /\ o.rec.binds[Len(o.rec.binds)].q = o.q
Sorted(o) ==
    /\ o.at = "close" => /\ o.old \in Bonds /\ AllOf(o.snap, o.old.q)
                         /\ o.q # NoProject => Opens(o)
    /\ o.at = "open" => AllOf(o.snap, o.q) /\ Opens(o)
    /\ o.at = "bindwrite" => AllOf(o.snap, o.q)
InProject == /\ \A q \in Project : AllOf(pb[q], q)
             /\ \A p \in Proc : Sorted(op[p])

StoreInv == /\ StoreType /\ Numbered /\ Handed /\ InProject
            /\ ~overtaken => OwnHandle /\ Chained

LEMMA OpStep ==
    ASSUME op \in [Proc -> Ops], NEW p \in Proc, NEW o \in Ops, op' = [op EXCEPT ![p] = o]
    PROVE  /\ op' \in [Proc -> Ops] /\ op'[p] = o
           /\ \A x \in Proc : x # p => op'[x] = op[x]
OBVIOUS

\* A step of one process that leaves sessions and logs alone.
LEMMA QuietStore ==
    ASSUME StoreInv, NEW p \in Proc, NEW o \in Ops, op' = [op EXCEPT ![p] = o],
           UNCHANGED <<ses, turns, turn, nh, sent, overtaken>>,
           pb' \in [Project -> Seq(Bonds)], \A q \in Project : AllOf(pb'[q], q),
           NumberedOp(o, sent), HandedOp(o, nh), ~overtaken => ChainedOp(o), Sorted(o)
    PROVE  StoreInv'
<1>1. /\ op' \in [Proc -> Ops] /\ op'[p] = o
      /\ \A x \in Proc : x # p => op'[x] = op[x]
  BY OpStep DEF StoreInv, StoreType
<1>2. StoreType'
  BY <1>1 DEF StoreInv, StoreType
<1>3. Numbered'
  BY <1>1 DEF StoreInv, Numbered
<1>4. Handed'
  BY <1>1 DEF StoreInv, Handed
<1>5. InProject'
  BY <1>1 DEF StoreInv, InProject
<1>6. ~overtaken' => OwnHandle' /\ Chained'
  <2> SUFFICES ASSUME ~overtaken' PROVE OwnHandle' /\ Chained'
    OBVIOUS
  <2>1. OwnHandle'
    BY DEF StoreInv, OwnHandle
  <2>2. \A s \in Session : ChainedIn(s)'
    BY DEF StoreInv, Chained, ChainedIn
  <2>3. ASSUME NEW x \in Proc PROVE ChainedOp(op[x])'
    <3>1. ChainedOp(op'[x])
      BY <1>1 DEF StoreInv, Chained
    <3> QED
      BY <3>1 DEF ChainedOp, E!Present
  <2> QED
    BY <2>1, <2>2, <2>3 DEF Chained
<1> QED
  BY <1>2, <1>3, <1>4, <1>5, <1>6 DEF StoreInv

(***************************************************************************)
(* select-project.                                                         *)
(***************************************************************************)
\* The open binding ends, or none is open, and nothing else changes.
Shut(r, n) == IF E!OpenIn(r) = {} THEN r.binds
              ELSE [r.binds EXCEPT ![E!Max(E!OpenIn(r))].to = n]

LEMMA ShutBinds ==
    ASSUME NEW r \in Records, NEW n \in Nat
    PROVE  /\ Shut(r, n) \in Seq(Bonds) /\ Len(Shut(r, n)) = Len(r.binds)
           /\ E!OpenIn(r) # {} => E!Max(E!OpenIn(r)) \in E!OpenIn(r)
           /\ Chain(r.binds, n) => /\ Chain(Shut(r, n), n)
                                   /\ \A i \in 1 .. Len(r.binds) : Shut(r, n)[i].to # E!Ongoing
<1> DEFINE bs == r.binds
           k == E!Max(E!OpenIn(r))
           S == E!OpenIn(r)
           t == Shut(r, n)
<1>1. bs \in Seq(Bonds) /\ Len(bs) \in Nat
  BY DEF Records
<1>2. S = {i \in 1 .. Len(bs) : bs[i].to = E!Ongoing}
  BY DEF E!OpenIn
<1>3. S # {} => k \in S
  <2>1. S \subseteq 0 .. Len(bs)
    BY <1>1, <1>2
  <2> HIDE DEF S, bs
  <2> QED
    BY <1>1, <2>1, GreatestOrdinal DEF S
<1>4. t = IF S = {} THEN bs ELSE [bs EXCEPT ![k].to = n]
  BY DEF Shut
<1> HIDE DEF bs, k, S, t
<1>5. CASE S = {}
  <2>1. t = bs /\ \A i \in 1 .. Len(bs) : bs[i].to # E!Ongoing
    BY <1>2, <1>4, <1>5
  <2> QED
    BY <1>1, <1>5, <2>1 DEF bs, S, t
<1>6. CASE S # {}
  <2>1. k \in 1 .. Len(bs) /\ bs[k].to = E!Ongoing
    BY <1>2, <1>3, <1>6
  <2>2. bs[k] \in Bonds
    BY <1>1, <2>1
  <2>3. [bs[k] EXCEPT !.to = n] \in Bonds
    BY <2>2 DEF Bonds
  <2>4. t = [bs EXCEPT ![k] = [bs[k] EXCEPT !.to = n]]
    BY <1>4, <1>6
  <2>5. t \in Seq(Bonds) /\ Len(t) = Len(bs)
    BY <1>1, <2>1, <2>3, <2>4
  <2>6. /\ t[k] = [bs[k] EXCEPT !.to = n]
        /\ \A i \in 1 .. Len(bs) : i # k => t[i] = bs[i]
    BY <1>1, <2>1, <2>4
  <2>7. t[k].to = n /\ t[k].from = bs[k].from
    BY <2>2, <2>6 DEF Bonds
  <2>8. ASSUME Chain(bs, n)
        PROVE  Chain(t, n) /\ \A i \in 1 .. Len(bs) : t[i].to # E!Ongoing
    <3>1. k = Len(bs)
      BY <1>1, <2>1, <2>8 DEF Chain
    <3>2. \A i \in 1 .. Len(bs) : i # k => bs[i].to # E!Ongoing /\ i < k
      BY <1>1, <2>1, <2>8, <3>1 DEF Chain
    <3>3. n # E!Ongoing /\ n <= n
      BY DEF E!Ongoing
    <3>4. \A i \in 1 .. Len(bs) : t[i].to # E!Ongoing /\ t[i].to <= n /\ t[i].from = bs[i].from
      BY <2>6, <2>7, <2>8, <3>2, <3>3 DEF Chain
    <3>5. ASSUME NEW i \in 1 .. Len(bs), NEW j \in 1 .. Len(bs), i < j
          PROVE  t[i].to < t[j].from
      <4>1. i # k
        BY <1>1, <3>1, <3>5
      <4> QED
        BY <2>6, <2>8, <3>4, <3>5, <4>1 DEF Chain
    <3> QED
      BY <2>5, <3>4, <3>5 DEF Chain
  <2> QED
    BY <1>1, <1>3, <1>6, <2>5, <2>8 DEF bs, k, S, t
<1> QED
  BY <1>5, <1>6

\* The record a selection saves (select_project.py:190).
LEMMA Selected ==
    ASSUME NEW r \in Records, NEW n \in Nat, NEW q \in Project \cup {NoProject}
    PROVE  LET t == E!SelectedRec(r, q, n) IN
           /\ t \in Records /\ t.h = r.h
           /\ q # NoProject => t.binds # <<>> /\ t.binds[Len(t.binds)].q = q
           /\ Chain(r.binds, n) => Chain(t.binds, n)
<1> DEFINE t == E!SelectedRec(r, q, n)
           bs == Shut(r, n)
           b == E!Fresh(r, q, E!From(r, n))
<1>1. /\ bs \in Seq(Bonds) /\ Len(bs) = Len(r.binds)
      /\ Chain(r.binds, n) => /\ Chain(bs, n)
                              /\ \A i \in 1 .. Len(bs) : bs[i].to # E!Ongoing
  BY ShutBinds
<1>2. CASE q = NoProject
  <2>1. t = [r EXCEPT !.binds = bs]
    BY <1>2 DEF E!SelectedRec, Shut
  <2> HIDE DEF bs
  <2> QED
    BY <1>1, <1>2, <2>1 DEF Records
<1>3. CASE q # NoProject
  <2>1. t = [r EXCEPT !.binds = Append(bs, b), !.announce = @ \/ E!Bound(r)]
    BY <1>3 DEF E!SelectedRec, Shut
  <2>2. b \in Bonds /\ b.q = q /\ b.to = -1 /\ b.from = E!From(r, n)
    BY <1>3 DEF E!Fresh, E!From, E!NoConf, E!Ongoing, Records, Bonds, Confs
  <2>3. r.binds # <<>> => E!From(r, n) = n + 1
    BY DEF E!From, E!Bound
  <2>4. r.binds \in Seq(Bonds)
    BY DEF Records
  <2> DEFINE all == Append(bs, b)
  <2> HIDE DEF bs, b
  <2>5. /\ all \in Seq(Bonds) /\ Len(all) = Len(bs) + 1 /\ all[Len(all)] = b
        /\ \A i \in 1 .. Len(bs) : all[i] = bs[i]
    BY <1>1, <2>2
  <2>6. t = [r EXCEPT !.binds = all, !.announce = @ \/ E!Bound(r)]
    BY <2>1
  <2> HIDE DEF all
  <2>7. t \in Records /\ t.h = r.h /\ t.binds = all
    <3>1. (r.announce \/ E!Bound(r)) \in BOOLEAN
      BY DEF E!Bound, Records
    <3> QED
      BY <2>5, <2>6, <3>1 DEF Records
  <2>8. all # <<>> /\ all[Len(all)].q = q
    BY <1>1, <2>2, <2>5
  <2>9. ASSUME Chain(r.binds, n) PROVE Chain(all, n)
    <3>1. Chain(bs, n) /\ \A i \in 1 .. Len(bs) : bs[i].to # E!Ongoing
      BY <1>1, <2>9
    <3>2. \A i \in 1 .. Len(all) : i # Len(all) => i \in 1 .. Len(bs) /\ all[i] = bs[i]
      BY <1>1, <2>5
    <3>3. \A i \in 1 .. Len(all) : all[i].to <= n
      BY <2>2, <2>5, <3>1, <3>2 DEF Chain
    <3>4. ASSUME NEW i \in 1 .. Len(all), NEW j \in 1 .. Len(all), i < j
          PROVE  all[i].to # E!Ongoing /\ all[i].to < all[j].from
      <4>1. i # Len(all) /\ i \in 1 .. Len(bs) /\ all[i] = bs[i]
        BY <1>1, <2>5, <3>2, <3>4
      <4>2. CASE j = Len(all)
        <5>1. r.binds # <<>>
          BY <1>1, <4>1, <2>4
        <5>2. all[j].from = n + 1
          BY <2>2, <2>3, <2>5, <4>2, <5>1
        <5>3. bs[i] \in Bonds /\ bs[i].to <= n
          BY <1>1, <3>1, <4>1 DEF Chain
        <5>4. bs[i].to \in Int
          BY <5>3 DEF Bonds
        <5> QED
          BY <3>1, <4>1, <5>2, <5>3, <5>4
      <4>3. CASE j # Len(all)
        BY <3>1, <3>2, <3>4, <4>1, <4>3 DEF Chain
      <4> QED
        BY <4>2, <4>3
    <3> QED
      BY <3>3, <3>4 DEF Chain
  <2> QED
    BY <2>7, <2>8, <2>9
<1> QED
  BY <1>2, <1>3

\* What each kind of operation carries.
LEMMA OpKinds ==
    ASSUME NEW o \in Ops
    PROVE  /\ Hooking(o) => o \in HookOps
           /\ Selecting(o) => o \in SelectOps
           /\ o.at = "bindread" => o \in LockReads
           /\ o.at = "bindwrite" => o \in LockWrites
BY DEF Ops, HookOps, SelectOps, LockReads, LockWrites, E!Idle, Hooking, Selecting

LEMMA SelectBegins ==
    ASSUME StoreInv, NEW p \in Proc, NEW s \in Session, NEW q \in Project \cup {NoProject},
           E!SelectBegin(p, s, q)
    PROVE  StoreInv'
<1> DEFINE r == ses[s]
           n == E!Top(turns[s])
           none == E!OpenIn(r) = {}
           old == IF none THEN NoSession ELSE E!ActiveIn(r)
           snap == pb[IF none THEN q ELSE E!ActiveIn(r).q]
           at == IF none THEN "open" ELSE "close"
           rec == E!SelectedRec(r, q, n)
           o == [at |-> at, s |-> s, q |-> q, rec |-> rec, last |-> n, old |-> old, snap |-> snap]
<1>1. /\ r \in Records /\ r # NoSession /\ r.h <= nh
      /\ ~overtaken => Chain(r.binds, n)
  BY DEF StoreInv, StoreType, Handed, Chained, ChainedIn, E!SelectBegin
<1>2. n \in Nat
  BY TopIs DEF StoreInv, StoreType, Numbered
<1>3. /\ op' = [op EXCEPT ![p] = o]
      /\ UNCHANGED <<ses, turns, turn, nh, sent, overtaken, pb>>
      /\ none => q # NoProject
  BY DEF E!SelectBegin, E!files
<1>4. /\ rec \in Records /\ rec.h = r.h
      /\ q # NoProject => rec.binds # <<>> /\ rec.binds[Len(rec.binds)].q = q
      /\ Chain(r.binds, n) => Chain(rec.binds, n)
  <2> HIDE DEF r, n
  <2> QED
    BY <1>1, <1>2, Selected
<1>5. ~none => E!ActiveIn(r) \in Bonds
  <2>1. ~none => E!Max(E!OpenIn(r)) \in E!OpenIn(r)
    <3> HIDE DEF r
    <3> QED
      BY <1>1, ShutBinds
  <2>2. r.binds \in Seq(Bonds)
    BY <1>1 DEF Records
  <2> DEFINE k == E!Max(E!OpenIn(r))
  <2>3. E!ActiveIn(r) = r.binds[k] /\ (~none => k \in E!OpenIn(r))
    BY <2>1 DEF E!ActiveIn
  <2> HIDE DEF r, k, none
  <2>4. ~none => k \in 1 .. Len(r.binds)
    BY <2>3 DEF E!OpenIn
  <2> QED
    BY <2>2, <2>3, <2>4
<1>6. /\ none => old = NoSession /\ at = "open" /\ snap = pb[q] /\ q \in Project
      /\ ~none => /\ old \in Bonds /\ old = E!ActiveIn(r) /\ old.q \in Project /\ at = "close"
                  /\ snap = pb[old.q]
  BY <1>3, <1>5 DEF Bonds
<1> HIDE DEF r, n, none, old, snap, at, rec
<1>7. snap \in Seq(Bonds) /\ old \in Bonds \cup {NoSession} /\ at \in {"open", "close"}
  BY <1>6 DEF StoreInv, StoreType
<1>8. o \in SelectOps /\ o \in Ops
  BY <1>2, <1>4, <1>7 DEF SelectOps, Ops
<1>9. /\ o.at = at /\ o.s = s /\ o.q = q /\ o.rec = rec /\ o.old = old /\ o.snap = snap
  OBVIOUS
<1> HIDE DEF o
<1>10. NumberedOp(o, sent)
  BY <1>7, <1>9 DEF NumberedOp, Hooking
<1>11. HandedOp(o, nh)
  BY <1>1, <1>4, <1>9 DEF HandedOp
<1>12. ~overtaken => ChainedOp(o)
  BY <1>1, <1>4, <1>9 DEF ChainedOp, n
<1>13. Sorted(o)
  <2>1. AllOf(snap, IF none THEN q ELSE old.q)
    BY <1>6 DEF StoreInv, InProject
  <2>2. q # NoProject => Opens(o)
    BY <1>4, <1>9 DEF Opens
  <2> QED
    BY <1>3, <1>6, <1>9, <2>1, <2>2 DEF Sorted
<1>14. pb' \in [Project -> Seq(Bonds)] /\ \A x \in Project : AllOf(pb'[x], x)
  BY <1>3 DEF StoreInv, StoreType, InProject
<1> QED
  BY <1>3, <1>8, <1>10, <1>11, <1>12, <1>13, <1>14, QuietStore

LEMMA BondEnded ==
    ASSUME NEW b \in Bonds, NEW m \in Nat
    PROVE  [b EXCEPT !.to = m] \in Bonds /\ [b EXCEPT !.to = m].q = b.q
BY DEF Bonds

LEMMA SelectCloses ==
    ASSUME StoreInv, NEW p \in Proc, E!SelectClose(p)
    PROVE  StoreInv'
<1> DEFINE o == op[p]
           new == IF o.q = NoProject THEN [o EXCEPT !.at = "save"]
                  ELSE [o EXCEPT !.at = "open", !.snap = pb[o.q]]
           bs == E!ClosedIn(o.snap, o.old, o.last)
<1>1. o \in Ops /\ o.at = "close"
  BY DEF StoreInv, StoreType, E!SelectClose
<1>2. o \in SelectOps
  BY <1>1, OpKinds DEF Selecting
<1>3. /\ o.old \in Bonds /\ AllOf(o.snap, o.old.q)
      /\ o.q # NoProject => Opens(o)
  BY <1>1 DEF StoreInv, InProject, Sorted
<1>4. /\ op' = [op EXCEPT ![p] = new]
      /\ pb' = [pb EXCEPT ![o.old.q] = bs]
      /\ UNCHANGED <<ses, turns, turn, nh, sent, overtaken>>
  <2>1. op' = IF o.q = NoProject THEN [op EXCEPT ![p].at = "save"]
              ELSE [op EXCEPT ![p].at = "open", ![p].snap = pb[o.q]]
    BY DEF E!SelectClose, E!Goto
  <2>2. [op EXCEPT ![p].at = "save"] = [op EXCEPT ![p] = [op[p] EXCEPT !.at = "save"]]
    OBVIOUS
  <2>3. [op EXCEPT ![p].at = "open", ![p].snap = pb[o.q]]
          = [op EXCEPT ![p] = [op[p] EXCEPT !.at = "open", !.snap = pb[o.q]]]
    BY DEF StoreInv, StoreType
  <2> QED
    BY <2>1, <2>2, <2>3 DEF E!SelectClose
<1>5. bs \in Seq(Bonds) /\ AllOf(bs, o.old.q)
  <2>1. o.snap \in Seq(Bonds) /\ o.last \in Nat
    BY <1>2 DEF SelectOps
  <2> DEFINE l == o.snap
             m == o.last
             old == o.old
  <2>2. bs = [i \in 1 .. Len(l) |-> IF l[i].h = old.h /\ l[i].from = old.from
                                    THEN [l[i] EXCEPT !.to = m] ELSE l[i]]
    BY DEF E!ClosedIn
  <2> HIDE DEF l, m, old, bs
  <2>3. l \in Seq(Bonds) /\ m \in Nat /\ AllOf(l, old.q)
    BY <1>3, <2>1 DEF l, m, old
  <2>4. \A i \in 1 .. Len(l) : l[i] \in Bonds
    BY <2>3
  <2>5. \A i \in 1 .. Len(l) : [l[i] EXCEPT !.to = m] \in Bonds /\ [l[i] EXCEPT !.to = m].q = l[i].q
    BY <2>3, <2>4, BondEnded
  <2>6. \A i \in 1 .. Len(l) : bs[i] \in Bonds /\ bs[i].q = l[i].q
    BY <2>2, <2>4, <2>5
  <2>7. bs \in Seq(Bonds) /\ Len(bs) = Len(l)
    BY <2>2, <2>3, <2>6
  <2> QED
    BY <2>3, <2>6, <2>7 DEF AllOf, old
<1>6. pb' \in [Project -> Seq(Bonds)] /\ \A x \in Project : AllOf(pb'[x], x)
  <2>1. pb \in [Project -> Seq(Bonds)] /\ \A x \in Project : AllOf(pb[x], x)
    BY DEF StoreInv, StoreType, InProject
  <2> HIDE DEF bs
  <2> QED
    BY <1>4, <1>5, <2>1
<1>7. /\ new \in SelectOps /\ new.at \in {"save", "open"} /\ new.s = o.s /\ new.rec = o.rec
      /\ new.q = o.q
      /\ new.at = "open" => new.snap = pb[o.q] /\ Opens(o)
  <2>1. CASE o.q = NoProject
    BY <1>2, <2>1 DEF SelectOps
  <2>2. CASE o.q # NoProject
    <3>1. Opens(o) /\ o.q \in Project /\ pb[o.q] \in Seq(Bonds)
      BY <1>3, <2>2 DEF Opens, StoreInv, StoreType
    <3> QED
      BY <1>2, <2>2, <3>1 DEF SelectOps
  <2> QED
    BY <2>1, <2>2
<1> HIDE DEF new
<1>8. new \in Ops
  BY <1>7 DEF Ops
<1>9. NumberedOp(new, sent)
  BY <1>7 DEF NumberedOp, Hooking
<1>10. HandedOp(new, nh)
  BY <1>1, <1>7 DEF StoreInv, Handed, HandedOp, Holding, Selecting
<1>11. ~overtaken => ChainedOp(new)
  BY <1>1, <1>7 DEF StoreInv, Chained, ChainedOp, Holding, Selecting, E!Present
<1>12. Sorted(new)
  BY <1>7 DEF Sorted, Opens, StoreInv, InProject
<1> HIDE DEF o
<1> QED
  BY <1>4, <1>6, <1>8, <1>9, <1>10, <1>11, <1>12, QuietStore

LEMMA SelectOpens ==
    ASSUME StoreInv, NEW p \in Proc, E!SelectOpen(p)
    PROVE  StoreInv'
<1> DEFINE o == op[p]
           new == [o EXCEPT !.at = "save"]
           b == o.rec.binds[Len(o.rec.binds)]
           bs == Append(o.snap, b)
<1>1. o \in Ops /\ o.at = "open"
  BY DEF StoreInv, StoreType, E!SelectOpen
<1>2. o \in SelectOps
  BY <1>1, OpKinds DEF Selecting
<1>3. AllOf(o.snap, o.q) /\ Opens(o)
  BY <1>1 DEF StoreInv, InProject, Sorted
<1>4. /\ op' = [op EXCEPT ![p] = new]
      /\ pb' = [pb EXCEPT ![o.q] = bs]
      /\ UNCHANGED <<ses, turns, turn, nh, sent, overtaken>>
  <2>1. [op EXCEPT ![p].at = "save"] = [op EXCEPT ![p] = [op[p] EXCEPT !.at = "save"]]
    OBVIOUS
  <2> QED
    BY <2>1 DEF E!SelectOpen, E!Goto
<1>5. bs \in Seq(Bonds) /\ AllOf(bs, o.q)
  <2>1. o.snap \in Seq(Bonds) /\ o.rec.binds \in Seq(Bonds)
    BY <1>2 DEF SelectOps, Records
  <2>2. b \in Bonds /\ b.q = o.q
    BY <1>3, <2>1 DEF Opens
  <2> DEFINE l == o.snap
  <2> HIDE DEF b
  <2>3. /\ bs \in Seq(Bonds) /\ Len(bs) = Len(l) + 1 /\ bs[Len(l) + 1] = b
        /\ \A i \in 1 .. Len(l) : bs[i] = l[i]
    BY <2>1, <2>2
  <2> HIDE DEF l, bs
  <2>4. \A i \in 1 .. Len(l) : l[i].q = o.q
    BY <1>3 DEF AllOf, l
  <2>5. l \in Seq(Bonds)
    BY <2>1 DEF l
  <2>6. \A i \in 1 .. Len(bs) : i \in 1 .. Len(l) \/ i = Len(l) + 1
    BY <2>3, <2>5
  <2> QED
    BY <2>2, <2>3, <2>4, <2>6 DEF AllOf
<1>6. pb' \in [Project -> Seq(Bonds)] /\ \A x \in Project : AllOf(pb'[x], x)
  <2>1. pb \in [Project -> Seq(Bonds)] /\ \A x \in Project : AllOf(pb[x], x)
    BY DEF StoreInv, StoreType, InProject
  <2> HIDE DEF bs
  <2> QED
    BY <1>4, <1>5, <2>1
<1>7. new \in SelectOps /\ new.at = "save" /\ new.s = o.s /\ new.rec = o.rec
  BY <1>2 DEF SelectOps
<1> HIDE DEF new
<1>8. new \in Ops
  BY <1>7 DEF Ops
<1>9. NumberedOp(new, sent)
  BY <1>7 DEF NumberedOp, Hooking
<1>10. HandedOp(new, nh)
  BY <1>1, <1>7 DEF StoreInv, Handed, HandedOp, Holding, Selecting
<1>11. ~overtaken => ChainedOp(new)
  BY <1>1, <1>7 DEF StoreInv, Chained, ChainedOp, Holding, Selecting, E!Present
<1>12. Sorted(new)
  BY <1>7 DEF Sorted
<1> HIDE DEF o
<1> QED
  BY <1>4, <1>6, <1>8, <1>9, <1>10, <1>11, <1>12, QuietStore

\* A process that is through, or dies, has nothing in hand.
LEMMA Idles ==
    ASSUME StoreInv, NEW p \in Proc, E!Done(p), UNCHANGED <<ses, turns, turn, nh, sent, overtaken>>,
           pb' \in [Project -> Seq(Bonds)], \A q \in Project : AllOf(pb'[q], q)
    PROVE  StoreInv'
<1>1. op' = [op EXCEPT ![p] = E!Idle]
  BY DEF E!Done
<1>2. E!Idle \in Ops /\ E!Idle.at = "idle"
  BY DEF Ops, E!Idle
<1>3. NumberedOp(E!Idle, sent) /\ HandedOp(E!Idle, nh) /\ ChainedOp(E!Idle) /\ Sorted(E!Idle)
  BY <1>2 DEF NumberedOp, HandedOp, ChainedOp, Sorted, Holding, Hooking, Selecting
<1> QED
  BY <1>1, <1>2, <1>3, QuietStore

\* The step of a hook that writes its pair.
LEMMA HookPairs ==
    ASSUME StoreInv, NEW p \in Proc, E!HookPair(p)
    PROVE  StoreInv'
<1> DEFINE o == op[p]
           new == [o EXCEPT !.at = "finish"]
<1>1. o \in Ops /\ o.at = "pair"
  BY DEF StoreInv, StoreType, E!HookPair
<1>2. o \in HookOps
  BY <1>1, OpKinds DEF Hooking
<1>3. op' = [op EXCEPT ![p] = new] /\ UNCHANGED <<ses, turns, turn, nh, sent, overtaken, pb>>
  <2>1. [op EXCEPT ![p].at = "finish"] = [op EXCEPT ![p] = [op[p] EXCEPT !.at = "finish"]]
    OBVIOUS
  <2> QED
    BY <2>1 DEF E!HookPair, E!Goto
<1>4. /\ new \in HookOps /\ new.at = "finish" /\ new.s = o.s /\ new.rec = o.rec
      /\ new.prior = o.prior /\ new.item = o.item
  BY <1>2 DEF HookOps
<1> HIDE DEF new
<1>5. new \in Ops
  BY <1>4 DEF Ops
<1>6. NumberedOp(new, sent)
  BY <1>1, <1>4 DEF StoreInv, Numbered, NumberedOp, Hooking
<1>7. HandedOp(new, nh)
  BY <1>1, <1>4 DEF StoreInv, Handed, HandedOp, Holding, Hooking
<1>8. ~overtaken => ChainedOp(new)
  BY <1>1, <1>4 DEF StoreInv, Chained, ChainedOp, Holding, Hooking, E!Present
<1>9. Sorted(new)
  BY <1>4 DEF Sorted
<1>10. pb' \in [Project -> Seq(Bonds)] /\ \A x \in Project : AllOf(pb'[x], x)
  BY <1>3 DEF StoreInv, StoreType, InProject
<1> HIDE DEF o
<1> QED
  BY <1>3, <1>5, <1>6, <1>7, <1>8, <1>9, <1>10, QuietStore

(***************************************************************************)
(* The lock.                                                               *)
(***************************************************************************)
\* The session of a receipted binding is there.
LEMMA SessionThere ==
    ASSUME NEW b, E!Receipted(b)
    PROVE  /\ E!SessionOf(b) \in Session /\ ses[E!SessionOf(b)] # NoSession
           /\ ses[E!SessionOf(b)].h = b.h
BY DEF E!Receipted, E!SessionOf

\* A captured turn is a prompt in the log of its binding's session.
LEMMA TurnIs ==
    ASSUME StoreType, NEW b, E!Receipted(b), NEW t \in E!TurnsOf(b)
    PROVE  /\ t.h = b.h /\ t.ord \in Nat /\ t.prop \in Nat
           /\ b.from <= t.ord /\ (b.to = E!Ongoing \/ t.ord <= b.to)
<1> DEFINE s == E!SessionOf(b)
           l == turns[s]
<1>1. s \in Session /\ l \in Seq(Events)
  BY SessionThere DEF StoreType
<1>2. PICK e \in E!Range(l) :
        /\ b.from <= e.ord /\ (b.to = E!Ongoing \/ e.ord <= b.to)
        /\ t = [h |-> b.h, ord |-> e.ord, low |-> e.text = "yes",
                prop |-> E!Proposal(s, b.h, e.ord), inc |-> E!Inconsistent(s, b.h, e.ord)]
  BY DEF E!TurnsOf
<1> HIDE DEF s
<1>3. E!Range(l) \subseteq Events
  BY <1>1 DEF E!Range
<1>4. \A x \in Events : x.ord \in Nat
  BY DEF Events
<1>5. E!Proposal(s, b.h, e.ord) \in Nat
  <2> DEFINE o == pairs[s][E!Max(E!Frozen(s, b.h, e.ord))].prop
  <2>1. E!Proposal(s, b.h, e.ord) = IF E!Frozen(s, b.h, e.ord) = {} THEN 0
          ELSE IF \E x \in E!Range(l) : x.ev = "stop" /\ x.ord = o THEN o ELSE 0
    BY DEF E!Proposal
  <2> HIDE DEF o, l
  <2>2. (\E x \in E!Range(l) : x.ev = "stop" /\ x.ord = o) => o \in Nat
    BY <1>3, <1>4
  <2> QED
    BY <2>1, <2>2
<1>6. t.h = b.h /\ t.ord = e.ord /\ t.prop = E!Proposal(s, b.h, e.ord)
  BY <1>2
<1> QED
  BY <1>2, <1>3, <1>4, <1>5, <1>6

LEMMA ChosenIs ==
    ASSUME StoreType, NEW q \in Project, NEW i \in E!Bindings(q)
    PROVE  \E j \in E!Bindings(q) : E!Chosen(q, pb[q][i].h) = pb[q][j]
<1> DEFINE h == pb[q][i].h
           own == {x \in E!Bindings(q) : pb[q][x].h = h}
           open == {x \in own : pb[q][x].to = E!Ongoing}
           S == IF open # {} THEN open ELSE own
<1>1. i \in own
  OBVIOUS
<1>2. S # {} /\ S \subseteq own
  BY <1>1
<1>3. pb[q] \in Seq(Bonds) /\ E!Bindings(q) \subseteq 1 .. Len(pb[q])
  BY DEF StoreType, E!Bindings
<1>4. own \subseteq E!Bindings(q)
  OBVIOUS
<1>5. E!Chosen(q, h) = pb[q][E!Max(S)]
  BY DEF E!Chosen
<1> HIDE DEF S, own, h
<1>6. S \subseteq 0 .. Len(pb[q]) /\ Len(pb[q]) \in Nat
  BY <1>2, <1>3, <1>4
<1>7. E!Max(S) \in S
  BY <1>2, <1>6, GreatestOrdinal
<1> QED
  BY <1>2, <1>4, <1>5, <1>7 DEF h

LEMMA LockBegins ==
    ASSUME StoreInv, NEW p \in Proc, NEW q \in Project, E!LockBegin(p, q)
    PROVE  StoreInv'
<1>1. PICK i \in E!Bindings(q) :
        LET b == E!Chosen(q, pb[q][i].h) IN
        \E t \in E!TurnsOf(b) : op' = [op EXCEPT ![p] = [at |-> "bindread", q |-> q, b |-> b,
                                                conf |-> [reply |-> t.ord, prop |-> t.prop]]]
  BY DEF E!LockBegin
<1>2. PICK j \in E!Bindings(q) : E!Chosen(q, pb[q][i].h) = pb[q][j]
  BY ChosenIs DEF StoreInv
<1> DEFINE b == pb[q][j]
<1>3. b \in Bonds /\ E!Receipted(b)
  BY DEF E!Bindings, StoreInv, StoreType
<1>4. PICK t \in E!TurnsOf(b) :
        op' = [op EXCEPT ![p] = [at |-> "bindread", q |-> q, b |-> b,
                                 conf |-> [reply |-> t.ord, prop |-> t.prop]]]
  BY <1>1, <1>2
<1>5. t.ord \in Nat /\ t.prop \in Nat
  BY <1>3, TurnIs DEF StoreInv
<1> DEFINE new == [at |-> "bindread", q |-> q, b |-> b, conf |-> [reply |-> t.ord, prop |-> t.prop]]
<1> HIDE DEF b
<1>6. new \in LockReads /\ new \in Ops /\ new.at = "bindread"
  BY <1>3, <1>5 DEF LockReads, Confs, Ops
<1>7. op' = [op EXCEPT ![p] = new]
  BY <1>4
<1> HIDE DEF new
<1>8. NumberedOp(new, sent) /\ HandedOp(new, nh) /\ ChainedOp(new) /\ Sorted(new)
  BY <1>6 DEF NumberedOp, HandedOp, ChainedOp, Sorted, Holding, Hooking, Selecting
<1>9. /\ UNCHANGED <<ses, turns, turn, nh, sent, overtaken>>
      /\ pb' \in [Project -> Seq(Bonds)] /\ \A x \in Project : AllOf(pb'[x], x)
  BY DEF E!LockBegin, E!files, StoreInv, StoreType, InProject
<1> QED
  BY <1>6, <1>7, <1>8, <1>9, QuietStore

LEMMA LockReadsOn ==
    ASSUME StoreInv, NEW p \in Proc, E!LockRead(p)
    PROVE  StoreInv'
<1> DEFINE o == op[p]
           new == [at |-> "bindwrite", q |-> o.q, b |-> o.b, conf |-> o.conf, snap |-> pb[o.q]]
<1>1. o \in LockReads
  BY OpKinds DEF StoreInv, StoreType, E!LockRead
<1>2. /\ UNCHANGED <<ses, turns, turn, nh, sent, overtaken>>
      /\ pb' \in [Project -> Seq(Bonds)] /\ \A x \in Project : AllOf(pb'[x], x)
  BY DEF E!LockRead, E!files, StoreInv, StoreType, InProject
<1>3. op' = [op EXCEPT ![p] = new] \/ E!Done(p)
  BY DEF E!LockRead, E!Done
<1>4. CASE op' = [op EXCEPT ![p] = new]
  <2>1. /\ new \in LockWrites /\ new \in Ops /\ new.at = "bindwrite" /\ new.q = o.q
        /\ new.snap = pb[o.q] /\ o.q \in Project
    BY <1>1 DEF LockReads, LockWrites, Ops, StoreInv, StoreType
  <2> HIDE DEF new
  <2>2. NumberedOp(new, sent) /\ HandedOp(new, nh) /\ ChainedOp(new)
    BY <2>1 DEF NumberedOp, HandedOp, ChainedOp, Holding, Hooking, Selecting
  <2>3. Sorted(new)
    BY <2>1 DEF Sorted, StoreInv, InProject
  <2> QED
    BY <1>2, <1>4, <2>1, <2>2, <2>3, QuietStore
<1>5. CASE E!Done(p)
  BY <1>2, <1>5, Idles
<1> QED
  BY <1>3, <1>4, <1>5

LEMMA BondConfirmed ==
    ASSUME NEW b \in Bonds, NEW c \in Confs
    PROVE  [b EXCEPT !.conf = c] \in Bonds /\ [b EXCEPT !.conf = c].q = b.q
BY DEF Bonds

LEMMA LockWritesOn ==
    ASSUME StoreInv, NEW p \in Proc, E!LockWrite(p)
    PROVE  StoreInv'
<1> DEFINE o == op[p]
           l == o.snap
           bs == [i \in 1 .. Len(l) |-> IF E!Same(l[i], o.b) THEN [l[i] EXCEPT !.conf = o.conf]
                                        ELSE l[i]]
<1>1. o \in LockWrites /\ o.at = "bindwrite"
  BY OpKinds DEF StoreInv, StoreType, E!LockWrite
<1>2. /\ UNCHANGED <<ses, turns, turn, nh, sent, overtaken>> /\ E!Done(p)
      /\ pb' = [pb EXCEPT ![o.q] = bs]
  BY DEF E!LockWrite
<1>3. l \in Seq(Bonds) /\ o.conf \in Confs /\ o.q \in Project
  BY <1>1 DEF LockWrites
<1>4. AllOf(l, o.q)
  BY <1>1 DEF StoreInv, InProject, Sorted
<1>5. \A i \in 1 .. Len(l) : l[i] \in Bonds
  BY <1>3
<1> DEFINE c == o.conf
<1> HIDE DEF c
<1>6. \A i \in 1 .. Len(l) : [l[i] EXCEPT !.conf = c] \in Bonds /\ [l[i] EXCEPT !.conf = c].q = l[i].q
  BY <1>3, <1>5, BondConfirmed DEF c
<1>7. \A i \in 1 .. Len(l) : bs[i] \in Bonds /\ bs[i].q = l[i].q
  BY <1>5, <1>6 DEF c
<1>8. bs \in Seq(Bonds) /\ Len(bs) = Len(l)
  <2>1. bs = [i \in 1 .. Len(l) |-> bs[i]]
    OBVIOUS
  <2> HIDE DEF l, bs
  <2> QED
    BY <1>3, <1>7, <2>1
<1> HIDE DEF l, bs
<1>9. AllOf(bs, o.q)
  BY <1>4, <1>7, <1>8 DEF AllOf
<1>10. pb' \in [Project -> Seq(Bonds)] /\ \A x \in Project : AllOf(pb'[x], x)
  <2>1. pb \in [Project -> Seq(Bonds)] /\ \A x \in Project : AllOf(pb[x], x)
    BY DEF StoreInv, StoreType, InProject
  <2> QED
    BY <1>2, <1>3, <1>8, <1>9, <2>1
<1> QED
  BY <1>2, <1>10, Idles

(***************************************************************************)
(* Steps that touch sessions and logs.                                     *)
(***************************************************************************)
\* An operation puts its record back, and no other session's: if its session is
\* still there, nothing is new under the handle; if it is not, overtaken tells.
LEMMA RecordSaved ==
    ASSUME StoreInv, NEW p \in Proc, Holding(op[p]), NEW r \in Records,
           r.h = op[p].rec.h, r.binds = op[p].rec.binds,
           ses' = [ses EXCEPT ![op[p].s] = r], op[p].s \in Session,
           NEW o \in Ops, op' = [op EXCEPT ![p] = o],
           ~Hooking(o), Sorted(o), Holding(o) => o.rec = op[p].rec /\ o.s = op[p].s,
           overtaken' \in BOOLEAN, ~overtaken' => ~overtaken /\ E!Present(op[p]),
           UNCHANGED <<turns, turn, nh, sent, pb>>
    PROVE  StoreInv'
<1> DEFINE s0 == op[p].s
           h == r.h
<1>1. /\ op' \in [Proc -> Ops] /\ op'[p] = o
      /\ \A x \in Proc : x # p => op'[x] = op[x]
  BY OpStep DEF StoreInv, StoreType
<1>2. /\ ses' \in [Session -> Records \cup {NoSession}] /\ ses'[s0] = r
      /\ \A s \in Session : s # s0 => ses'[s] = ses[s]
  BY DEF StoreInv, StoreType
<1>3. h <= nh
  BY DEF StoreInv, Handed, HandedOp
<1>4. NumberedOp(o, sent) /\ HandedOp(o, nh) /\ Sorted(o)
  BY <1>3 DEF NumberedOp, HandedOp
<1>5. StoreType'
  BY <1>1, <1>2 DEF StoreInv, StoreType
<1>6. Numbered'
  BY <1>1, <1>4 DEF StoreInv, Numbered
<1>7. Handed'
  BY <1>1, <1>2, <1>3, <1>4 DEF StoreInv, Handed
<1>8. InProject'
  BY <1>1, <1>4 DEF StoreInv, InProject
<1>9. ~overtaken' => OwnHandle' /\ Chained'
  <2> SUFFICES ASSUME ~overtaken' PROVE OwnHandle' /\ Chained'
    OBVIOUS
  <2>1. /\ OwnHandle /\ Chained /\ E!Present(op[p])
        /\ ses[s0] # NoSession /\ ses[s0].h = h
    BY DEF StoreInv, E!Present
  <2>2. \A s \in Session : ses'[s] # NoSession => ses[s] # NoSession /\ ses'[s].h = ses[s].h
    BY <1>2, <2>1
  <2>3. OwnHandle'
    BY <2>1, <2>2 DEF OwnHandle
  <2>4. Chain(r.binds, E!Top(turns[s0]))
    BY <2>1 DEF Chained, ChainedOp
  <2>5. ASSUME NEW s \in Session PROVE ChainedIn(s)'
    <3>1. CASE s = s0
      BY <1>2, <2>4, <3>1 DEF ChainedIn
    <3>2. CASE s # s0
      BY <1>2, <2>1, <3>2 DEF Chained, ChainedIn
    <3> QED
      BY <3>1, <3>2
  <2>6. ASSUME NEW x \in Proc PROVE ChainedOp(op[x])'
    <3>1. CASE x = p
      BY <1>1, <2>4, <3>1 DEF ChainedOp, Holding, Hooking, Selecting
    <3>2. CASE x # p
      <4>1. op'[x] = op[x] /\ ChainedOp(op[x]) /\ op[x] \in Ops
        BY <1>1, <2>1, <3>2 DEF Chained, StoreInv, StoreType
      <4>2. Holding(op[x]) => op[x].s \in Session
        BY <4>1, OpKinds DEF Holding, HookOps, SelectOps
      <4> QED
        BY <2>2, <4>1, <4>2 DEF ChainedOp, E!Present
    <3> QED
      BY <3>1, <3>2
  <2> QED
    BY <2>3, <2>5, <2>6 DEF Chained
<1> QED
  BY <1>5, <1>6, <1>7, <1>8, <1>9 DEF StoreInv

LEMMA SelectSaves ==
    ASSUME StoreInv, NEW p \in Proc, E!SelectSave(p)
    PROVE  StoreInv'
<1> DEFINE o == op[p]
           new == [o EXCEPT !.at = "saved"]
<1>1. o \in SelectOps /\ Holding(o) /\ o.rec \in Records /\ o.s \in Session
  BY OpKinds DEF StoreInv, StoreType, E!SelectSave, Selecting, Holding, SelectOps
<1>2. op' = [op EXCEPT ![p] = new]
  <2>1. [op EXCEPT ![p].at = "saved"] = [op EXCEPT ![p] = [op[p] EXCEPT !.at = "saved"]]
    OBVIOUS
  <2> QED
    BY <2>1 DEF E!SelectSave, E!Goto
<1>3. /\ new \in SelectOps /\ new \in Ops /\ new.at = "saved" /\ new.rec = o.rec /\ new.s = o.s
  BY <1>1 DEF SelectOps, Ops
<1> HIDE DEF new
<1>4. /\ ses' = [ses EXCEPT ![o.s] = o.rec] /\ UNCHANGED <<turns, turn, nh, sent, pb>>
      /\ overtaken' = (overtaken \/ ~E!Present(o))
  BY DEF E!SelectSave
<1>5. ~Hooking(new) /\ Sorted(new)
  BY <1>3 DEF Hooking, Sorted
<1> QED
  BY <1>1, <1>2, <1>3, <1>4, <1>5, RecordSaved

(***************************************************************************)
(* The hook.                                                               *)
(***************************************************************************)
\* What the host reports has the shape of an event, and is no marker.
LEMMA Reported ==
    ASSUME StoreType, NEW s \in Session, NEW x \in E!Reports(s)
    PROVE  x.ev \in Kinds \ {"evicted"} /\ x.turn \in Nat /\ x.text \in Texts
<1>1. turn[s] \in Nat
  BY DEF StoreType
<1>2. E!Max({1, turn[s] - 1}) \in Nat \/ turn[s] = 0
  <2> DEFINE S == {1, turn[s] - 1}
  <2>1. turn[s] # 0 => S \subseteq 0 .. turn[s] + 1 /\ S # {}
    BY <1>1
  <2> HIDE DEF S
  <2>2. turn[s] # 0 => E!Max(S) \in S
    BY <1>1, <2>1, GreatestOrdinal
  <2>3. turn[s] # 0 => E!Max(S) \in Nat
    BY <1>1, <2>1, <2>2
  <2> QED
    BY <2>3 DEF S
<1> DEFINE m == E!Max({1, turn[s] - 1})
<1> HIDE DEF m
<1>3. \/ x = [ev |-> "start", turn |-> 0, text |-> ""] \/ x = [ev |-> "end", turn |-> 0, text |-> ""]
      \/ x \in [ev : {"prompt"}, turn : {turn[s] + 1}, text : E!PromptText]
      \/ turn[s] # 0 /\ x \in [ev : {"stop"}, turn : {turn[s], m}, text : StopText]
      \/ turn[s] # 0 /\ x \in [ev : {"interrupt"}, turn : {turn[s]}, text : {""}]
  BY DEF E!Reports, m
<1>4. turn[s] # 0 => m \in Nat
  BY <1>2 DEF m
<1>5. CASE x = [ev |-> "start", turn |-> 0, text |-> ""]
  BY <1>5 DEF Kinds, Texts
<1>6. CASE x = [ev |-> "end", turn |-> 0, text |-> ""]
  BY <1>6 DEF Kinds, Texts
<1>7. CASE x \in [ev : {"prompt"}, turn : {turn[s] + 1}, text : E!PromptText]
  <2>1. x.ev = "prompt" /\ x.turn = turn[s] + 1 /\ x.text \in E!PromptText
    BY <1>7
  <2>2. x.ev \in Kinds \ {"evicted"} /\ x.turn \in Nat
    BY <1>1, <2>1 DEF Kinds
  <2>3. x.text \in Texts
    BY <2>1 DEF Texts
  <2> QED
    BY <2>2, <2>3
<1>8. CASE turn[s] # 0 /\ x \in [ev : {"stop"}, turn : {turn[s], m}, text : StopText]
  <2>1. x.ev = "stop" /\ x.turn \in {turn[s], m} /\ x.text \in StopText
    BY <1>8
  <2> QED
    BY <1>1, <1>4, <1>8, <2>1 DEF Kinds, Texts
<1>9. CASE turn[s] # 0 /\ x \in [ev : {"interrupt"}, turn : {turn[s]}, text : {""}]
  <2>1. x.ev = "interrupt" /\ x.turn = turn[s] /\ x.text = ""
    BY <1>9
  <2> QED
    BY <1>1, <2>1 DEF Kinds, Texts
<1> QED
  BY <1>3, <1>5, <1>7, <1>8, <1>9, <1>6

\* What a hook loads and holds, of the report x after a sweep of `old'.
Loads(p, s, x, old) ==
    LET fresh == ses[s] = NoSession \/ s \in old
        rec   == IF fresh THEN [h |-> nh + 1, announce |-> TRUE, binds |-> << >>,
                                ended |-> FALSE]
                 ELSE ses[s]
        prior == IF s \in old THEN << >> ELSE turns[s]
    IN  /\ ses' = [z \in Session |-> IF z = s THEN rec
                                     ELSE IF z \in old THEN NoSession ELSE ses[z]]
        /\ turns' = [z \in Session |-> IF z \in old THEN << >> ELSE turns[z]]
        /\ nh' = IF fresh THEN nh + 1 ELSE nh
        /\ turn' = [turn EXCEPT ![s] = IF x.ev = "prompt" THEN x.turn ELSE @]
        /\ op' = [op EXCEPT ![p] = [at |-> "append", s |-> s, rec |-> rec, prior |-> prior,
                     item |-> [ord |-> E!Top(prior) + 1, ev |-> x.ev,
                               turn |-> x.turn, text |-> x.text]]]

LEMMA HookBegins ==
    ASSUME StoreInv, NEW p \in Proc, NEW s \in Session, E!HookBegin(p, s)
    PROVE  StoreInv'
<1>1. \E x \in E!Reports(s) : \E old \in E!Swept(x.ev) : Loads(p, s, x, old)
  BY DEF E!HookBegin, Loads
<1> PICK x \in E!Reports(s) : \E old \in E!Swept(x.ev) : Loads(p, s, x, old)
  BY <1>1
<1> PICK old \in E!Swept(x.ev) : Loads(p, s, x, old)
  OBVIOUS
<1> DEFINE fresh == ses[s] = NoSession \/ s \in old
           rec   == IF fresh THEN [h |-> nh + 1, announce |-> TRUE, binds |-> << >>,
                                   ended |-> FALSE]
                    ELSE ses[s]
           prior == IF s \in old THEN << >> ELSE turns[s]
           item  == [ord |-> E!Top(prior) + 1, ev |-> x.ev, turn |-> x.turn, text |-> x.text]
           o     == [at |-> "append", s |-> s, rec |-> rec, prior |-> prior, item |-> item]
<1>2. /\ ses' = [z \in Session |-> IF z = s THEN rec
                                   ELSE IF z \in old THEN NoSession ELSE ses[z]]
      /\ turns' = [z \in Session |-> IF z \in old THEN << >> ELSE turns[z]]
      /\ nh' = IF fresh THEN nh + 1 ELSE nh
      /\ turn' = [turn EXCEPT ![s] = IF x.ev = "prompt" THEN x.turn ELSE @]
      /\ op' = [op EXCEPT ![p] = o]
  BY DEF Loads
<1>3. sent' = sent + 1 /\ UNCHANGED <<pb, overtaken>>
  BY DEF E!HookBegin
<1>4. x.ev \in Kinds \ {"evicted"} /\ x.turn \in Nat /\ x.text \in Texts
  BY Reported DEF StoreInv
<1>5. rec \in Records /\ rec.h <= nh' /\ (fresh => rec.h = nh + 1 /\ rec.binds = <<>>)
      /\ (~fresh => rec = ses[s])
  <2>1. fresh => rec = [h |-> nh + 1, announce |-> TRUE, binds |-> << >>, ended |-> FALSE]
    OBVIOUS
  <2>2. ~fresh => ses[s] \in Records /\ ses[s].h <= nh
    BY DEF StoreInv, StoreType, Handed
  <2>3. <<>> \in Seq(Bonds) /\ nh \in Nat
    BY DEF StoreInv, StoreType
  <2>4. nh' = IF fresh THEN nh + 1 ELSE nh
    BY <1>2
  <2> HIDE DEF fresh
  <2>5. CASE fresh
    BY <2>1, <2>3, <2>4, <2>5 DEF Records
  <2>6. CASE ~fresh
    BY <2>2, <2>4, <2>6
  <2> QED
    BY <2>5, <2>6
<1>6. prior \in Seq(Events) /\ UpTo(prior, sent)
  <2>1. <<>> \in Seq(Events) /\ UpTo(<<>>, sent)
    BY DEF UpTo
  <2>2. turns[s] \in Seq(Events) /\ UpTo(turns[s], sent)
    BY DEF StoreInv, StoreType, Numbered
  <2> QED
    BY <2>1, <2>2
<1>7. sent \in Nat /\ nh \in Nat
  BY DEF StoreInv, StoreType
<1>8. /\ nh' = (IF fresh THEN nh + 1 ELSE nh)
      /\ \A z \in Session : z \in old => turns'[z] = <<>>
      /\ \A z \in Session : z \notin old => turns'[z] = turns[z]
      /\ ses'[s] = rec
      /\ \A z \in Session : z # s /\ z \in old => ses'[z] = NoSession
      /\ \A z \in Session : z # s /\ z \notin old => ses'[z] = ses[z]
      /\ s \in old => fresh
      /\ ~fresh => ses[s] # NoSession
  BY <1>2
<1>9. item = [ord |-> E!Top(prior) + 1, ev |-> x.ev, turn |-> x.turn, text |-> x.text]
  OBVIOUS
<1>10. o.at = "append" /\ o.s = s /\ o.rec = rec /\ o.prior = prior /\ o.item = item
  OBVIOUS
<1>11. /\ ses' \in [Session -> Records \cup {NoSession}]
       /\ turns' \in [Session -> Seq(Events)] /\ turn' \in [Session -> Nat]
  <2>1. ses \in [Session -> Records \cup {NoSession}] /\ turns \in [Session -> Seq(Events)]
        /\ turn \in [Session -> Nat]
    BY DEF StoreInv, StoreType
  <2>2. <<>> \in Seq(Events)
    OBVIOUS
  <2> HIDE DEF rec
  <2>3. ses' \in [Session -> Records \cup {NoSession}]
    BY <1>2, <1>5, <2>1
  <2>4. turns' \in [Session -> Seq(Events)]
    BY <1>2, <2>1, <2>2
  <2>5. turn' \in [Session -> Nat]
    BY <1>2, <1>4, <2>1
  <2> QED
    BY <2>3, <2>4, <2>5
<1>12. E!Top(prior) \in 0 .. sent /\ \A i \in 1 .. Len(prior) : prior[i].ord <= E!Top(prior)
  <2> HIDE DEF prior
  <2> QED
    BY <1>6, <1>7, TopIs
<1>13. item \in Events /\ item.ord <= sent + 1 /\ item.ev # "evicted" /\ After(prior, item)
  <2> HIDE DEF prior, item
  <2>1. E!Top(prior) + 1 \in Nat
    BY <1>7, <1>12
  <2>2. item \in Events
    BY <1>4, <1>9, <2>1 DEF Events
  <2>3. item.ord = E!Top(prior) + 1 /\ item.ev = x.ev
    BY <1>9
  <2>4. \A i \in 1 .. Len(prior) : prior[i].ord < item.ord
    <3> SUFFICES ASSUME NEW i \in 1 .. Len(prior) PROVE prior[i].ord < item.ord
      OBVIOUS
    <3>1. prior[i] \in Events
      BY <1>6
    <3>2. prior[i].ord \in Nat /\ prior[i].ord <= E!Top(prior)
      BY <1>12, <3>1 DEF Events
    <3> QED
      BY <1>7, <1>12, <2>3, <3>2
  <2> QED
    BY <1>4, <1>7, <1>12, <2>2, <2>3, <2>4 DEF After
<1>14. o \in HookOps
  <2> HIDE DEF prior, item, rec
  <2> QED
    BY <1>5, <1>6, <1>13 DEF HookOps
<1> HIDE DEF o, item
<1>15. /\ op' \in [Proc -> Ops] /\ op'[p] = o
       /\ \A y \in Proc : y # p => op'[y] = op[y]
  <2>1. o \in Ops
    BY <1>14 DEF Ops
  <2> QED
    BY <1>2, <2>1, OpStep DEF StoreInv, StoreType
<1>16. StoreType'
  <2>1. nh' \in Nat /\ sent' \in Nat
    BY <1>3, <1>7, <1>8
  <2>2. pb' \in [Project -> Seq(Bonds)] /\ overtaken' \in BOOLEAN
    BY <1>3 DEF StoreInv, StoreType
  <2> QED
    BY <1>11, <1>15, <2>1, <2>2 DEF StoreType
<1> HIDE DEF fresh, rec, prior
<1>17. Numbered'
  <2>1. \A z \in Session : UpTo(turns'[z], sent')
    <3> SUFFICES ASSUME NEW z \in Session PROVE UpTo(turns'[z], sent')
      OBVIOUS
    <3>1. UpTo(turns[z], sent) /\ turns[z] \in Seq(Events)
      BY DEF StoreInv, StoreType, Numbered
    <3>2. \A i \in 1 .. Len(turns[z]) : turns[z][i] \in Events
      BY <3>1
    <3>3. \A i \in 1 .. Len(turns[z]) : turns[z][i].ord \in Nat
      BY <3>2 DEF Events
    <3> QED
      BY <1>3, <1>7, <1>8, <3>1, <3>3 DEF UpTo
  <2>2. NumberedOp(o, sent')
    <3>1. \A i \in 1 .. Len(prior) : prior[i] \in Events
      BY <1>6
    <3>2. \A i \in 1 .. Len(prior) : prior[i].ord \in Nat
      BY <3>1 DEF Events
    <3>3. UpTo(prior, sent + 1)
      BY <1>6, <1>7, <3>2 DEF UpTo
    <3> QED
      BY <1>3, <1>10, <1>13, <3>3 DEF NumberedOp
  <2>3. ASSUME NEW y \in Proc, y # p PROVE NumberedOp(op'[y], sent')
    <3>1. op'[y] = op[y] /\ NumberedOp(op[y], sent) /\ op[y] \in Ops
      BY <1>15, <2>3 DEF StoreInv, StoreType, Numbered
    <3>2. ASSUME Hooking(op[y]) PROVE UpTo(op[y].prior, sent + 1) /\ op[y].item.ord <= sent + 1
      <4>1. op[y] \in HookOps
        BY <3>1, <3>2, OpKinds
      <4>2. op[y].prior \in Seq(Events) /\ op[y].item.ord \in Nat
        BY <4>1 DEF HookOps, Events
      <4> DEFINE l == op[y].prior
      <4>3. l \in Seq(Events) /\ UpTo(l, sent)
        BY <3>1, <3>2, <4>2 DEF NumberedOp
      <4> HIDE DEF l
      <4>4. \A i \in 1 .. Len(l) : l[i] \in Events
        BY <4>3
      <4>5. \A i \in 1 .. Len(l) : l[i].ord \in Nat
        BY <4>4 DEF Events
      <4>6. UpTo(l, sent + 1)
        BY <1>7, <4>3, <4>5 DEF UpTo
      <4> QED
        BY <1>7, <3>1, <3>2, <4>2, <4>6 DEF NumberedOp, l
    <3> QED
      BY <1>3, <3>1, <3>2 DEF NumberedOp
  <2> QED
    BY <1>15, <2>1, <2>2, <2>3 DEF Numbered
<1>18. Handed'
  <2>1. ASSUME NEW z \in Session, ses'[z] # NoSession PROVE ses'[z].h <= nh'
    <3>1. CASE z = s
      BY <1>5, <1>8, <3>1
    <3>2. CASE z # s
      <4>1. ses'[z] = ses[z] /\ ses[z] # NoSession /\ ses[z] \in Records
        BY <1>8, <2>1, <3>2 DEF StoreInv, StoreType
      <4>2. ses[z].h <= nh /\ ses[z].h \in Nat
        BY <4>1 DEF StoreInv, Handed, Records
      <4> QED
        BY <1>7, <1>8, <4>1, <4>2
    <3> QED
      BY <3>1, <3>2
  <2>2. HandedOp(o, nh')
    BY <1>5, <1>10 DEF HandedOp
  <2>3. ASSUME NEW y \in Proc, y # p PROVE HandedOp(op'[y], nh')
    <3>1. op'[y] = op[y] /\ HandedOp(op[y], nh) /\ op[y] \in Ops
      BY <1>15, <2>3 DEF StoreInv, StoreType, Handed
    <3>2. Holding(op[y]) => op[y].rec.h \in Nat
      BY <3>1, OpKinds DEF Holding, HookOps, SelectOps, Records
    <3> QED
      BY <1>7, <1>8, <3>1, <3>2 DEF HandedOp
  <2> QED
    BY <1>15, <2>1, <2>2, <2>3 DEF Handed
<1>19. InProject'
  <2>1. Sorted(o)
    BY <1>10 DEF Sorted
  <2> QED
    BY <1>3, <1>15, <2>1 DEF StoreInv, InProject
<1>20. ~overtaken' => OwnHandle' /\ Chained'
  <2> SUFFICES ASSUME ~overtaken' PROVE OwnHandle' /\ Chained'
    OBVIOUS
  <2>1. OwnHandle /\ Chained
    BY <1>3 DEF StoreInv
  <2>2. \A z \in Session : z # s /\ ses'[z] # NoSession => ses'[z] = ses[z] /\ z \notin old
    BY <1>8
  <2>3. \A z \in Session : ses[z] # NoSession => ses[z].h \in Nat /\ ses[z].h <= nh
    BY DEF StoreInv, StoreType, Handed, Records
  <2>4. OwnHandle'
    <3> SUFFICES ASSUME NEW y \in Session, NEW z \in Session,
                        ses'[y] # NoSession, ses'[z] # NoSession, ses'[y].h = ses'[z].h
                 PROVE  y = z
      BY DEF OwnHandle
    <3>1. CASE fresh
      <4>1. ses'[s].h = nh + 1
        BY <1>5, <1>8, <3>1
      <4>2. \A u \in Session : u # s /\ ses'[u] # NoSession =>
               ses'[u] = ses[u] /\ ses[u] # NoSession /\ ses'[u].h <= nh /\ ses'[u].h \in Nat
        BY <2>2, <2>3
      <4>3. CASE y = s
        BY <1>7, <4>1, <4>2, <4>3
      <4>4. CASE y # s
        <5>1. z # s
          BY <1>7, <4>1, <4>2, <4>4
        <5> QED
          BY <2>1, <4>2, <4>4, <5>1 DEF OwnHandle
      <4> QED
        BY <4>3, <4>4
    <3>2. CASE ~fresh
      <4>1. \A u \in Session : ses'[u] # NoSession => ses'[u] = ses[u]
        BY <1>5, <1>8, <2>2, <3>2
      <4> QED
        BY <2>1, <4>1 DEF OwnHandle
    <3> QED
      BY <3>1, <3>2
  <2>5. Chain(rec.binds, E!Top(turns'[s]))
    <3>1. CASE fresh
      BY <1>5, <3>1 DEF Chain
    <3>2. CASE ~fresh
      <4>1. s \notin old /\ ses[s] # NoSession /\ rec = ses[s] /\ turns'[s] = turns[s]
        BY <1>5, <1>8, <3>2
      <4> QED
        BY <2>1, <4>1 DEF Chained, ChainedIn
    <3> QED
      BY <3>1, <3>2
  <2>6. ASSUME NEW z \in Session PROVE ChainedIn(z)'
    <3>1. CASE z = s
      <4>1. ses'[z] = rec
        BY <1>8, <3>1
      <4>2. ses'[z] # NoSession => Chain(ses'[z].binds, E!Top(turns'[z]))
        BY <2>5, <3>1, <4>1
      <4> QED
        BY <4>2 DEF ChainedIn, E!Top
    <3>2. CASE z # s
      <4>1. ses'[z] # NoSession => ses'[z] = ses[z] /\ turns'[z] = turns[z]
        BY <1>8, <2>2, <3>2
      <4>2. ses'[z] # NoSession => Chain(ses'[z].binds, E!Top(turns'[z]))
        BY <2>1, <4>1 DEF Chained, ChainedIn
      <4> QED
        BY <4>2 DEF ChainedIn, E!Top
    <3> QED
      BY <3>1, <3>2
  <2>7. ASSUME NEW y \in Proc PROVE ChainedOp(op[y])'
    <3>1. CASE y = p
      <4>1. Chain(op'[y].rec.binds, E!Top(turns'[op'[y].s]))
        BY <1>10, <1>15, <2>5, <3>1
      <4> QED
        BY <4>1 DEF ChainedOp, E!Top
    <3>2. CASE y # p
      <4> DEFINE c == op[y]
      <4>1. op'[y] = c /\ ChainedOp(c) /\ HandedOp(c, nh) /\ c \in Ops
        BY <1>15, <2>1, <3>2 DEF Chained, StoreInv, Handed, StoreType
      <4> HIDE DEF c
      <4>2. ASSUME Holding(c), ses'[c.s] # NoSession, ses'[c.s].h = c.rec.h
            PROVE  Chain(c.rec.binds, E!Top(turns'[c.s]))
        <5>1. c.s \in Session /\ c.rec.h \in Nat /\ c.rec.h <= nh
          BY <4>1, <4>2, OpKinds DEF HandedOp, Holding, HookOps, SelectOps, Records
        <5>2. ~(c.s = s /\ fresh)
          BY <1>5, <1>7, <1>8, <4>2, <5>1
        <5>3. ses'[c.s] = ses[c.s] /\ turns'[c.s] = turns[c.s]
          BY <1>5, <1>8, <2>2, <4>2, <5>1, <5>2
        <5> QED
          BY <4>1, <4>2, <5>3 DEF ChainedOp, E!Present
      <4>3. ASSUME Holding(op'[y]), ses'[op'[y].s] # NoSession, ses'[op'[y].s].h = op'[y].rec.h
            PROVE  Chain(op'[y].rec.binds, E!Top(turns'[op'[y].s]))
        BY <4>1, <4>2, <4>3
      <4> QED
        BY <4>3 DEF ChainedOp, E!Present, E!Top, Holding, Hooking, Selecting
    <3> QED
      BY <3>1, <3>2
  <2> QED
    BY <2>4, <2>6, <2>7 DEF Chained
<1> QED
  BY <1>16, <1>17, <1>18, <1>19, <1>20 DEF StoreInv

LEMMA ChainLater ==
    ASSUME NEW bs, bs \in Seq(Bonds), NEW m, NEW n, m \in Nat, n \in Nat, m <= n, Chain(bs, m)
    PROVE  Chain(bs, n)
<1>1. \A i \in 1 .. Len(bs) : bs[i] \in Bonds
  OBVIOUS
<1>2. \A i \in 1 .. Len(bs) : bs[i].to \in Int
  BY <1>1 DEF Bonds
<1> QED
  BY <1>2 DEF Chain

\* What an append leaves of a log.  Its greatest ordinal never falls while
\* overtaken says nothing, which is what a chain of bindings hangs on.
LEMMA LoggedIs ==
    ASSUME NEW o, o \in HookOps, NEW n, n \in Nat, turns[o.s] \in Seq(Events),
           UpTo(turns[o.s], n), UpTo(o.prior, n), o.item.ord <= n, After(o.prior, o.item),
           o.item.ev # "evicted", BufferMax \in Nat
    PROVE  /\ E!Logged(o) \in Seq(Events) /\ UpTo(E!Logged(o), n)
           /\ ~(E!Evicts(o) /\ turns[o.s] # o.prior) => E!Top(turns[o.s]) <= E!Top(E!Logged(o))
<1> DEFINE l == turns[o.s]
           e == o.item
           old == o.prior
           t == E!Top(l)
<1>1. e \in Events /\ old \in Seq(Events) /\ l \in Seq(Events) /\ UpTo(l, n)
  BY DEF HookOps
<1> HIDE DEF l, e, old
<1>2. e.ord \in Nat /\ e.ord <= n /\ e.ev # "evicted"
  BY <1>1 DEF Events, e
<1>3. t \in 0 .. n /\ (t = 0 \/ \E i \in 1 .. Len(l) : l[i].ord = t)
  BY <1>1, TopIs
<1>4. CASE ~E!Evicts(o)
  <2> DEFINE a == Append(l, e)
  <2>1. E!Logged(o) = a
    BY <1>4 DEF E!Logged, l, e
  <2>2. /\ a \in Seq(Events) /\ Len(a) = Len(l) + 1 /\ a[Len(l) + 1] = e
        /\ \A i \in 1 .. Len(l) : a[i] = l[i] /\ i \in 1 .. Len(a)
    BY <1>1
  <2> HIDE DEF a
  <2>3. \A i \in 1 .. Len(a) : i \in 1 .. Len(l) \/ i = Len(l) + 1
    BY <1>1, <2>2
  <2>4. UpTo(a, n)
    BY <1>1, <1>2, <2>2, <2>3 DEF UpTo
  <2>5. E!Top(a) \in 0 .. n /\ \A i \in 1 .. Len(a) : a[i].ord <= E!Top(a)
    BY <2>2, <2>4, TopIs
  <2>6. t <= E!Top(a)
    <3>1. CASE t = 0
      BY <2>5, <3>1
    <3>2. CASE t # 0
      <4>1. PICK i \in 1 .. Len(l) : l[i].ord = t
        BY <1>3, <3>2
      <4> QED
        BY <2>2, <2>5, <4>1
    <3> QED
      BY <3>1, <3>2
  <2> QED
    BY <2>1, <2>2, <2>4, <2>6 DEF l
<1>5. CASE E!Evicts(o)
  <2> DEFINE a == old \o <<e>>
             v == E!Evict(a)
  <2>1. E!Logged(o) = v
    BY <1>5 DEF E!Logged, old, e
  <2>2. /\ a \in Seq(Events) /\ a # <<>> /\ Len(a) = Len(old) + 1 /\ a[Len(a)] = e
        /\ \A i \in 1 .. Len(old) : a[i] = old[i]
    BY <1>1
  <2> HIDE DEF a
  <2>3. UpTo(a, n)
    <3>1. \A i \in 1 .. Len(a) : i \in 1 .. Len(old) \/ i = Len(a)
      BY <1>1, <2>2
    <3>2. \A i \in 1 .. Len(old) : old[i].ord <= n
      BY DEF UpTo, old
    <3> QED
      BY <1>2, <2>2, <3>1, <3>2 DEF UpTo
  <2>4. v \in Seq(Events) /\ UpTo(v, n) /\ \E i \in 1 .. Len(v) : v[i].ord = e.ord
    BY <1>2, <2>2, <2>3, EvictKeeps
  <2> HIDE DEF v
  <2>5. e.ord <= E!Top(v) /\ E!Top(v) \in 0 .. n
    BY <2>4, TopIs
  <2>6. ASSUME l = old PROVE t <= E!Top(v)
    <3>1. CASE t = 0
      BY <2>5, <3>1
    <3>2. CASE t # 0
      <4>1. PICK i \in 1 .. Len(l) : l[i].ord = t
        BY <1>3, <3>2
      <4>2. l[i].ord < e.ord
        BY <2>6, <4>1 DEF After, old, e
      <4> QED
        BY <1>2, <1>3, <2>5, <4>1, <4>2
    <3> QED
      BY <3>1, <3>2
  <2>7. ~(E!Evicts(o) /\ l # old) => t <= E!Top(v)
    BY <1>5, <2>6
  <2> QED
    BY <2>1, <2>4, <2>7 DEF l, old
<1> QED
  BY <1>4, <1>5

LEMMA HookAppends ==
    ASSUME StoreInv, BufferMax \in Nat, NEW p \in Proc, E!HookAppend(p)
    PROVE  StoreInv'
<1> DEFINE o == op[p]
           at == IF o.item.ev \in {"prompt", "stop"} THEN "pair" ELSE "finish"
           new == [o EXCEPT !.at = at]
           l == E!Logged(o)
<1>1. o \in Ops /\ o.at = "append"
  BY DEF StoreInv, StoreType, E!HookAppend
<1>2. o \in HookOps /\ Hooking(o)
  BY <1>1, OpKinds DEF Hooking
<1>3. /\ op' = [op EXCEPT ![p] = new]
      /\ turns' = [turns EXCEPT ![o.s] = l]
      /\ overtaken' = (overtaken \/ (E!Evicts(o) /\ turns[o.s] # o.prior))
      /\ UNCHANGED <<ses, pb, turn, nh, sent>>
  <2>1. op' = [op EXCEPT ![p].at = at]
    BY DEF E!HookAppend, E!Goto
  <2> HIDE DEF at
  <2>2. [op EXCEPT ![p].at = at] = [op EXCEPT ![p] = [op[p] EXCEPT !.at = at]]
    OBVIOUS
  <2> QED
    BY <2>1, <2>2 DEF E!HookAppend
<1>4. /\ new \in HookOps /\ new.at \in {"pair", "finish"} /\ new.s = o.s /\ new.rec = o.rec
      /\ new.prior = o.prior /\ new.item = o.item
  <2>1. at \in {"pair", "finish"}
    OBVIOUS
  <2> HIDE DEF at
  <2> QED
    BY <1>2, <2>1 DEF HookOps
<1>5. new \in Ops
  BY <1>4 DEF Ops
<1> HIDE DEF at, new
<1>6. o.s \in Session /\ turns[o.s] \in Seq(Events) /\ sent \in Nat
  BY <1>2 DEF HookOps, StoreInv, StoreType
<1>7. /\ UpTo(turns[o.s], sent) /\ UpTo(o.prior, sent) /\ o.item.ord <= sent
      /\ After(o.prior, o.item) /\ o.item.ev # "evicted"
  BY <1>2, <1>6 DEF StoreInv, Numbered, NumberedOp
<1>8. /\ l \in Seq(Events) /\ UpTo(l, sent)
      /\ ~overtaken' => E!Top(turns[o.s]) <= E!Top(l)
  <2> HIDE DEF o
  <2> QED
    BY <1>2, <1>3, <1>6, <1>7, LoggedIs
<1> HIDE DEF l
<1>9. /\ op' \in [Proc -> Ops] /\ op'[p] = new
      /\ \A x \in Proc : x # p => op'[x] = op[x]
  BY <1>3, <1>5, OpStep DEF StoreInv, StoreType
<1>10. /\ turns' \in [Session -> Seq(Events)] /\ turns'[o.s] = l
       /\ \A z \in Session : z # o.s => turns'[z] = turns[z]
  BY <1>3, <1>6, <1>8 DEF StoreInv, StoreType
<1>11. StoreType'
  <2>1. overtaken' \in BOOLEAN
    BY <1>3 DEF StoreInv, StoreType
  <2> QED
    BY <1>3, <1>9, <1>10, <2>1 DEF StoreInv, StoreType
<1>12. Numbered'
  <2>1. NumberedOp(new, sent)
    BY <1>4, <1>7 DEF NumberedOp
  <2>2. \A z \in Session : UpTo(turns'[z], sent)
    BY <1>8, <1>10 DEF StoreInv, Numbered
  <2> QED
    BY <1>3, <1>9, <2>1, <2>2 DEF StoreInv, Numbered, UpTo
<1>13. HandedOp(new, nh)
  BY <1>2, <1>4 DEF StoreInv, Handed, HandedOp, Holding
<1>14. Handed'
  BY <1>3, <1>9, <1>13 DEF StoreInv, Handed
<1>15. Sorted(new)
  BY <1>4 DEF Sorted
<1>16. InProject'
  BY <1>3, <1>9, <1>15 DEF StoreInv, InProject
<1>17. ~overtaken' => OwnHandle' /\ Chained'
  <2> SUFFICES ASSUME ~overtaken' PROVE OwnHandle' /\ Chained'
    OBVIOUS
  <2>1. OwnHandle /\ Chained
    BY <1>3 DEF StoreInv
  <2>2. OwnHandle'
    BY <1>3, <2>1 DEF OwnHandle
  <2>3. \A z \in Session : /\ E!Top(turns[z]) \in Nat /\ E!Top(turns'[z]) \in Nat
                           /\ E!Top(turns[z]) <= E!Top(turns'[z])
    <3> SUFFICES ASSUME NEW z \in Session
                 PROVE  /\ E!Top(turns[z]) \in Nat /\ E!Top(turns'[z]) \in Nat
                        /\ E!Top(turns[z]) <= E!Top(turns'[z])
      OBVIOUS
    <3>1. turns[z] \in Seq(Events) /\ UpTo(turns[z], sent)
      BY DEF StoreInv, StoreType, Numbered
    <3>2. E!Top(turns[z]) \in 0 .. sent
      BY <1>6, <3>1, TopIs
    <3>3. E!Top(l) \in 0 .. sent
      BY <1>6, <1>8, TopIs
    <3> QED
      BY <1>6, <1>8, <1>10, <3>2, <3>3
  <2>4. ASSUME NEW z \in Session PROVE ChainedIn(z)'
    <3>1. ASSUME ses[z] # NoSession PROVE Chain(ses[z].binds, E!Top(turns'[z]))
      <4>1. ses[z].binds \in Seq(Bonds)
        BY <3>1 DEF StoreInv, StoreType, Records
      <4>2. Chain(ses[z].binds, E!Top(turns[z]))
        BY <2>1, <3>1 DEF Chained, ChainedIn
      <4> QED
        BY <2>3, <4>1, <4>2, ChainLater
    <3> QED
      BY <1>3, <3>1 DEF ChainedIn, E!Top
  <2>5. \A c \in Ops : Holding(c) => c.rec.binds \in Seq(Bonds) /\ c.s \in Session
    BY OpKinds DEF Holding, HookOps, SelectOps, Records
  <2>6. ASSUME NEW c \in Ops, ChainedOp(c), Holding(c), E!Present(c)
        PROVE  Chain(c.rec.binds, E!Top(turns'[c.s]))
    <3>1. c.rec.binds \in Seq(Bonds) /\ c.s \in Session
      BY <2>5, <2>6
    <3>2. Chain(c.rec.binds, E!Top(turns[c.s]))
      BY <2>6 DEF ChainedOp
    <3> QED
      BY <2>3, <3>1, <3>2, ChainLater
  <2>7. ASSUME NEW x \in Proc PROVE ChainedOp(op[x])'
    <3>1. PICK c \in Ops : /\ ChainedOp(c) /\ op'[x].s = c.s /\ op'[x].rec = c.rec
                           /\ Holding(op'[x]) => Holding(c)
      <4>1. CASE x = p
        BY <1>1, <1>2, <1>4, <1>9, <2>1, <4>1 DEF Chained, Holding
      <4>2. CASE x # p
        BY <1>9, <2>1, <4>2 DEF Chained, StoreInv, StoreType
      <4> QED
        BY <4>1, <4>2
    <3>2. ASSUME Holding(op'[x]), ses'[op'[x].s] # NoSession, ses'[op'[x].s].h = op'[x].rec.h
          PROVE  Chain(op'[x].rec.binds, E!Top(turns'[op'[x].s]))
      <4>1. Holding(c) /\ E!Present(c)
        BY <1>3, <3>1, <3>2 DEF E!Present
      <4> QED
        BY <2>6, <3>1, <4>1
    <3> QED
      BY <3>2 DEF ChainedOp, E!Present, E!Top, Holding, Hooking, Selecting
  <2> QED
    BY <2>2, <2>4, <2>7 DEF Chained
<1> QED
  BY <1>11, <1>12, <1>14, <1>16, <1>17 DEF StoreInv

LEMMA Noted ==
    ASSUME NEW r, r \in Records
    PROVE  /\ [r EXCEPT !.announce = FALSE] \in Records /\ [r EXCEPT !.ended = TRUE] \in Records
           /\ [r EXCEPT !.announce = FALSE].h = r.h /\ [r EXCEPT !.announce = FALSE].binds = r.binds
           /\ [r EXCEPT !.ended = TRUE].h = r.h /\ [r EXCEPT !.ended = TRUE].binds = r.binds
BY DEF Records

LEMMA RecordNoted ==
    ASSUME StoreInv, NEW p \in Proc, Holding(op[p]), op[p].s \in Session,
           NEW r, r \in Records, r.h = op[p].rec.h, r.binds = op[p].rec.binds,
           ses' = [ses EXCEPT ![op[p].s] = r], E!Done(p),
           overtaken' \in BOOLEAN, ~overtaken' => ~overtaken /\ E!Present(op[p]),
           UNCHANGED <<turns, turn, nh, sent, pb>>
    PROVE  StoreInv'
<1>1. E!Idle \in Ops /\ E!Idle.at = "idle" /\ op' = [op EXCEPT ![p] = E!Idle]
  BY DEF Ops, E!Idle, E!Done
<1>2. ~Hooking(E!Idle) /\ ~Holding(E!Idle) /\ Sorted(E!Idle)
  BY <1>1 DEF Hooking, Holding, Selecting, Sorted
<1> QED
  BY <1>1, <1>2, RecordSaved

\* A session that is removed takes its log along.
LEMMA Discarded ==
    ASSUME StoreInv, NEW p \in Proc, NEW s \in Session, ses' = [ses EXCEPT ![s] = NoSession],
           turns' = [turns EXCEPT ![s] = <<>>], E!Done(p),
           overtaken' \in BOOLEAN, ~overtaken' => ~overtaken,
           UNCHANGED <<turn, nh, sent, pb>>
    PROVE  StoreInv'
<1>1. E!Idle \in Ops /\ E!Idle.at = "idle"
  BY DEF Ops, E!Idle
<1>2. /\ op' \in [Proc -> Ops] /\ op'[p] = E!Idle
      /\ \A x \in Proc : x # p => op'[x] = op[x]
  BY <1>1, OpStep DEF StoreInv, StoreType, E!Done
<1>3. /\ ses' \in [Session -> Records \cup {NoSession}] /\ ses'[s] = NoSession
      /\ \A z \in Session : z # s => ses'[z] = ses[z]
  BY DEF StoreInv, StoreType
<1>4. /\ turns' \in [Session -> Seq(Events)] /\ turns'[s] = <<>>
      /\ \A z \in Session : z # s => turns'[z] = turns[z]
  <2>1. <<>> \in Seq(Events)
    OBVIOUS
  <2> QED
    BY <2>1 DEF StoreInv, StoreType
<1>5. NumberedOp(E!Idle, sent) /\ HandedOp(E!Idle, nh) /\ Sorted(E!Idle) /\ ~Holding(E!Idle)
  BY <1>1 DEF NumberedOp, HandedOp, Sorted, Holding, Hooking, Selecting
<1>6. StoreType'
  BY <1>2, <1>3, <1>4 DEF StoreInv, StoreType
<1>7. Numbered'
  <2>1. \A z \in Session : UpTo(turns'[z], sent)
    BY <1>4 DEF StoreInv, Numbered, UpTo
  <2> QED
    BY <1>2, <1>5, <2>1 DEF StoreInv, Numbered
<1>8. Handed'
  BY <1>2, <1>3, <1>5 DEF StoreInv, Handed
<1>9. InProject'
  BY <1>2, <1>5 DEF StoreInv, InProject
<1>10. ~overtaken' => OwnHandle' /\ Chained'
  <2> SUFFICES ASSUME ~overtaken' PROVE OwnHandle' /\ Chained'
    OBVIOUS
  <2>1. OwnHandle /\ Chained
    BY DEF StoreInv
  <2>2. \A z \in Session : ses'[z] # NoSession => ses'[z] = ses[z] /\ turns'[z] = turns[z]
    BY <1>3, <1>4
  <2>3. OwnHandle'
    BY <2>1, <2>2 DEF OwnHandle
  <2>4. ASSUME NEW z \in Session PROVE ChainedIn(z)'
    <3>1. ses'[z] # NoSession => Chain(ses'[z].binds, E!Top(turns'[z]))
      BY <2>1, <2>2 DEF Chained, ChainedIn
    <3> QED
      BY <3>1 DEF ChainedIn, E!Top
  <2>5. ASSUME NEW x \in Proc PROVE ChainedOp(op[x])'
    <3>1. ASSUME Holding(op'[x]), ses'[op'[x].s] # NoSession, ses'[op'[x].s].h = op'[x].rec.h
          PROVE  Chain(op'[x].rec.binds, E!Top(turns'[op'[x].s]))
      <4>1. x # p /\ op'[x] = op[x] /\ op[x] \in Ops /\ Holding(op[x])
        BY <1>2, <1>5, <3>1 DEF StoreInv, StoreType
      <4>2. op[x].s \in Session
        BY <4>1, OpKinds DEF Holding, HookOps, SelectOps
      <4>3. E!Present(op[x]) /\ turns'[op[x].s] = turns[op[x].s]
        BY <2>2, <3>1, <4>1, <4>2 DEF E!Present
      <4> QED
        BY <2>1, <4>1, <4>3 DEF Chained, ChainedOp
    <3> QED
      BY <3>1 DEF ChainedOp, E!Present, E!Top, Holding, Hooking, Selecting
  <2> QED
    BY <2>3, <2>4, <2>5 DEF Chained
<1> QED
  BY <1>6, <1>7, <1>8, <1>9, <1>10 DEF StoreInv

LEMMA HookFinishes ==
    ASSUME StoreInv, NEW p \in Proc, E!HookFinish(p)
    PROVE  StoreInv'
<1> DEFINE o == op[p]
           announces == o.item.ev = "prompt" /\ o.rec.announce
           discards  == o.item.ev = "end" /\ ~E!Bound(o.rec)
           ends      == o.item.ev = "end" /\ E!Bound(o.rec)
           said == [o.rec EXCEPT !.announce = FALSE]
           over == [o.rec EXCEPT !.ended = TRUE]
<1>1. o \in Ops /\ o.at = "finish"
  BY DEF StoreInv, StoreType, E!HookFinish
<1>2. o \in HookOps /\ Hooking(o) /\ Holding(o)
  BY <1>1, OpKinds DEF Hooking, Holding
<1>3. o.rec \in Records /\ o.s \in Session /\ ~(announces /\ discards) /\ ~(ends /\ discards)
  BY <1>2 DEF HookOps
<1>4. /\ said \in Records /\ over \in Records /\ said.h = o.rec.h /\ over.h = o.rec.h
      /\ said.binds = o.rec.binds /\ over.binds = o.rec.binds
  <2> DEFINE r == o.rec
  <2>1. r \in Records
    BY <1>3
  <2> HIDE DEF r
  <2>2. /\ [r EXCEPT !.announce = FALSE] \in Records /\ [r EXCEPT !.ended = TRUE] \in Records
        /\ [r EXCEPT !.announce = FALSE].h = r.h /\ [r EXCEPT !.announce = FALSE].binds = r.binds
        /\ [r EXCEPT !.ended = TRUE].h = r.h /\ [r EXCEPT !.ended = TRUE].binds = r.binds
    BY <2>1, Noted
  <2> QED
    BY <2>2 DEF r
<1>5. /\ ses' = IF announces THEN [ses EXCEPT ![o.s] = said]
                ELSE IF ends THEN [ses EXCEPT ![o.s] = over]
                ELSE IF discards THEN [ses EXCEPT ![o.s] = NoSession]
                ELSE ses
      /\ turns' = IF discards THEN [turns EXCEPT ![o.s] = << >>] ELSE turns
      /\ overtaken' = (overtaken \/ ((announces \/ ends) /\ ~E!Present(o))
                                 \/ (discards /\ ses[o.s] # o.rec))
      /\ E!Done(p) /\ UNCHANGED <<pb, turn, nh, sent>>
  BY DEF E!HookFinish
<1>6. overtaken' \in BOOLEAN /\ (~overtaken' => ~overtaken)
  BY <1>5 DEF StoreInv, StoreType
<1> HIDE DEF announces, discards, ends, said, over
<1>7. CASE announces
  <2>1. ses' = [ses EXCEPT ![o.s] = said] /\ (~overtaken' => ~overtaken /\ E!Present(o))
    BY <1>3, <1>5, <1>6, <1>7
  <2>2. UNCHANGED <<turns, turn, nh, sent, pb>>
    BY <1>3, <1>5, <1>7
  <2> QED
    BY <1>2, <1>3, <1>4, <1>5, <1>6, <2>1, <2>2, RecordNoted
<1>8. CASE ~announces /\ ends
  <2>1. ses' = [ses EXCEPT ![o.s] = over] /\ (~overtaken' => ~overtaken /\ E!Present(o))
    BY <1>3, <1>5, <1>6, <1>8
  <2>2. UNCHANGED <<turns, turn, nh, sent, pb>>
    BY <1>3, <1>5, <1>8
  <2> QED
    BY <1>2, <1>3, <1>4, <1>5, <1>6, <2>1, <2>2, RecordNoted
<1>9. CASE ~announces /\ ~ends /\ discards
  <2>1. ses' = [ses EXCEPT ![o.s] = NoSession] /\ turns' = [turns EXCEPT ![o.s] = <<>>]
    BY <1>5, <1>9
  <2> HIDE DEF o
  <2> QED
    BY <1>3, <1>5, <1>6, <2>1, Discarded
<1>10. CASE ~announces /\ ~ends /\ ~discards
  <2>1. UNCHANGED <<ses, turns, turn, nh, sent, overtaken, pb>>
    BY <1>5, <1>10 DEF StoreInv, StoreType
  <2>2. pb' \in [Project -> Seq(Bonds)] /\ \A q \in Project : AllOf(pb'[q], q)
    BY <2>1 DEF StoreInv, StoreType, InProject
  <2> QED
    BY <1>5, <2>1, <2>2, Idles
<1> QED
  BY <1>7, <1>8, <1>9, <1>10

(***************************************************************************)
(* The store as a whole.                                                   *)
(***************************************************************************)
LEMMA StoreInit ==
    ASSUME E!Init
    PROVE  StoreInv
<1>1. /\ ses = [s \in Session |-> NoSession] /\ turns = [s \in Session |-> <<>>]
      /\ pb = [q \in Project |-> <<>>] /\ op = [p \in Proc |-> E!Idle]
      /\ turn = [s \in Session |-> 0] /\ nh = 0 /\ sent = 0 /\ overtaken = FALSE
  BY DEF E!Init
<1>2. <<>> \in Seq(Events) /\ <<>> \in Seq(Bonds)
  OBVIOUS
<1>3. E!Idle \in Ops /\ E!Idle.at = "idle"
  BY DEF Ops, E!Idle
<1>4. StoreType
  BY <1>1, <1>2, <1>3 DEF StoreType
<1>5. NumberedOp(E!Idle, sent) /\ HandedOp(E!Idle, nh) /\ Sorted(E!Idle) /\ ChainedOp(E!Idle)
  BY <1>3 DEF NumberedOp, HandedOp, Sorted, ChainedOp, Holding, Hooking, Selecting
<1>6. Numbered /\ Handed /\ InProject /\ OwnHandle /\ Chained
  BY <1>1, <1>5 DEF Numbered, Handed, InProject, OwnHandle, Chained, ChainedIn, UpTo, AllOf
<1> QED
  BY <1>4, <1>6 DEF StoreInv

LEMMA StoreStep ==
    ASSUME StoreInv, BufferMax \in Nat, E!Next \/ UNCHANGED evidence
    PROVE  StoreInv'
<1>1. ASSUME NEW p \in Proc, NEW s \in Session, E!HookBegin(p, s) PROVE StoreInv'
  BY <1>1, HookBegins
<1>2. ASSUME NEW p \in Proc, NEW s \in Session, NEW q \in Project \cup {NoProject},
             E!SelectBegin(p, s, q)
      PROVE  StoreInv'
  BY <1>2, SelectBegins
<1>3. ASSUME NEW p \in Proc, E!HookAppend(p) PROVE StoreInv'
  BY <1>3, HookAppends
<1>4. ASSUME NEW p \in Proc, E!HookPair(p) PROVE StoreInv'
  BY <1>4, HookPairs
<1>5. ASSUME NEW p \in Proc, E!HookFinish(p) PROVE StoreInv'
  BY <1>5, HookFinishes
<1>6. ASSUME NEW p \in Proc, E!SelectClose(p) \/ E!SelectOpen(p) \/ E!SelectSave(p)
      PROVE  StoreInv'
  BY <1>6, SelectCloses, SelectOpens, SelectSaves
<1>7. ASSUME NEW p \in Proc, E!SelectReport(p) \/ E!Crash(p) PROVE StoreInv'
  <2>1. E!Done(p) /\ UNCHANGED <<ses, turns, turn, nh, sent, overtaken, pb>>
    BY <1>7 DEF E!SelectReport, E!Crash, E!files
  <2>2. pb' \in [Project -> Seq(Bonds)] /\ \A q \in Project : AllOf(pb'[q], q)
    BY <2>1 DEF StoreInv, StoreType, InProject
  <2> QED
    BY <2>1, <2>2, Idles
<1>8. ASSUME NEW p \in Proc, NEW q \in Project, E!LockBegin(p, q) PROVE StoreInv'
  BY <1>8, LockBegins
<1>9. ASSUME NEW p \in Proc, E!LockRead(p) \/ E!LockWrite(p) PROVE StoreInv'
  BY <1>9, LockReadsOn, LockWritesOn
<1>10. ASSUME UNCHANGED <<ses, turns, turn, nh, sent, overtaken, pb, op>> PROVE StoreInv'
  <2>1. StoreType' /\ Numbered' /\ Handed' /\ InProject'
    BY <1>10 DEF StoreInv, StoreType, Numbered, Handed, InProject
  <2>2. ~overtaken' => OwnHandle' /\ Chained'
    BY <1>10 DEF StoreInv, OwnHandle, Chained, ChainedIn, ChainedOp, E!Present
  <2> QED
    BY <2>1, <2>2 DEF StoreInv
<1>11. ASSUME NEW q \in Project, E!Revoke(q) PROVE StoreInv'
  BY <1>10, <1>11 DEF E!Revoke
<1>12. ASSUME UNCHANGED evidence PROVE StoreInv'
  BY <1>10, <1>12 DEF evidence
<1> QED
  BY <1>1, <1>2, <1>3, <1>4, <1>5, <1>6, <1>7, <1>8, <1>9, <1>11, <1>12 DEF E!Next

\* Ranges of one session never meet, and a project's file holds its own.
LEMMA TurnsApart ==
    ASSUME StoreInv
    PROVE  OneProjectPerTurn
<1> SUFFICES ASSUME ~overtaken, NEW q \in Project, NEW r \in Project, q # r,
                    NEW t \in E!Turns(q), NEW u \in E!Turns(r), E!Id(t) = E!Id(u)
             PROVE  FALSE
  BY DEF OneProjectPerTurn, E!OneProjectPerTurn
<1>1. PICK i \in E!Bindings(q) : t \in E!TurnsOf(pb[q][i])
  BY DEF E!Turns
<1>2. PICK j \in E!Bindings(r) : u \in E!TurnsOf(pb[r][j])
  BY DEF E!Turns
<1> DEFINE b == pb[q][i]
           c == pb[r][j]
<1>3. /\ E!Receipted(b) /\ E!Receipted(c) /\ b \in Bonds /\ c \in Bonds
      /\ i \in 1 .. Len(pb[q]) /\ j \in 1 .. Len(pb[r])
  BY DEF E!Bindings, StoreInv, StoreType
<1>4. b.q = q /\ c.q = r
  BY <1>3 DEF StoreInv, InProject, AllOf
<1> HIDE DEF b, c
<1>5. /\ t.h = b.h /\ t.ord \in Nat /\ b.from <= t.ord /\ (b.to = E!Ongoing \/ t.ord <= b.to)
      /\ u.h = c.h /\ c.from <= u.ord /\ (c.to = E!Ongoing \/ u.ord <= c.to)
  BY <1>1, <1>2, <1>3, TurnIs DEF StoreInv, b, c
<1>6. t.h = u.h /\ t.ord = u.ord
  BY DEF E!Id
<1>7. PICK s \in Session : /\ ses[s] # NoSession /\ ses[s].h = b.h
                           /\ \E own \in E!Range(ses[s].binds) :
                                 own.from = b.from /\ own.to = b.to /\ own.q = b.q
  BY <1>3 DEF E!Receipted
<1>8. PICK z \in Session : /\ ses[z] # NoSession /\ ses[z].h = c.h
                           /\ \E own \in E!Range(ses[z].binds) :
                                 own.from = c.from /\ own.to = c.to /\ own.q = c.q
  BY <1>3 DEF E!Receipted
<1>9. s = z /\ ChainedIn(s)
  BY <1>5, <1>6, <1>7, <1>8 DEF StoreInv, OwnHandle, Chained
<1> DEFINE l == ses[s].binds
<1>10. l \in Seq(Bonds) /\ Chain(l, E!Top(turns[s]))
  BY <1>7, <1>9 DEF ChainedIn, StoreInv, StoreType, Records
<1>11. PICK k \in 1 .. Len(l) : l[k].from = b.from /\ l[k].to = b.to /\ l[k].q = q
  BY <1>4, <1>7, <1>10 DEF E!Range
<1>12. PICK m \in 1 .. Len(l) : l[m].from = c.from /\ l[m].to = c.to /\ l[m].q = r
  BY <1>4, <1>8, <1>9, <1>10 DEF E!Range
<1> HIDE DEF l
<1>13. k < m \/ m < k
  BY <1>10, <1>11, <1>12
<1>14. b.from \in Nat /\ b.to \in Int /\ c.from \in Nat /\ c.to \in Int
  BY <1>3 DEF Bonds
<1>15. CASE k < m
  <2>1. b.to # E!Ongoing /\ b.to < c.from
    BY <1>10, <1>11, <1>12, <1>15 DEF Chain
  <2> QED
    BY <1>5, <1>6, <1>14, <2>1
<1>16. CASE m < k
  <2>1. c.to # E!Ongoing /\ c.to < b.from
    BY <1>10, <1>11, <1>12, <1>16 DEF Chain
  <2> QED
    BY <1>5, <1>6, <1>14, <2>1
<1> QED
  BY <1>13, <1>15, <1>16

LEMMA HostedStoreStep ==
    ASSUME [MCNext]_<<part, vars, closeout, evidence>>
    PROVE  E!Next \/ UNCHANGED evidence
BY DEF MCNext

\* A captured turn is evidence of one project only, however hooks, selections,
\* locks and deaths interleave, as long as no operation has written over what it
\* had not read (intake_adapter.py, select_project.py, evidence_resolver.py).
THEOREM TurnsOfOneProject == MCSpec => []OneProjectPerTurn
<1>1. MCInit => StoreInv
  BY StoreInit DEF MCInit
<1>2. StoreInv /\ [MCNext]_<<part, vars, closeout, evidence>> => StoreInv'
  BY StoreStep, HostedStoreStep, HostedAssumption
<1>3. StoreInv => OneProjectPerTurn
  BY TurnsApart
<1> QED
  BY <1>1, <1>2, <1>3, PTL DEF MCSpec

(***************************************************************************)
(* When operations take turns: what a selection leaves half-way, and heals. *)
(***************************************************************************)
\* A project's file f has a binding, as it is, or at least by its place.
Exact(b, f) == \E j \in 1 .. Len(f[b.q]) : E!Same(b, f[b.q][j]) /\ f[b.q][j].to = b.to
Known(b, f) == \E j \in 1 .. Len(f[b.q]) : E!Same(b, f[b.q][j])

\* A binding that ended and can hold a turn.
Past(b) == b.to # E!Ongoing /\ b.to >= b.from

Filed(bs, h, f) == \A i \in 1 .. Len(bs) : /\ bs[i].h = h
                                           /\ bs[i].to = E!Ongoing => Known(bs[i], f)
                                           /\ Past(bs[i]) => Exact(bs[i], f)
Healed(ss, f) == \A s \in Session : ss[s] # NoSession => Filed(ss[s].binds, ss[s].h, f)

\* All bindings ended, and what can hold a turn is filed.
EndedWell(bs, h, f) == \A i \in 1 .. Len(bs) :
    bs[i].h = h /\ bs[i].to # E!Ongoing /\ (Past(bs[i]) => Exact(bs[i], f))

\* A record whose last binding a project has still to file, and one all filed.
Opening(bs, h, f) == \A i \in 1 .. Len(bs) :
    /\ bs[i].h = h
    /\ i # Len(bs) => bs[i].to # E!Ongoing /\ (Past(bs[i]) => Exact(bs[i], f))
Saving(bs, h, f) == \A i \in 1 .. Len(bs) :
    bs[i].h = h /\ (bs[i].to = E!Ongoing \/ Past(bs[i]) => Exact(bs[i], f))

\* An operation alone at its store, between its steps.
InTurn(o, ss, ts, f) ==
    /\ Holding(o) => ss[o.s] # NoSession /\ ss[o.s].h = o.rec.h
    /\ Hooking(o) => ss[o.s] = o.rec
    /\ o.at = "append" => ts[o.s] = o.prior
    /\ o.at = "close" => /\ E!OpenIn(ss[o.s]) # {} /\ o.old = E!ActiveIn(ss[o.s])
                         /\ o.rec = E!SelectedRec(ss[o.s], o.q, o.last)
                         /\ o.snap = f[o.old.q] /\ o.q # o.old.q
    /\ o.at = "open" => o.snap = f[o.q] /\ Opening(o.rec.binds, o.rec.h, f)
    /\ o.at \in {"save", "saved"} => Saving(o.rec.binds, o.rec.h, f)
    /\ o.at = "saved" => ss[o.s] = o.rec
    /\ o.at = "bindwrite" => o.snap = f[o.q]

Alone == \A p, x \in Proc : p # x => op[p] = E!Idle \/ op[x] = E!Idle

TakeTurns == ~overlap => /\ ~overtaken /\ Alone /\ Healed(ses, pb)
                         /\ \A p \in Proc : InTurn(op[p], ses, turns, pb)

LEMMA NoRecord == NoSession \notin Records
BY NoSessionAssumption DEF E!Record, E!Binding, Records, Bonds, Confs

LEMMA IdleInTurn ==
    ASSUME NEW ss, NEW ts, NEW f
    PROVE  InTurn(E!Idle, ss, ts, f)
<1>1. E!Idle.at = "idle"
  BY DEF E!Idle
<1> QED
  BY <1>1 DEF InTurn, Holding, Hooking, Selecting

\* A step of the one process that is at work, or of the first when none is.
LEMMA TurnTaken ==
    ASSUME StoreInv, TakeTurns, ~overlap, overlap' = overlap, NEW p \in Proc, NEW o,
           op' = [op EXCEPT ![p] = o], op[p] # E!Idle \/ \A x \in Proc : op[x] = E!Idle,
           ~overtaken', Healed(ses', pb'), InTurn(o, ses', turns', pb')
    PROVE  TakeTurns'
<1>1. op \in [Proc -> Ops] /\ Alone
  BY DEF StoreInv, StoreType, TakeTurns
<1>2. op'[p] = o /\ \A x \in Proc : x # p => op'[x] = op[x] /\ op'[x] = E!Idle
  BY <1>1 DEF Alone
<1>3. Alone'
  BY <1>2 DEF Alone
<1>4. \A x \in Proc : InTurn(op'[x], ses', turns', pb')
  BY <1>2, IdleInTurn
<1> QED
  BY <1>3, <1>4 DEF TakeTurns

\* Sessions that lost nothing but what has no binding.
LEMMA HealedOn ==
    ASSUME NEW ss, NEW new, NEW f, Healed(ss, f),
           \A s \in Session : new[s] # NoSession =>
              \/ new[s].binds = <<>>
              \/ ss[s] # NoSession /\ new[s].binds = ss[s].binds /\ new[s].h = ss[s].h
    PROVE  Healed(new, f)
<1> SUFFICES ASSUME NEW s \in Session, new[s] # NoSession
             PROVE  Filed(new[s].binds, new[s].h, f)
  BY DEF Healed
<1>1. CASE new[s].binds = <<>>
  BY <1>1 DEF Filed
<1>2. CASE ss[s] # NoSession /\ new[s].binds = ss[s].binds /\ new[s].h = ss[s].h
  BY <1>2 DEF Healed
<1> QED
  BY <1>1, <1>2

\* A file that keeps every binding's handle and range.
Keeps(f, new) == \A q \in Project : \A j \in 1 .. Len(f[q]) : \E k \in 1 .. Len(new[q]) :
    E!Same(f[q][j], new[q][k]) /\ new[q][k].to = f[q][j].to

LEMMA ExactOn ==
    ASSUME NEW f, NEW new, Keeps(f, new), NEW b \in Bonds
    PROVE  (Exact(b, f) => Exact(b, new)) /\ (Known(b, f) => Known(b, new))
<1>1. b.q \in Project
  BY DEF Bonds
<1>2. \A j \in 1 .. Len(f[b.q]) : \E k \in 1 .. Len(new[b.q]) :
        /\ f[b.q][j].h = new[b.q][k].h /\ f[b.q][j].from = new[b.q][k].from
        /\ new[b.q][k].to = f[b.q][j].to
  BY <1>1 DEF Keeps, E!Same
<1> DEFINE l == f[b.q]
           m == new[b.q]
<1>3. \A j \in 1 .. Len(l) : \E k \in 1 .. Len(m) :
        l[j].h = m[k].h /\ l[j].from = m[k].from /\ m[k].to = l[j].to
  BY <1>2
<1>4. /\ Exact(b, f) <=> \E j \in 1 .. Len(l) : b.h = l[j].h /\ b.from = l[j].from /\ l[j].to = b.to
      /\ Known(b, f) <=> \E j \in 1 .. Len(l) : b.h = l[j].h /\ b.from = l[j].from
      /\ Exact(b, new) <=> \E j \in 1 .. Len(m) : b.h = m[j].h /\ b.from = m[j].from /\ m[j].to = b.to
      /\ Known(b, new) <=> \E j \in 1 .. Len(m) : b.h = m[j].h /\ b.from = m[j].from
  BY DEF Exact, Known, E!Same
<1> HIDE DEF l, m
<1> QED
  BY <1>3, <1>4

LEMMA FiledOn ==
    ASSUME NEW f, NEW new, Keeps(f, new), StoreType, Healed(ses, f)
    PROVE  Healed(ses, new)
<1> SUFFICES ASSUME NEW s \in Session, ses[s] # NoSession
             PROVE  Filed(ses[s].binds, ses[s].h, new)
  BY DEF Healed
<1>1. Filed(ses[s].binds, ses[s].h, f)
  BY DEF Healed
<1>2. ses[s].binds \in Seq(Bonds)
  BY DEF StoreType, Records
<1> DEFINE l == ses[s].binds
<1> HIDE DEF l
<1>3. \A i \in 1 .. Len(l) : l[i] \in Bonds
  BY <1>2 DEF l
<1>4. \A i \in 1 .. Len(l) : /\ Exact(l[i], f) => Exact(l[i], new)
                             /\ Known(l[i], f) => Known(l[i], new)
  BY <1>3, ExactOn
<1> QED
  BY <1>1, <1>4 DEF Filed, l

\* The step of a hook or a lock that changes no record and no file.
LEMMA TurnGoesOn ==
    ASSUME StoreInv, TakeTurns, ~overlap, NEW p \in Proc, NEW o, op' = [op EXCEPT ![p] = o],
           op[p] # E!Idle \/ \A x \in Proc : op[x] = E!Idle,
           UNCHANGED <<ses, pb, overlap>>, ~overtaken', InTurn(o, ses, turns', pb)
    PROVE  TakeTurns'
<1>1. Healed(ses', pb')
  BY DEF TakeTurns
<1> QED
  BY <1>1, TurnTaken

LEMMA HookBeginsInTurn ==
    ASSUME StoreInv, TakeTurns, ~overlap, NEW p \in Proc, NEW s \in Session, E!HookBegin(p, s)
    PROVE  TakeTurns'
<1>1. \E x \in E!Reports(s) : \E old \in E!Swept(x.ev) : Loads(p, s, x, old)
  BY DEF E!HookBegin, Loads
<1> PICK x \in E!Reports(s) : \E old \in E!Swept(x.ev) : Loads(p, s, x, old)
  BY <1>1
<1> PICK old \in E!Swept(x.ev) : Loads(p, s, x, old)
  OBVIOUS
<1> DEFINE fresh == ses[s] = NoSession \/ s \in old
           new   == [h |-> nh + 1, announce |-> TRUE, binds |-> << >>, ended |-> FALSE]
           rec   == IF fresh THEN new ELSE ses[s]
           prior == IF s \in old THEN << >> ELSE turns[s]
           item  == [ord |-> E!Top(prior) + 1, ev |-> x.ev, turn |-> x.turn, text |-> x.text]
           o     == [at |-> "append", s |-> s, rec |-> rec, prior |-> prior, item |-> item]
<1>2. /\ ses' = [z \in Session |-> IF z = s THEN rec
                                   ELSE IF z \in old THEN NoSession ELSE ses[z]]
      /\ turns' = [z \in Session |-> IF z \in old THEN << >> ELSE turns[z]]
      /\ op' = [op EXCEPT ![p] = o]
  BY DEF Loads
<1>3. UNCHANGED <<pb, overtaken, overlap>> /\ \A y \in Proc : op[y] = E!Idle
  BY DEF E!HookBegin, E!Free
<1>4. new # NoSession /\ new.binds = <<>>
  <2>1. new \in Records
    BY DEF Records, StoreInv, StoreType
  <2> QED
    BY <2>1, NoRecord
<1>5. rec # NoSession /\ (fresh => rec.binds = <<>>) /\ (~fresh => rec = ses[s] /\ ses[s] # NoSession)
  BY <1>4
<1>6. /\ ses'[s] = rec /\ turns'[s] = prior
      /\ \A z \in Session : z # s => ses'[z] = NoSession \/ ses'[z] = ses[z]
  BY <1>2
<1>7. o.at = "append" /\ o.s = s /\ o.rec = rec /\ o.prior = prior
  OBVIOUS
<1> HIDE DEF o, rec, fresh, prior, new, item
<1>8. Healed(ses', pb')
  <2>1. \A z \in Session : ses'[z] # NoSession =>
           \/ ses'[z].binds = <<>>
           \/ ses[z] # NoSession /\ ses'[z].binds = ses[z].binds /\ ses'[z].h = ses[z].h
    BY <1>5, <1>6
  <2>2. Healed(ses, pb) /\ pb' = pb
    BY <1>3 DEF TakeTurns
  <2> DEFINE ss == ses'
  <2>3. Healed(ss, pb)
    BY <2>1, <2>2, HealedOn
  <2> QED
    BY <2>2, <2>3
<1>9. InTurn(o, ses', turns', pb')
  BY <1>5, <1>6, <1>7 DEF InTurn, Holding, Hooking, Selecting
<1> QED
  BY <1>2, <1>3, <1>8, <1>9, TurnTaken DEF TakeTurns

LEMMA HookAppendsInTurn ==
    ASSUME StoreInv, TakeTurns, ~overlap, NEW p \in Proc, E!HookAppend(p) \/ E!HookPair(p)
    PROVE  TakeTurns'
<1> DEFINE o == op[p]
<1>1. o \in Ops /\ o # E!Idle /\ Hooking(o)
  BY DEF StoreInv, StoreType, E!HookAppend, E!HookPair, E!Idle, Hooking
<1>2. o \in HookOps
  BY <1>1, OpKinds
<1>3. InTurn(o, ses, turns, pb) /\ ~overtaken
  BY DEF TakeTurns
<1>4. PICK at \in {"pair", "finish"} : op' = [op EXCEPT ![p].at = at]
  BY DEF E!HookAppend, E!HookPair, E!Goto
<1>5. op' = [op EXCEPT ![p] = [o EXCEPT !.at = at]]
  BY <1>4
<1>6. UNCHANGED <<ses, pb, overlap>>
  BY DEF E!HookAppend, E!HookPair
<1>7. ~overtaken'
  BY <1>3 DEF E!HookAppend, E!HookPair, InTurn
<1> DEFINE new == [o EXCEPT !.at = at]
<1>8. new.at = at /\ new.s = o.s /\ new.rec = o.rec
  BY <1>2 DEF HookOps
<1> HIDE DEF new
<1>9. InTurn(new, ses, turns', pb)
  BY <1>1, <1>3, <1>8 DEF InTurn, Holding, Hooking, Selecting
<1> QED
  BY <1>1, <1>5, <1>6, <1>7, <1>9, TurnGoesOn DEF new

LEMMA HookFinishesInTurn ==
    ASSUME StoreInv, TakeTurns, ~overlap, NEW p \in Proc, E!HookFinish(p)
    PROVE  TakeTurns'
<1> DEFINE o == op[p]
           announces == o.item.ev = "prompt" /\ o.rec.announce
           discards  == o.item.ev = "end" /\ ~E!Bound(o.rec)
           ends      == o.item.ev = "end" /\ E!Bound(o.rec)
<1>1. o \in Ops /\ o # E!Idle /\ Hooking(o)
  BY DEF StoreInv, StoreType, E!HookFinish, E!Idle, Hooking
<1>2. o.s \in Session /\ o.rec \in Records
  BY <1>1, OpKinds DEF HookOps
<1>3. /\ ses[o.s] = o.rec /\ ses[o.s] # NoSession /\ ~overtaken /\ E!Present(o)
  BY <1>1 DEF TakeTurns, InTurn, Holding, E!Present
<1>4. /\ ses' = IF announces THEN [ses EXCEPT ![o.s] = [o.rec EXCEPT !.announce = FALSE]]
                ELSE IF ends THEN [ses EXCEPT ![o.s] = [o.rec EXCEPT !.ended = TRUE]]
                ELSE IF discards THEN [ses EXCEPT ![o.s] = NoSession]
                ELSE ses
      /\ overtaken' = (overtaken \/ ((announces \/ ends) /\ ~E!Present(o))
                                 \/ (discards /\ ses[o.s] # o.rec))
      /\ op' = [op EXCEPT ![p] = E!Idle] /\ UNCHANGED <<pb, overlap>>
  BY DEF E!HookFinish, E!Done
<1>5. ~overtaken'
  BY <1>3, <1>4
<1>6. ses'[o.s] # NoSession => ses'[o.s].binds = o.rec.binds /\ ses'[o.s].h = o.rec.h
  <2> DEFINE r == o.rec
  <2>1. r \in Records
    BY <1>2
  <2> HIDE DEF r
  <2>2. /\ [r EXCEPT !.announce = FALSE].h = r.h /\ [r EXCEPT !.announce = FALSE].binds = r.binds
        /\ [r EXCEPT !.ended = TRUE].h = r.h /\ [r EXCEPT !.ended = TRUE].binds = r.binds
    BY <2>1, Noted
  <2> DEFINE said == [r EXCEPT !.announce = FALSE]
             over == [r EXCEPT !.ended = TRUE]
  <2>3. ses' = IF announces THEN [ses EXCEPT ![o.s] = said]
               ELSE IF ends THEN [ses EXCEPT ![o.s] = over]
               ELSE IF discards THEN [ses EXCEPT ![o.s] = NoSession]
               ELSE ses
    BY <1>4 DEF r
  <2> HIDE DEF said, over, announces, ends, discards
  <2>4. ses'[o.s] \in {said, over, NoSession, ses[o.s]}
    BY <1>2, <2>3 DEF StoreInv, StoreType
  <2> QED
    BY <1>3, <2>2, <2>4 DEF r, said, over
<1>7. \A z \in Session : z # o.s => ses'[z] = ses[z]
  <2> HIDE DEF announces, discards, ends
  <2> QED
    BY <1>2, <1>4 DEF StoreInv, StoreType
<1>8. Healed(ses', pb')
  <2>1. \A z \in Session : ses'[z] # NoSession =>
           \/ ses'[z].binds = <<>>
           \/ ses[z] # NoSession /\ ses'[z].binds = ses[z].binds /\ ses'[z].h = ses[z].h
    BY <1>3, <1>6, <1>7
  <2>2. Healed(ses, pb) /\ pb' = pb
    BY <1>4 DEF TakeTurns
  <2> DEFINE ss == ses'
  <2> HIDE DEF o
  <2>3. Healed(ss, pb)
    BY <2>1, <2>2, HealedOn
  <2> QED
    BY <2>2, <2>3
<1>9. InTurn(E!Idle, ses', turns', pb')
  BY IdleInTurn
<1> HIDE DEF announces, discards, ends
<1> QED
  BY <1>1, <1>4, <1>5, <1>8, <1>9, TurnTaken

\* A process that is through, or dies.
LEMMA IdlesInTurn ==
    ASSUME StoreInv, TakeTurns, ~overlap, NEW p \in Proc, op[p] # E!Idle, E!Done(p),
           UNCHANGED <<ses, turns, overlap, overtaken>>, Keeps(pb, pb')
    PROVE  TakeTurns'
<1>1. op' = [op EXCEPT ![p] = E!Idle] /\ ~overtaken' /\ overlap' = overlap
  BY DEF E!Done, TakeTurns
<1>2. Healed(ses', pb')
  BY FiledOn DEF StoreInv, TakeTurns
<1>3. InTurn(E!Idle, ses', turns', pb')
  BY IdleInTurn
<1> QED
  BY <1>1, <1>2, <1>3, TurnTaken

\* A binding that a selection ends.
LEMMA BondShut ==
    ASSUME NEW b \in Bonds, NEW m \in Nat
    PROVE  /\ [b EXCEPT !.to = m] \in Bonds /\ [b EXCEPT !.to = m].q = b.q
           /\ [b EXCEPT !.to = m].h = b.h /\ [b EXCEPT !.to = m].from = b.from
           /\ [b EXCEPT !.to = m].to = m
BY DEF Bonds

\* What is open is the last of a chain.
LEMMA ShutIs ==
    ASSUME NEW r, r \in Records, NEW n, n \in Nat, E!OpenIn(r) # {}, NEW m, Chain(r.binds, m)
    PROVE  LET k == Len(r.binds) IN
           /\ k \in 1 .. Len(r.binds) /\ E!ActiveIn(r) = r.binds[k] /\ r.binds[k].to = E!Ongoing
           /\ r.binds[k] \in Bonds
           /\ Shut(r, n) \in Seq(Bonds) /\ Len(Shut(r, n)) = k
           /\ Shut(r, n)[k] = [r.binds[k] EXCEPT !.to = n]
           /\ \A i \in 1 .. Len(r.binds) : i # k =>
                /\ Shut(r, n)[i] = r.binds[i] /\ r.binds[i].to # E!Ongoing
                /\ r.binds[i].to < r.binds[k].from
<1> DEFINE k == E!Max(E!OpenIn(r))
           l == r.binds
<1>1. k \in E!OpenIn(r) /\ Shut(r, n) \in Seq(Bonds)
  BY ShutBinds
<1>2. l \in Seq(Bonds)
  BY DEF Records
<1>3. k \in 1 .. Len(l) /\ l[k].to = E!Ongoing
  BY <1>1 DEF E!OpenIn
<1>4. E!ActiveIn(r) = l[k] /\ Shut(r, n) = [l EXCEPT ![k].to = n]
  BY DEF E!ActiveIn, Shut
<1>5. Chain(l, m)
  OBVIOUS
<1> HIDE DEF k, l
<1>6. k = Len(l)
  BY <1>2, <1>3, <1>5 DEF Chain
<1>7. Shut(r, n) = [l EXCEPT ![k] = [l[k] EXCEPT !.to = n]]
  BY <1>4
<1>8. l[k] \in Bonds /\ Len(Shut(r, n)) = Len(l) /\ Shut(r, n)[k] = [l[k] EXCEPT !.to = n]
  BY <1>2, <1>3, <1>7
<1>9. \A i \in 1 .. Len(l) : i # k => /\ Shut(r, n)[i] = l[i] /\ i < k
  BY <1>2, <1>3, <1>6, <1>7
<1>10. \A i \in 1 .. Len(l) : i # k => l[i].to # E!Ongoing /\ l[i].to < l[k].from
  BY <1>3, <1>5, <1>9 DEF Chain
<1> QED
  BY <1>1, <1>3, <1>4, <1>6, <1>8, <1>9, <1>10 DEF l

LEMMA SelectedIs ==
    ASSUME NEW r, r \in Records, NEW n, n \in Nat, NEW q, q \in Project \cup {NoProject}
    PROVE  LET t == E!SelectedRec(r, q, n) IN
           /\ t.h = r.h
           /\ q = NoProject => t.binds = Shut(r, n)
           /\ q # NoProject => t.binds = Append(Shut(r, n), E!Fresh(r, q, E!From(r, n)))
           /\ E!Fresh(r, q, E!From(r, n)).h = r.h
<1> DEFINE bs == Shut(r, n)
           b == E!Fresh(r, q, E!From(r, n))
           all == Append(bs, b)
<1>1. b.h = r.h
  BY DEF E!Fresh
<1>2. CASE q = NoProject
  <2>1. E!SelectedRec(r, q, n) = [r EXCEPT !.binds = bs]
    BY <1>2 DEF E!SelectedRec, Shut
  <2> HIDE DEF bs
  <2>2. [r EXCEPT !.binds = bs].binds = bs /\ [r EXCEPT !.binds = bs].h = r.h
    BY DEF Records
  <2> QED
    BY <1>1, <1>2, <2>1, <2>2 DEF bs
<1>3. CASE q # NoProject
  <2>1. E!SelectedRec(r, q, n) = [r EXCEPT !.binds = all, !.announce = @ \/ E!Bound(r)]
    BY <1>3 DEF E!SelectedRec, Shut
  <2> HIDE DEF all
  <2>2. /\ [r EXCEPT !.binds = all, !.announce = @ \/ E!Bound(r)].binds = all
        /\ [r EXCEPT !.binds = all, !.announce = @ \/ E!Bound(r)].h = r.h
    BY DEF Records
  <2> QED
    BY <1>1, <1>3, <2>1, <2>2 DEF all
<1> QED
  BY <1>2, <1>3

\* The file of a project before and after a binding was closed there.
ShutThere(f, new, old, shut) ==
    /\ \A b \in Bonds : Known(b, f) => Known(b, new)
    /\ \A b \in Bonds : Exact(b, f) /\ ~(b.h = old.h /\ b.from = old.from) => Exact(b, new)
    /\ Known(old, f) => Exact(shut, new)

LEMMA ClosedFile ==
    ASSUME NEW f, f \in [Project -> Seq(Bonds)], NEW old, old \in Bonds, NEW n, n \in Nat,
           NEW new, new = [f EXCEPT ![old.q] = E!ClosedIn(f[old.q], old, n)]
    PROVE  ShutThere(f, new, old, [old EXCEPT !.to = n])
<1> DEFINE q == old.q
           l == f[q]
           bs == E!ClosedIn(l, old, n)
<1>1. q \in Project /\ l \in Seq(Bonds)
  BY DEF Bonds
<1>2. bs = [i \in 1 .. Len(l) |-> IF l[i].h = old.h /\ l[i].from = old.from
                                  THEN [l[i] EXCEPT !.to = n] ELSE l[i]]
  BY DEF E!ClosedIn
<1>3. new[q] = bs /\ \A x \in Project : x # q => new[x] = f[x]
  BY <1>1
<1> HIDE DEF bs, l, q
<1>4. \A i \in 1 .. Len(l) : l[i] \in Bonds
  BY <1>1
<1>5. \A i \in 1 .. Len(l) : /\ [l[i] EXCEPT !.to = n] \in Bonds
                             /\ [l[i] EXCEPT !.to = n].h = l[i].h
                             /\ [l[i] EXCEPT !.to = n].from = l[i].from
                             /\ [l[i] EXCEPT !.to = n].to = n
  BY <1>4, BondShut
<1>6. bs = [i \in 1 .. Len(l) |-> bs[i]]
  BY <1>2
<1>7. \A i \in 1 .. Len(l) : bs[i] \in Bonds /\ bs[i].h = l[i].h /\ bs[i].from = l[i].from
  BY <1>2, <1>4, <1>5
<1>8. Len(bs) = Len(l)
  <2>1. bs \in Seq(Bonds)
    BY <1>1, <1>6, <1>7
  <2> QED
    BY <1>1, <1>6, <2>1
<1>9. \A i \in 1 .. Len(l) : /\ l[i].h = old.h /\ l[i].from = old.from => bs[i].to = n
                             /\ ~(l[i].h = old.h /\ l[i].from = old.from) => bs[i].to = l[i].to
  BY <1>2, <1>5
<1>10. \A b \in Bonds : Known(b, f) => Known(b, new)
  <2> SUFFICES ASSUME NEW b \in Bonds, Known(b, f) PROVE Known(b, new)
    OBVIOUS
  <2>1. b.q \in Project
    BY DEF Bonds
  <2>2. CASE b.q = q
    BY <1>3, <1>7, <1>8, <2>2 DEF Known, E!Same, l
  <2>3. CASE b.q # q
    BY <1>3, <2>1, <2>3 DEF Known
  <2> QED
    BY <2>2, <2>3
<1>11. \A b \in Bonds : Exact(b, f) /\ ~(b.h = old.h /\ b.from = old.from) => Exact(b, new)
  <2> SUFFICES ASSUME NEW b \in Bonds, Exact(b, f), ~(b.h = old.h /\ b.from = old.from)
               PROVE  Exact(b, new)
    OBVIOUS
  <2>1. b.q \in Project
    BY DEF Bonds
  <2>2. CASE b.q = q
    BY <1>3, <1>7, <1>8, <1>9, <2>2 DEF Exact, E!Same, l
  <2>3. CASE b.q # q
    BY <1>3, <2>1, <2>3 DEF Exact
  <2> QED
    BY <2>2, <2>3
<1>12. Known(old, f) => Exact([old EXCEPT !.to = n], new)
  <2> SUFFICES ASSUME Known(old, f) PROVE Exact([old EXCEPT !.to = n], new)
    OBVIOUS
  <2> DEFINE c == [old EXCEPT !.to = n]
  <2>1. c.q = q /\ c.h = old.h /\ c.from = old.from /\ c.to = n
    BY BondShut DEF q
  <2> HIDE DEF c
  <2>2. PICK j \in 1 .. Len(l) : old.h = l[j].h /\ old.from = l[j].from
    BY DEF Known, E!Same, l, q
  <2>3. Exact(c, new)
    BY <1>3, <1>7, <1>8, <1>9, <2>1, <2>2 DEF Exact, E!Same
  <2> QED
    BY <2>3 DEF c
<1> QED
  BY <1>10, <1>11, <1>12 DEF ShutThere

LEMMA AppendIs ==
    ASSUME NEW bs, bs \in Seq(Bonds), NEW b
    PROVE  /\ Len(Append(bs, b)) = Len(bs) + 1 /\ Append(bs, b)[Len(bs) + 1] = b
           /\ \A i \in 1 .. Len(bs) : Append(bs, b)[i] = bs[i]
           /\ \A i \in 1 .. Len(bs) + 1 : i \in 1 .. Len(bs) \/ i = Len(bs) + 1
OBVIOUS

\* What a selection holds once the open binding is shut in the files.
LEMMA ShutInTurn ==
    ASSUME NEW r, r \in Records, NEW n, n \in Nat, NEW q, q \in Project \cup {NoProject},
           NEW f, EndedWell(Shut(r, n), r.h, f), NEW rec, rec = E!SelectedRec(r, q, n)
    PROVE  /\ rec.h = r.h
           /\ q # NoProject => Opening(rec.binds, rec.h, f)
           /\ q = NoProject => Saving(rec.binds, rec.h, f)
<1> DEFINE bs == Shut(r, n)
           b == E!Fresh(r, q, E!From(r, n))
<1>1. bs \in Seq(Bonds)
  BY ShutBinds
<1>2. /\ rec.h = r.h /\ b.h = r.h
      /\ q = NoProject => rec.binds = bs
      /\ q # NoProject => rec.binds = Append(bs, b)
  BY SelectedIs
<1>3. EndedWell(bs, r.h, f)
  OBVIOUS
<1> HIDE DEF bs, b
<1>4. CASE q = NoProject
  BY <1>2, <1>3, <1>4 DEF EndedWell, Saving
<1>5. CASE q # NoProject
  <2> DEFINE all == Append(bs, b)
  <2>1. /\ Len(all) = Len(bs) + 1 /\ all[Len(bs) + 1] = b
        /\ \A i \in 1 .. Len(bs) : all[i] = bs[i]
        /\ \A i \in 1 .. Len(bs) + 1 : i \in 1 .. Len(bs) \/ i = Len(bs) + 1
    BY <1>1, AppendIs
  <2>2. rec.binds = all
    BY <1>2, <1>5
  <2> HIDE DEF all
  <2> QED
    BY <1>2, <1>3, <1>5, <2>1, <2>2 DEF EndedWell, Opening
<1> QED
  BY <1>4, <1>5

LEMMA SelectBeginsInTurn ==
    ASSUME StoreInv, TakeTurns, ~overlap, NEW p \in Proc, NEW s \in Session,
           NEW q \in Project \cup {NoProject}, E!SelectBegin(p, s, q)
    PROVE  TakeTurns'
<1> DEFINE r == ses[s]
           n == E!Top(turns[s])
           none == E!OpenIn(r) = {}
           old == IF none THEN NoSession ELSE E!ActiveIn(r)
           snap == pb[IF none THEN q ELSE E!ActiveIn(r).q]
           at == IF none THEN "open" ELSE "close"
           rec == E!SelectedRec(r, q, n)
           o == [at |-> at, s |-> s, q |-> q, rec |-> rec, last |-> n, old |-> old, snap |-> snap]
<1>1. r \in Records /\ r # NoSession
  BY DEF StoreInv, StoreType, E!SelectBegin
<1>2. n \in Nat
  BY TopIs DEF StoreInv, StoreType, Numbered
<1>3. /\ op' = [op EXCEPT ![p] = o]
      /\ UNCHANGED <<ses, turns, pb, overlap, overtaken>>
      /\ none => q # NoProject
      /\ ~none => E!ActiveIn(r).q # q
      /\ \A x \in Proc : op[x] = E!Idle
  BY DEF E!SelectBegin, E!files, E!Free
<1>4. rec.h = r.h
  <2> HIDE DEF r, n
  <2> QED
    BY <1>1, <1>2, SelectedIs
<1>5. Filed(r.binds, r.h, pb) /\ ~overtaken
  BY <1>1 DEF TakeTurns, Healed
<1>6. none => EndedWell(Shut(r, n), r.h, pb)
  <2> HIDE DEF r, n
  <2>1. none => Shut(r, n) = r.binds /\ \A i \in 1 .. Len(r.binds) : r.binds[i].to # E!Ongoing
    BY DEF Shut, E!OpenIn
  <2> QED
    BY <1>5, <2>1 DEF Filed, EndedWell
<1>7. none => Opening(rec.binds, rec.h, pb)
  <2> HIDE DEF r, n, none
  <2> QED
    BY <1>1, <1>2, <1>3, <1>6, ShutInTurn
<1>8. /\ o.at = at /\ o.s = s /\ o.q = q /\ o.rec = rec /\ o.old = old /\ o.snap = snap /\ o.last = n
      /\ none => at = "open" /\ snap = pb[q]
      /\ ~none => at = "close" /\ old = E!ActiveIn(r) /\ snap = pb[old.q]
  OBVIOUS
<1>9. rec = E!SelectedRec(r, q, n) /\ r = ses[s]
  OBVIOUS
<1>10. ~none => E!OpenIn(r) # {}
  OBVIOUS
<1> HIDE DEF o, at, old, snap, rec, n, none, r
<1>11. InTurn(o, ses, turns', pb)
  <2>1. CASE none
    <3>1. o.at = "open" /\ o.snap = pb[o.q]
      BY <1>8, <2>1
    <3> QED
      BY <1>1, <1>4, <1>7, <1>8, <1>9, <2>1, <3>1 DEF InTurn, Holding, Hooking, Selecting
  <2>2. CASE ~none
    <3>1. o.at = "close" /\ o.snap = pb[o.old.q] /\ o.old = E!ActiveIn(r)
      BY <1>8, <2>2
    <3> QED
      BY <1>1, <1>3, <1>4, <1>8, <1>9, <1>10, <2>2, <3>1 DEF InTurn, Holding, Hooking, Selecting
  <2> QED
    BY <2>1, <2>2
<1> QED
  BY <1>3, <1>5, <1>11, TurnGoesOn

\* What of a record can hold a turn starts elsewhere than its open binding.
Apart(bs, old) == \A i \in 1 .. Len(bs) : Past(bs[i]) => bs[i].from # old.from

\* What of a selection is shut, and the file in which the open binding was closed.
LEMMA CloseInTurn ==
    ASSUME NEW r, r \in Records, NEW n, n \in Nat, NEW f, f \in [Project -> Seq(Bonds)], E!OpenIn(r) # {}, NEW m, Chain(r.binds, m),
           Filed(r.binds, r.h, f), NEW old, old = E!ActiveIn(r), NEW l, l = f[old.q],
           NEW put, put = [f EXCEPT ![old.q] = E!ClosedIn(l, old, n)]
    PROVE  /\ old \in Bonds /\ old.h = r.h /\ ShutThere(f, put, old, [old EXCEPT !.to = n])
           /\ Apart(r.binds, old) /\ EndedWell(Shut(r, n), r.h, put)
<1> DEFINE k == Len(r.binds)
           bs == Shut(r, n)
           c == r.binds[k]
<1>1. /\ k \in 1 .. Len(r.binds) /\ E!ActiveIn(r) = c /\ c.to = E!Ongoing /\ c \in Bonds
      /\ Len(bs) = k /\ bs[k] = [c EXCEPT !.to = n]
      /\ \A i \in 1 .. Len(r.binds) : i # k =>
            bs[i] = r.binds[i] /\ r.binds[i].to # E!Ongoing /\ r.binds[i].to < c.from
  BY ShutIs
<1>2. old = c
  BY <1>1
<1> HIDE DEF c
<1>3. /\ bs[k] = [old EXCEPT !.to = n] /\ old = r.binds[k] /\ old \in Bonds /\ old.to = E!Ongoing
      /\ k \in 1 .. Len(r.binds) /\ Len(bs) = k
      /\ \A i \in 1 .. Len(r.binds) : i # k =>
            bs[i] = r.binds[i] /\ r.binds[i].to # E!Ongoing /\ r.binds[i].to < old.from
  BY <1>1, <1>2 DEF c
<1> HIDE DEF bs
<1>4. ShutThere(f, put, old, [old EXCEPT !.to = n])
  BY <1>3, ClosedFile
<1>5. \A b \in Bonds : b.from \in Nat /\ b.to \in Int /\ b.h \in Nat
  BY DEF Bonds
<1>6. \A i \in 1 .. Len(r.binds) : r.binds[i] \in Bonds
  BY DEF Records
<1>7. ASSUME NEW i \in 1 .. Len(r.binds)
      PROVE  Past(r.binds[i]) => i # k /\ r.binds[i].from # old.from
  <2> DEFINE b == r.binds[i]
  <2>1. b \in Bonds
    BY <1>6
  <2>2. b.from \in Nat /\ b.to \in Int /\ old.from \in Nat
    BY <1>3, <1>5, <2>1
  <2>3. b.to = E!Ongoing \/ b.to < old.from
    BY <1>3
  <2>4. i = k => b.to = E!Ongoing
    BY <1>3
  <2> HIDE DEF b, k
  <2>5. Past(b) => i # k /\ b.from # old.from
    BY <2>2, <2>3, <2>4 DEF Past
  <2> QED
    BY <2>5 DEF b
<1>8. \A i \in 1 .. Len(r.binds) : /\ r.binds[i].h = r.h
                                   /\ r.binds[i].to = E!Ongoing => Known(r.binds[i], f)
                                   /\ Past(r.binds[i]) => Exact(r.binds[i], f)
  BY DEF Filed
<1>9. EndedWell(bs, r.h, put)
  <2> SUFFICES ASSUME NEW i \in 1 .. k
               PROVE  bs[i].h = r.h /\ bs[i].to # E!Ongoing /\ (Past(bs[i]) => Exact(bs[i], put))
    BY <1>3 DEF EndedWell
  <2>1. CASE i = k
    <3>1. [old EXCEPT !.to = n].h = old.h /\ [old EXCEPT !.to = n].to = n
      BY <1>3, BondShut
    <3>2. old.h = r.h /\ Known(old, f)
      BY <1>3, <1>8
    <3>3. n # E!Ongoing
      BY DEF E!Ongoing
    <3> QED
      BY <1>3, <1>4, <2>1, <3>1, <3>2, <3>3 DEF ShutThere
  <2>2. CASE i # k
    <3>1. bs[i] = r.binds[i] /\ r.binds[i].to # E!Ongoing
      BY <1>3, <2>2
    <3>2. r.binds[i].h = r.h /\ (Past(r.binds[i]) => Exact(r.binds[i], f))
      BY <1>8
    <3> QED
      BY <1>4, <1>6, <1>7, <3>1, <3>2 DEF ShutThere
  <2> QED
    BY <2>1, <2>2
<1>10. EndedWell(Shut(r, n), r.h, put)
  BY <1>9 DEF bs
<1>11. old.h = r.h
  BY <1>3, <1>8
<1>12. Apart(r.binds, old)
  BY <1>7 DEF Apart
<1> QED
  BY <1>3, <1>4, <1>10, <1>11, <1>12

LEMMA SelectClosesInTurn ==
    ASSUME StoreInv, TakeTurns, ~overlap, NEW p \in Proc, E!SelectClose(p)
    PROVE  TakeTurns'
<1> DEFINE o == op[p]
           new == IF o.q = NoProject THEN [o EXCEPT !.at = "save"]
                  ELSE [o EXCEPT !.at = "open", !.snap = pb[o.q]]
           r == ses[o.s]
           n == o.last
           old == o.old
           put == [pb EXCEPT ![old.q] = E!ClosedIn(pb[old.q], old, n)]
<1>1. o \in Ops /\ o # E!Idle /\ Selecting(o) /\ o.at = "close"
  BY DEF StoreInv, StoreType, E!SelectClose, E!Idle, Selecting
<1>2. o \in SelectOps
  BY <1>1, OpKinds
<1>3. o.s \in Session /\ n \in Nat /\ o.q \in Project \cup {NoProject}
  BY <1>2 DEF SelectOps
<1>4. InTurn(o, ses, turns, pb) /\ ~overtaken /\ Healed(ses, pb)
  BY DEF TakeTurns
<1>5. /\ r # NoSession /\ r.h = o.rec.h /\ E!OpenIn(r) # {} /\ old = E!ActiveIn(r)
      /\ o.rec = E!SelectedRec(r, o.q, n) /\ o.snap = pb[old.q] /\ o.q # old.q
  BY <1>1, <1>4 DEF InTurn, Holding
<1>6. r \in Records /\ Filed(r.binds, r.h, pb) /\ ChainedIn(o.s)
  BY <1>3, <1>4, <1>5 DEF StoreInv, StoreType, Healed, Chained
<1>7. Chain(r.binds, E!Top(turns[o.s]))
  BY <1>5, <1>6 DEF ChainedIn
<1>8. /\ op' = [op EXCEPT ![p] = new] /\ pb' = put
      /\ UNCHANGED <<ses, turns, overlap, overtaken>>
  <2>1. op' = IF o.q = NoProject THEN [op EXCEPT ![p].at = "save"]
              ELSE [op EXCEPT ![p].at = "open", ![p].snap = pb[o.q]]
    BY DEF E!SelectClose, E!Goto
  <2>2. [op EXCEPT ![p].at = "save"] = [op EXCEPT ![p] = [op[p] EXCEPT !.at = "save"]]
    OBVIOUS
  <2>3. [op EXCEPT ![p].at = "open", ![p].snap = pb[o.q]]
          = [op EXCEPT ![p] = [op[p] EXCEPT !.at = "open", !.snap = pb[o.q]]]
    BY DEF StoreInv, StoreType
  <2>4. pb' = [pb EXCEPT ![old.q] = E!ClosedIn(o.snap, old, n)]
    BY DEF E!SelectClose
  <2>5. UNCHANGED <<ses, turns, overlap, overtaken>>
    BY DEF E!SelectClose
  <2> QED
    BY <1>5, <2>1, <2>2, <2>3, <2>4, <2>5
<1>9. /\ new.s = o.s /\ new.rec = o.rec /\ new.q = o.q
      /\ o.q = NoProject => new.at = "save"
      /\ o.q # NoProject => new.at = "open" /\ new.snap = pb[o.q]
  BY <1>2 DEF SelectOps
<1> HIDE DEF new
<1>10. /\ old \in Bonds /\ old.h = r.h /\ ShutThere(pb, put, old, [old EXCEPT !.to = n])
       /\ Apart(r.binds, old)
       /\ o.q # NoProject => Opening(o.rec.binds, o.rec.h, put)
       /\ o.q = NoProject => Saving(o.rec.binds, o.rec.h, put)
  <2> DEFINE q == o.q
             rec == o.rec
             l == pb[old.q]
             m == E!Top(turns[o.s])
  <2>1. pb \in [Project -> Seq(Bonds)]
    BY DEF StoreInv, StoreType
  <2>2. /\ put = [pb EXCEPT ![old.q] = E!ClosedIn(l, old, n)] /\ n \in Nat
        /\ q \in Project \cup {NoProject} /\ old = E!ActiveIn(r) /\ rec = E!SelectedRec(r, q, n)
        /\ Chain(r.binds, m)
    BY <1>3, <1>5, <1>7
  <2>3. r \in Records /\ E!OpenIn(r) # {} /\ Filed(r.binds, r.h, pb)
    BY <1>5, <1>6
  <2>4. l = pb[old.q]
    OBVIOUS
  <2> HIDE DEF o, r, n, old, q, rec, l, m, put
  <2>5. /\ old \in Bonds /\ old.h = r.h /\ ShutThere(pb, put, old, [old EXCEPT !.to = n])
        /\ Apart(r.binds, old) /\ EndedWell(Shut(r, n), r.h, put)
    BY <2>1, <2>2, <2>3, <2>4, CloseInTurn
  <2>6. ASSUME q # NoProject PROVE Opening(rec.binds, rec.h, put)
    BY <2>2, <2>3, <2>5, <2>6, ShutInTurn
  <2>7. ASSUME q = NoProject PROVE Saving(rec.binds, rec.h, put)
    BY <2>2, <2>3, <2>5, <2>7, ShutInTurn
  <2> QED
    BY <2>5, <2>6, <2>7 DEF q, rec
<1> HIDE DEF put
<1>11. /\ \A b \in Bonds : Known(b, pb) => Known(b, put)
       /\ \A b \in Bonds : Exact(b, pb) /\ ~(b.h = old.h /\ b.from = old.from) => Exact(b, put)
  <2> HIDE DEF old
  <2> QED
    BY <1>10 DEF ShutThere
<1>12. Healed(ses, put)
  <2> SUFFICES ASSUME NEW s \in Session, ses[s] # NoSession, NEW i \in 1 .. Len(ses[s].binds)
               PROVE  LET b == ses[s].binds[i] IN
                      /\ b.h = ses[s].h /\ (b.to = E!Ongoing => Known(b, put))
                      /\ Past(b) => Exact(b, put)
    BY DEF Healed, Filed
  <2> DEFINE b == ses[s].binds[i]
  <2>1. b \in Bonds
    BY DEF StoreInv, StoreType, Records
  <2>2. b.h = ses[s].h /\ (b.to = E!Ongoing => Known(b, pb)) /\ (Past(b) => Exact(b, pb))
    BY <1>4 DEF Healed, Filed
  <2>3. CASE s = o.s
    <3>1. Past(b) => b.from # old.from
      BY <1>10, <2>3 DEF Apart
    <3> HIDE DEF b, old
    <3> QED
      BY <1>11, <2>1, <2>2, <3>1 DEF b
  <2>4. CASE s # o.s
    <3>1. b.h # old.h
      <4>1. ses[s].h # r.h
        BY <1>3, <1>4, <1>5, <2>4 DEF StoreInv, OwnHandle
      <4> QED
        BY <1>10, <2>2, <4>1
    <3> HIDE DEF b, old
    <3> QED
      BY <1>11, <2>1, <2>2, <3>1 DEF b
  <2> QED
    BY <2>3, <2>4
<1>13. InTurn(new, ses, turns, put)
  <2> HIDE DEF n, old
  <2>1. new.at = "open" => new.snap = put[new.q] /\ Opening(new.rec.binds, new.rec.h, put)
    <3>1. o.q # NoProject => put[o.q] = pb[o.q]
      BY <1>3, <1>5 DEF put, StoreInv, StoreType
    <3> QED
      BY <1>9, <1>10, <3>1
  <2>2. new.at = "save" => Saving(new.rec.binds, new.rec.h, put)
    BY <1>9, <1>10
  <2>3. ses[new.s] # NoSession /\ ses[new.s].h = new.rec.h /\ new.at \in {"save", "open"}
    BY <1>5, <1>9
  <2> HIDE DEF o
  <2> QED
    BY <2>1, <2>2, <2>3 DEF InTurn, Holding, Hooking, Selecting
<1>14. Healed(ses', pb') /\ InTurn(new, ses', turns', pb')
  BY <1>8, <1>12, <1>13
<1>15. ~overtaken' /\ overlap' = overlap
  BY <1>4, <1>8
<1> QED
  BY <1>1, <1>8, <1>14, <1>15, TurnTaken

LEMMA SelectOpensInTurn ==
    ASSUME StoreInv, TakeTurns, ~overlap, NEW p \in Proc, E!SelectOpen(p)
    PROVE  TakeTurns'
<1> DEFINE o == op[p]
           new == [o EXCEPT !.at = "save"]
           l == o.rec.binds
           b == l[Len(l)]
           old == pb[o.q]
           put == [pb EXCEPT ![o.q] = Append(old, b)]
<1>1. o \in Ops /\ o # E!Idle /\ Selecting(o) /\ o.at = "open"
  BY DEF StoreInv, StoreType, E!SelectOpen, E!Idle, Selecting
<1>2. o \in SelectOps
  BY <1>1, OpKinds
<1>3. o.s \in Session /\ l \in Seq(Bonds)
  BY <1>2 DEF SelectOps, Records
<1>4. InTurn(o, ses, turns, pb) /\ ~overtaken /\ Healed(ses, pb)
  BY DEF TakeTurns
<1>5. /\ ses[o.s] # NoSession /\ ses[o.s].h = o.rec.h /\ o.snap = old
      /\ \A i \in 1 .. Len(l) : /\ l[i].h = o.rec.h
                                /\ i # Len(l) => /\ l[i].to # E!Ongoing
                                                 /\ Past(l[i]) => Exact(l[i], pb)
  BY <1>1, <1>4 DEF InTurn, Holding, Opening
<1>6. o.q \in Project /\ l # <<>> /\ b.q = o.q
  BY <1>1 DEF StoreInv, InProject, Sorted, Opens
<1>7. old \in Seq(Bonds) /\ b \in Bonds
  BY <1>3, <1>6 DEF StoreInv, StoreType
<1>8. /\ op' = [op EXCEPT ![p] = new] /\ pb' = put
      /\ UNCHANGED <<ses, turns, overlap, overtaken>>
  <2>1. [op EXCEPT ![p].at = "save"] = [op EXCEPT ![p] = [op[p] EXCEPT !.at = "save"]]
    OBVIOUS
  <2>2. pb' = [pb EXCEPT ![o.q] = Append(o.snap, b)] /\ UNCHANGED <<ses, turns, overlap, overtaken>>
    BY DEF E!SelectOpen
  <2> QED
    BY <1>5, <2>1, <2>2 DEF E!SelectOpen, E!Goto
<1>9. new.s = o.s /\ new.rec = o.rec /\ new.at = "save"
  BY <1>2 DEF SelectOps
<1> HIDE DEF new
<1> DEFINE all == Append(old, b)
<1>10. /\ Len(all) = Len(old) + 1 /\ all[Len(old) + 1] = b
       /\ \A i \in 1 .. Len(old) : all[i] = old[i]
  <2> HIDE DEF old, b
  <2> QED
    BY <1>7, AppendIs
<1>11. put[o.q] = all /\ \A x \in Project : x # o.q => put[x] = pb[x]
  BY <1>6 DEF StoreInv, StoreType
<1> HIDE DEF all, put, b
<1>12. Len(old) \in Nat /\ \A i \in 1 .. Len(old) : i \in 1 .. Len(all)
  BY <1>7, <1>10
<1>13. Keeps(pb, put)
  <2> SUFFICES ASSUME NEW q \in Project, NEW j \in 1 .. Len(pb[q])
               PROVE  \E k \in 1 .. Len(put[q]) : E!Same(pb[q][j], put[q][k]) /\ put[q][k].to = pb[q][j].to
    BY DEF Keeps
  <2>1. CASE q = o.q
    <3>1. j \in 1 .. Len(all) /\ all[j] = pb[q][j]
      BY <1>10, <1>12, <2>1
    <3> QED
      BY <1>11, <2>1, <3>1 DEF E!Same
  <2>2. CASE q # o.q
    BY <1>11, <2>2 DEF E!Same
  <2> QED
    BY <2>1, <2>2
<1>14. Healed(ses, put)
  BY <1>4, <1>13, FiledOn DEF StoreInv
<1>15. Exact(b, put)
  <2>1. Len(old) + 1 \in 1 .. Len(put[b.q]) /\ put[b.q][Len(old) + 1] = b
    BY <1>6, <1>10, <1>11, <1>12 DEF b
  <2> QED
    BY <2>1 DEF Exact, E!Same
<1>16. ASSUME NEW i \in 1 .. Len(l)
       PROVE  l[i].h = o.rec.h /\ (l[i].to = E!Ongoing \/ Past(l[i]) => Exact(l[i], put))
  <2>1. CASE i = Len(l)
    BY <1>5, <1>15, <2>1 DEF b
  <2>2. CASE i # Len(l)
    <3>1. l[i] \in Bonds
      BY <1>3
    <3>2. Exact(l[i], pb) => Exact(l[i], put)
      BY <1>13, <3>1, ExactOn
    <3> QED
      BY <1>5, <2>2, <3>2
  <2> QED
    BY <2>1, <2>2
<1>17. InTurn(new, ses, turns, put)
  <2>1. ses[new.s] # NoSession /\ ses[new.s].h = new.rec.h
    BY <1>5, <1>9
  <2>2. Saving(new.rec.binds, new.rec.h, put)
    BY <1>9, <1>16 DEF Saving
  <2> HIDE DEF o
  <2> QED
    BY <1>9, <2>1, <2>2 DEF InTurn, Holding, Hooking, Selecting
<1>18. Healed(ses', pb') /\ InTurn(new, ses', turns', pb') /\ ~overtaken' /\ overlap' = overlap
  BY <1>4, <1>8, <1>14, <1>17
<1> QED
  BY <1>1, <1>8, <1>18, TurnTaken

LEMMA SelectSavesInTurn ==
    ASSUME StoreInv, TakeTurns, ~overlap, NEW p \in Proc, E!SelectSave(p)
    PROVE  TakeTurns'
<1> DEFINE o == op[p]
           new == [o EXCEPT !.at = "saved"]
<1>1. o \in Ops /\ o # E!Idle /\ Selecting(o) /\ o.at = "save"
  BY DEF StoreInv, StoreType, E!SelectSave, E!Idle, Selecting
<1>2. o \in SelectOps
  BY <1>1, OpKinds
<1>3. o.s \in Session /\ o.rec \in Records /\ o.rec # NoSession
  BY <1>2, NoRecord DEF SelectOps
<1>4. InTurn(o, ses, turns, pb) /\ ~overtaken /\ Healed(ses, pb)
  BY DEF TakeTurns
<1>5. /\ ses[o.s] # NoSession /\ ses[o.s].h = o.rec.h
      /\ Saving(o.rec.binds, o.rec.h, pb)
  BY <1>1, <1>4 DEF InTurn, Holding
<1>6. /\ op' = [op EXCEPT ![p] = new] /\ ses' = [ses EXCEPT ![o.s] = o.rec]
      /\ UNCHANGED <<turns, pb, overlap>> /\ overtaken' = (overtaken \/ ~E!Present(o))
  <2>1. [op EXCEPT ![p].at = "saved"] = [op EXCEPT ![p] = [op[p] EXCEPT !.at = "saved"]]
    OBVIOUS
  <2> QED
    BY <2>1 DEF E!SelectSave, E!Goto
<1>7. ~overtaken'
  BY <1>4, <1>5, <1>6 DEF E!Present
<1>8. new.s = o.s /\ new.rec = o.rec /\ new.at = "saved"
  BY <1>2 DEF SelectOps
<1> HIDE DEF new
<1>9. ses'[o.s] = o.rec /\ \A z \in Session : z # o.s => ses'[z] = ses[z]
  BY <1>3, <1>6 DEF StoreInv, StoreType
<1>10. Filed(o.rec.binds, o.rec.h, pb)
  <2>1. \A i \in 1 .. Len(o.rec.binds) : Exact(o.rec.binds[i], pb) => Known(o.rec.binds[i], pb)
    BY DEF Exact, Known
  <2> QED
    BY <1>5, <2>1 DEF Filed, Saving
<1>11. Healed(ses', pb')
  <2> SUFFICES ASSUME NEW z \in Session, ses'[z] # NoSession
               PROVE  Filed(ses'[z].binds, ses'[z].h, pb)
    BY <1>6 DEF Healed
  <2>1. CASE z = o.s
    BY <1>9, <1>10, <2>1
  <2>2. CASE z # o.s
    BY <1>4, <1>9, <2>2 DEF Healed
  <2> QED
    BY <2>1, <2>2
<1>12. InTurn(new, ses', turns', pb')
  <2>1. ses'[new.s] = new.rec /\ new.rec # NoSession
    BY <1>3, <1>8, <1>9
  <2>2. Saving(new.rec.binds, new.rec.h, pb')
    BY <1>5, <1>6, <1>8
  <2> HIDE DEF o
  <2> QED
    BY <1>8, <2>1, <2>2 DEF InTurn, Holding, Hooking, Selecting
<1> QED
  BY <1>1, <1>6, <1>7, <1>11, <1>12, TurnTaken

LEMMA LockBeginsInTurn ==
    ASSUME StoreInv, TakeTurns, ~overlap, NEW p \in Proc, NEW q \in Project, E!LockBegin(p, q)
    PROVE  TakeTurns'
<1>1. PICK h \in {pb[q][i].h : i \in E!Bindings(q)} :
        \E t \in E!TurnsOf(E!Chosen(q, h)) :
          op' = [op EXCEPT ![p] = [at |-> "bindread", q |-> q, b |-> E!Chosen(q, h),
                                   conf |-> [reply |-> t.ord, prop |-> t.prop]]]
  BY DEF E!LockBegin
<1> DEFINE b == E!Chosen(q, h)
<1>2. PICK t \in E!TurnsOf(b) :
        op' = [op EXCEPT ![p] = [at |-> "bindread", q |-> q, b |-> b,
                                 conf |-> [reply |-> t.ord, prop |-> t.prop]]]
  BY <1>1
<1> DEFINE o == [at |-> "bindread", q |-> q, b |-> b, conf |-> [reply |-> t.ord, prop |-> t.prop]]
<1>3. o.at = "bindread" /\ op' = [op EXCEPT ![p] = o]
  BY <1>2
<1> HIDE DEF o, b
<1>4. UNCHANGED <<ses, pb, overlap, overtaken>> /\ \A x \in Proc : op[x] = E!Idle
  BY DEF E!LockBegin, E!files, E!Free
<1>5. InTurn(o, ses, turns', pb)
  BY <1>3 DEF InTurn, Holding, Hooking, Selecting
<1>6. ~overtaken'
  BY <1>4 DEF TakeTurns
<1> QED
  BY <1>3, <1>4, <1>5, <1>6, TurnGoesOn

LEMMA LockReadsInTurn ==
    ASSUME StoreInv, TakeTurns, ~overlap, NEW p \in Proc, E!LockRead(p)
    PROVE  TakeTurns'
<1> DEFINE o == op[p]
           new == [at |-> "bindwrite", q |-> o.q, b |-> o.b, conf |-> o.conf, snap |-> pb[o.q]]
<1>1. op[p] # E!Idle
  BY DEF E!LockRead, E!Idle
<1>2. UNCHANGED <<ses, turns, pb, overlap, overtaken>> /\ ~overtaken'
  BY DEF E!LockRead, E!files, TakeTurns
<1>3. op' = [op EXCEPT ![p] = new] \/ op' = [op EXCEPT ![p] = E!Idle]
  BY DEF E!LockRead
<1>4. new.at = "bindwrite" /\ new.q = o.q /\ new.snap = pb[o.q]
  OBVIOUS
<1> HIDE DEF new
<1>5. InTurn(new, ses, turns', pb)
  BY <1>4 DEF InTurn, Holding, Hooking, Selecting
<1>6. InTurn(E!Idle, ses, turns', pb)
  BY IdleInTurn
<1>7. CASE op' = [op EXCEPT ![p] = new]
  BY <1>1, <1>2, <1>5, <1>7, TurnGoesOn
<1>8. CASE op' = [op EXCEPT ![p] = E!Idle]
  BY <1>1, <1>2, <1>6, <1>8, TurnGoesOn
<1> QED
  BY <1>3, <1>7, <1>8

\* A binding whose exchange a lock writes down.
LEMMA BondBound ==
    ASSUME NEW b \in Bonds, NEW c
    PROVE  /\ [b EXCEPT !.conf = c].h = b.h /\ [b EXCEPT !.conf = c].from = b.from
           /\ [b EXCEPT !.conf = c].to = b.to
BY DEF Bonds

LEMMA LockWritesInTurn ==
    ASSUME StoreInv, TakeTurns, ~overlap, NEW p \in Proc, E!LockWrite(p)
    PROVE  TakeTurns'
<1> DEFINE o == op[p]
           l == pb[o.q]
           c == o.conf
           bs == [i \in 1 .. Len(l) |-> IF E!Same(l[i], o.b) THEN [l[i] EXCEPT !.conf = c]
                                        ELSE l[i]]
<1>1. o \in LockWrites /\ o.at = "bindwrite" /\ o # E!Idle
  BY OpKinds DEF StoreInv, StoreType, E!LockWrite, E!Idle
<1>2. o.q \in Project
  BY <1>1 DEF LockWrites
<1>3. o.snap = l
  BY <1>1 DEF TakeTurns, InTurn
<1>4. E!Done(p) /\ UNCHANGED <<ses, turns, overlap, overtaken>> /\ pb' = [pb EXCEPT ![o.q] = bs]
  BY <1>3 DEF E!LockWrite
<1>5. l \in Seq(Bonds)
  BY <1>2 DEF StoreInv, StoreType
<1>6. \A i \in 1 .. Len(l) : l[i] \in Bonds
  BY <1>5
<1> HIDE DEF c
<1>7. \A i \in 1 .. Len(l) : /\ [l[i] EXCEPT !.conf = c].h = l[i].h
                             /\ [l[i] EXCEPT !.conf = c].from = l[i].from
                             /\ [l[i] EXCEPT !.conf = c].to = l[i].to
  BY <1>6, BondBound
<1>8. \A i \in 1 .. Len(l) : bs[i].h = l[i].h /\ bs[i].from = l[i].from /\ bs[i].to = l[i].to
  BY <1>7
<1>9. Len(bs) = Len(l)
  <2> DEFINE n == Len(l)
  <2>1. n \in Nat /\ DOMAIN bs = 1 .. n
    BY <1>5
  <2>2. bs = [i \in 1 .. n |-> bs[i]]
    OBVIOUS
  <2> HIDE DEF n, bs, l
  <2> QED
    BY <2>1, <2>2 DEF n
<1> HIDE DEF bs
<1>10. pb'[o.q] = bs /\ \A q \in Project : q # o.q => pb'[q] = pb[q]
  BY <1>2, <1>4 DEF StoreInv, StoreType
<1>11. Keeps(pb, pb')
  <2> SUFFICES ASSUME NEW q \in Project, NEW j \in 1 .. Len(pb[q])
               PROVE  \E k \in 1 .. Len(pb'[q]) :
                         E!Same(pb[q][j], pb'[q][k]) /\ pb'[q][k].to = pb[q][j].to
    BY DEF Keeps
  <2>1. CASE q = o.q
    BY <1>8, <1>9, <1>10, <2>1 DEF E!Same
  <2>2. CASE q # o.q
    BY <1>10, <2>2 DEF E!Same
  <2> QED
    BY <2>1, <2>2
<1> QED
  BY <1>1, <1>4, <1>11, IdlesInTurn

LEMMA TurnsInit ==
    ASSUME E!Init
    PROVE  TakeTurns
<1>1. /\ ses = [s \in Session |-> NoSession] /\ op = [p \in Proc |-> E!Idle]
      /\ overtaken = FALSE
  BY DEF E!Init
<1>2. Alone /\ Healed(ses, pb)
  BY <1>1 DEF Alone, Healed
<1>3. \A p \in Proc : InTurn(op[p], ses, turns, pb)
  BY <1>1, IdleInTurn
<1> QED
  BY <1>1, <1>2, <1>3 DEF TakeTurns

\* Whether operations overlap is chosen once.
LEMMA OverlapStays ==
    ASSUME E!Next \/ UNCHANGED evidence
    PROVE  overlap' = overlap
<1>1. ASSUME NEW p \in Proc, NEW s \in Session, E!HookBegin(p, s) PROVE overlap' = overlap
  BY <1>1 DEF E!HookBegin
<1>2. ASSUME NEW p \in Proc, NEW s \in Session, NEW q \in Project \cup {NoProject},
             E!SelectBegin(p, s, q)
      PROVE  overlap' = overlap
  BY <1>2 DEF E!SelectBegin
<1>3. ASSUME NEW p \in Proc, E!HookAppend(p) \/ E!HookPair(p) \/ E!HookFinish(p)
      PROVE  overlap' = overlap
  BY <1>3 DEF E!HookAppend, E!HookPair, E!HookFinish
<1>4. ASSUME NEW p \in Proc, \/ E!SelectClose(p) \/ E!SelectOpen(p) \/ E!SelectSave(p)
                            \/ E!SelectReport(p) \/ E!Crash(p)
      PROVE  overlap' = overlap
  BY <1>4 DEF E!SelectClose, E!SelectOpen, E!SelectSave, E!SelectReport, E!Crash
<1>5. ASSUME NEW p \in Proc, NEW q \in Project, E!LockBegin(p, q) PROVE overlap' = overlap
  BY <1>5 DEF E!LockBegin
<1>6. ASSUME NEW p \in Proc, E!LockRead(p) \/ E!LockWrite(p) PROVE overlap' = overlap
  BY <1>6 DEF E!LockRead, E!LockWrite
<1>7. ASSUME NEW q \in Project, E!Revoke(q) PROVE overlap' = overlap
  BY <1>7 DEF E!Revoke
<1>8. ASSUME UNCHANGED evidence PROVE overlap' = overlap
  BY <1>8 DEF evidence
<1> QED
  BY <1>1, <1>2, <1>3, <1>4, <1>5, <1>6, <1>7, <1>8 DEF E!Next

LEMMA TurnsStep ==
    ASSUME StoreInv, TakeTurns, E!Next \/ UNCHANGED evidence
    PROVE  TakeTurns'
<1>1. CASE overlap
  BY <1>1, OverlapStays DEF TakeTurns
<1>2. CASE ~overlap
  <2>1. ASSUME NEW p \in Proc, NEW s \in Session, E!HookBegin(p, s) PROVE TakeTurns'
    BY <1>2, <2>1, HookBeginsInTurn
  <2>2. ASSUME NEW p \in Proc, NEW s \in Session, NEW q \in Project \cup {NoProject},
               E!SelectBegin(p, s, q)
        PROVE  TakeTurns'
    BY <1>2, <2>2, SelectBeginsInTurn
  <2>3. ASSUME NEW p \in Proc, E!HookAppend(p) \/ E!HookPair(p) PROVE TakeTurns'
    BY <1>2, <2>3, HookAppendsInTurn
  <2>4. ASSUME NEW p \in Proc, E!HookFinish(p) PROVE TakeTurns'
    BY <1>2, <2>4, HookFinishesInTurn
  <2>5. ASSUME NEW p \in Proc, E!SelectClose(p) PROVE TakeTurns'
    BY <1>2, <2>5, SelectClosesInTurn
  <2>6. ASSUME NEW p \in Proc, E!SelectOpen(p) \/ E!SelectSave(p) PROVE TakeTurns'
    BY <1>2, <2>6, SelectOpensInTurn, SelectSavesInTurn
  <2>7. ASSUME NEW p \in Proc, E!SelectReport(p) \/ E!Crash(p) PROVE TakeTurns'
    <3>1. op[p] # E!Idle /\ E!Done(p) /\ UNCHANGED <<ses, turns, pb, overlap, overtaken>>
      BY <2>7 DEF E!SelectReport, E!Crash, E!files, E!Idle
    <3>2. Keeps(pb, pb')
      BY <3>1 DEF Keeps, E!Same
    <3> QED
      BY <1>2, <3>1, <3>2, IdlesInTurn
  <2>8. ASSUME NEW p \in Proc, NEW q \in Project, E!LockBegin(p, q) PROVE TakeTurns'
    BY <1>2, <2>8, LockBeginsInTurn
  <2>9. ASSUME NEW p \in Proc, E!LockRead(p) \/ E!LockWrite(p) PROVE TakeTurns'
    BY <1>2, <2>9, LockReadsInTurn, LockWritesInTurn
  <2>10. ASSUME UNCHANGED <<ses, turns, pb, op, overlap, overtaken>> PROVE TakeTurns'
    BY <2>10 DEF TakeTurns, Alone
  <2>11. ASSUME NEW q \in Project, E!Revoke(q) PROVE TakeTurns'
    BY <2>10, <2>11 DEF E!Revoke
  <2>12. ASSUME UNCHANGED evidence PROVE TakeTurns'
    BY <2>10, <2>12 DEF evidence
  <2> QED
    BY <2>1, <2>2, <2>3, <2>4, <2>5, <2>6, <2>7, <2>8, <2>9, <2>11, <2>12 DEF E!Next
<1> QED
  BY <1>1, <1>2

LEMMA SelectionFiled ==
    ASSUME StoreInv, TakeTurns
    PROVE  SelectHeals
<1> SUFFICES ASSUME ~overlap, NEW p \in Proc, op[p].at = "saved",
                    NEW b \in E!Range(ses[op[p].s].binds), b.to = E!Ongoing \/ b.to >= b.from
             PROVE  \E c \in E!Range(pb[b.q]) : E!Same(b, c) /\ c.to = b.to
  BY DEF SelectHeals, E!SelectHeals
<1> DEFINE o == op[p]
           bs == o.rec.binds
<1>1. o \in SelectOps /\ Selecting(o) /\ InTurn(o, ses, turns, pb)
  BY OpKinds DEF StoreInv, StoreType, TakeTurns, Selecting
<1>2. ses[o.s] = o.rec /\ Saving(bs, o.rec.h, pb) /\ bs \in Seq(Bonds)
  BY <1>1 DEF InTurn, SelectOps, Records
<1>3. PICK i \in 1 .. Len(bs) : b = bs[i]
  BY <1>2 DEF E!Range
<1>4. b \in Bonds
  BY <1>2, <1>3
<1>5. Exact(b, pb)
  BY <1>2, <1>3 DEF Saving, Past
<1>6. PICK j \in 1 .. Len(pb[b.q]) : E!Same(b, pb[b.q][j]) /\ pb[b.q][j].to = b.to
  BY <1>5 DEF Exact
<1>7. b.q \in Project /\ pb[b.q] \in Seq(Bonds)
  BY <1>4 DEF Bonds, StoreInv, StoreType
<1>8. pb[b.q][j] \in E!Range(pb[b.q])
  BY <1>7 DEF E!Range
<1> QED
  BY <1>6, <1>8

\* When operations take turns, a completed selection leaves every binding of its
\* session that can hold a turn in its project's file, with its range, whatever
\* died half-way before (select_project.py).
THEOREM SelectionHeals == MCSpec => []SelectHeals
<1>1. MCInit => StoreInv /\ TakeTurns
  BY StoreInit, TurnsInit DEF MCInit
<1>2. StoreInv /\ TakeTurns /\ [MCNext]_<<part, vars, closeout, evidence>>
        => StoreInv' /\ TakeTurns'
  BY StoreStep, TurnsStep, HostedStoreStep, HostedAssumption
<1>3. StoreInv /\ TakeTurns => SelectHeals
  BY SelectionFiled
<1> QED
  BY <1>1, <1>2, <1>3, PTL DEF MCSpec

(***************************************************************************)
(* When operations take turns and none dies: what a reply answers.         *)
(***************************************************************************)
Links == [kind : {"pair", "late"}, h : Nat, reply : Nat, inc : BOOLEAN, prop : Nat]

\* A log's events; ordinals rise along it.
Said(evs)  == {evs[i] : i \in 1 .. Len(evs)}
Grows(evs) == \A i \in 1 .. Len(evs) : /\ 0 < evs[i].ord
                                       /\ \A j \in 1 .. Len(evs) : i < j => evs[i].ord < evs[j].ord

\* Events by distinct ordinals; those of the conversation in the order of its turns.
Distinct(S) == \A y, z \in S : y.ord = z.ord => y = z
Turning(S, t) == \A z \in S : z.ev \in {"prompt", "stop"} =>
    z.turn <= t /\ \A y \in S : y.ev = "prompt" /\ z.ord < y.ord => z.turn < y.turn

\* What is left of the events S: a marker and the last of them.
Lately(S, T) == \A z \in T : z.ev # "evicted" => z \in S /\ \A y \in S : z.ord < y.ord => y \in T

LEMMA SaidOnce ==
    ASSUME NEW evs, evs \in Seq(Events), Grows(evs)
    PROVE  Distinct(Said(evs)) /\ Said(evs) \subseteq Events
<1>1. \A i \in 1 .. Len(evs) : evs[i] \in Events
  OBVIOUS
<1>2. \A i \in 1 .. Len(evs) : evs[i].ord \in Nat
  BY <1>1 DEF Events
<1>3. ASSUME NEW i \in 1 .. Len(evs), NEW j \in 1 .. Len(evs), evs[i].ord = evs[j].ord PROVE i = j
  BY <1>2, <1>3 DEF Grows
<1> QED
  BY <1>1, <1>3 DEF Distinct, Said

\* One more event, after all.
LEMMA GrowsBy ==
    ASSUME NEW evs, evs \in Seq(Events), NEW e, e \in Events, Grows(evs),
           \A z \in Said(evs) : z.ord < e.ord, 0 < e.ord, NEW all, all = Append(evs, e)
    PROVE  all \in Seq(Events) /\ Grows(all) /\ Said(all) = Said(evs) \cup {e}
<1>1. /\ all \in Seq(Events) /\ Len(all) = Len(evs) + 1 /\ all[Len(evs) + 1] = e /\ Len(evs) \in Nat
      /\ \A i \in 1 .. Len(evs) : all[i] = evs[i] /\ i \in 1 .. Len(all)
      /\ \A i \in 1 .. Len(all) : i \in 1 .. Len(evs) \/ i = Len(evs) + 1
  OBVIOUS
<1>2. Said(all) = Said(evs) \cup {e}
  <2>1. Said(all) \subseteq Said(evs) \cup {e}
    BY <1>1 DEF Said
  <2>2. e \in Said(all)
    <3>1. Len(evs) + 1 \in 1 .. Len(all)
      BY <1>1
    <3> QED
      BY <1>1, <3>1 DEF Said
  <2>3. Said(evs) \subseteq Said(all)
    BY <1>1 DEF Said
  <2> QED
    BY <2>1, <2>2, <2>3
<1>3. Grows(all)
  <2> SUFFICES ASSUME NEW i \in 1 .. Len(all), NEW j \in 1 .. Len(all)
               PROVE  0 < all[i].ord /\ (i < j => all[i].ord < all[j].ord)
    BY DEF Grows
  <2>1. CASE i \in 1 .. Len(evs)
    <3>1. evs[i] \in Said(evs)
      BY <2>1 DEF Said
    <3>2. CASE j \in 1 .. Len(evs)
      BY <1>1, <2>1, <3>2 DEF Grows
    <3>3. CASE j = Len(evs) + 1
      BY <1>1, <2>1, <3>1, <3>3 DEF Grows
    <3> QED
      BY <1>1, <3>2, <3>3
  <2>2. CASE i = Len(evs) + 1
    BY <1>1, <2>2
  <2> QED
    BY <1>1, <2>1, <2>2
<1> QED
  BY <1>1, <1>2, <1>3

\* An eviction keeps the last events.
LEMMA EvictLately ==
    ASSUME NEW evs, evs \in Seq(Events), evs # <<>>, Grows(evs), BufferMax \in Nat
    PROVE  Lately(Said(evs), Said(E!Evict(evs))) /\ Grows(E!Evict(evs))
<1> DEFINE kept == E!Kept(evs)
<1>1. /\ kept \in Seq(Events) /\ Grows(kept) /\ Lately(Said(evs), Said(kept))
  <2>1. CASE Head(evs).ev = "evicted"
    <3>1. kept = Tail(evs)
      BY <2>1 DEF E!Kept
    <3>2. /\ kept \in Seq(Events) /\ Len(kept) = Len(evs) - 1
          /\ \A i \in 1 .. Len(kept) : kept[i] = evs[i + 1] /\ i + 1 \in 1 .. Len(evs)
      BY <3>1
    <3> HIDE DEF kept
    <3>3. Grows(kept)
      <4> SUFFICES ASSUME NEW i \in 1 .. Len(kept), NEW j \in 1 .. Len(kept)
                   PROVE  0 < kept[i].ord /\ (i < j => kept[i].ord < kept[j].ord)
        BY DEF Grows
      <4>1. i < j => i + 1 < j + 1
        OBVIOUS
      <4> QED
        BY <3>2, <4>1 DEF Grows
    <3>4. Lately(Said(evs), Said(kept))
      <4> SUFFICES ASSUME NEW i \in 1 .. Len(kept)
                   PROVE  /\ kept[i] \in Said(evs)
                          /\ \A j \in 1 .. Len(evs) : kept[i].ord < evs[j].ord => evs[j] \in Said(kept)
        BY DEF Lately, Said
      <4>1. kept[i] = evs[i + 1] /\ i + 1 \in 1 .. Len(evs)
        BY <3>2
      <4>2. ASSUME NEW j \in 1 .. Len(evs), j # 1 PROVE evs[j] \in Said(kept)
        <5>1. j - 1 \in 1 .. Len(kept) /\ (j - 1) + 1 = j
          BY <3>2, <4>2
        <5>2. kept[j - 1] = evs[j]
          BY <3>2, <5>1
        <5> QED
          BY <5>1, <5>2 DEF Said
      <4>3. evs[1].ord < evs[i + 1].ord /\ evs[1] \in Events /\ evs[i + 1] \in Events
        <5>1. 1 \in 1 .. Len(evs) /\ 1 < i + 1
          BY <4>1
        <5> QED
          BY <4>1, <5>1 DEF Grows
      <4>4. ~(evs[i + 1].ord < evs[1].ord)
        BY <4>3 DEF Events
      <4> QED
        BY <4>1, <4>2, <4>4 DEF Said
    <3> QED
      BY <3>2, <3>3, <3>4
  <2>2. CASE Head(evs).ev # "evicted"
    <3>1. kept = evs
      BY <2>2 DEF E!Kept
    <3> QED
      BY <3>1 DEF Lately
  <2> QED
    BY <2>1, <2>2
<1> DEFINE rest(k) == SubSeq(kept, k + 1, Len(kept))
           S == {k \in 0 .. Len(kept) : E!Fits(rest(k))}
           m == E!Min(S)
<1> HIDE DEF kept
<1>2. m \in 0 .. Len(kept)
  <2>1. rest(Len(kept)) = <<>>
    BY <1>1
  <2>2. E!Fits(<<>>)
    BY DEF E!Fits
  <2> HIDE DEF rest
  <2>3. Len(kept) \in S /\ S \subseteq 0 .. Len(kept)
    BY <1>1, <2>1, <2>2
  <2> HIDE DEF S
  <2>4. Len(kept) \in Nat /\ S # {}
    BY <1>1, <2>3
  <2> QED
    BY <2>3, <2>4, LeastOrdinal
<1>3. E!Evict(evs) = IF m = 0 THEN evs ELSE <<E!Marker(kept[m])>> \o rest(m)
  BY DEF E!Evict, kept
<1> HIDE DEF m
<1>4. CASE m = 0
  BY <1>3, <1>4 DEF Lately
<1>5. CASE m # 0
  <2>1. kept[m] \in Events /\ m \in 1 .. Len(kept)
    BY <1>1, <1>2, <1>5
  <2>2. E!Marker(kept[m]).ord = kept[m].ord /\ E!Marker(kept[m]).ev = "evicted"
    BY DEF E!Marker
  <2> DEFINE r == rest(m)
             k == E!Marker(kept[m])
             all == <<k>> \o r
  <2>3. r \in Seq(Events) /\ Len(r) = Len(kept) - m /\ \A i \in 1 .. Len(r) : r[i] = kept[m + i]
    BY <1>1, <1>2
  <2>4. k.ord = kept[m].ord /\ k.ev = "evicted"
    BY <2>2
  <2>5. E!Evict(evs) = all
    BY <1>3, <1>5
  <2> HIDE DEF r, k
  <2>6. /\ Len(all) = Len(r) + 1 /\ all[1] = k /\ Len(r) \in Nat
        /\ \A i \in 1 .. Len(r) : all[i + 1] = r[i]
    BY <2>3
  <2> HIDE DEF all
  <2>7. \A i \in 1 .. Len(all) : i = 1 \/ (i - 1 \in 1 .. Len(r) /\ m + (i - 1) \in 1 .. Len(kept)
                                         /\ all[i] = kept[m + (i - 1)])
    <3> SUFFICES ASSUME NEW i \in 1 .. Len(all), i # 1
                 PROVE  /\ i - 1 \in 1 .. Len(r) /\ m + (i - 1) \in 1 .. Len(kept)
                        /\ all[i] = kept[m + (i - 1)]
      OBVIOUS
    <3>1. i - 1 \in 1 .. Len(r) /\ (i - 1) + 1 = i
      BY <2>6
    <3>2. all[i] = r[i - 1]
      BY <2>6, <3>1
    <3>3. m + (i - 1) \in 1 .. Len(kept)
      BY <1>1, <1>2, <2>3, <3>1
    <3> QED
      BY <2>3, <3>1, <3>2, <3>3
  <2>8. \A i \in 1 .. Len(all) : /\ m + (i - 1) \in 1 .. Len(kept)
                                 /\ all[i].ord = kept[m + (i - 1)].ord
    <3>1. m + (1 - 1) = m
      BY <1>2
    <3> QED
      BY <2>1, <2>4, <2>6, <2>7, <3>1
  <2>9. Grows(all)
    <3> SUFFICES ASSUME NEW i \in 1 .. Len(all), NEW j \in 1 .. Len(all)
                 PROVE  0 < all[i].ord /\ (i < j => all[i].ord < all[j].ord)
      BY DEF Grows
    <3>1. i < j => m + (i - 1) < m + (j - 1)
      BY <1>2, <2>6
    <3> QED
      BY <1>1, <2>8, <3>1 DEF Grows
  <2>10. Lately(Said(kept), Said(all))
    <3> SUFFICES ASSUME NEW i \in 1 .. Len(all), all[i].ev # "evicted"
                 PROVE  /\ all[i] \in Said(kept)
                        /\ \A j \in 1 .. Len(kept) : all[i].ord < kept[j].ord => kept[j] \in Said(all)
      BY DEF Lately, Said
    <3>1. i # 1
      BY <2>4, <2>6
    <3>2. m + (i - 1) \in 1 .. Len(kept) /\ all[i] = kept[m + (i - 1)]
      BY <2>7, <3>1
    <3>3. ASSUME NEW j \in 1 .. Len(kept), all[i].ord < kept[j].ord PROVE kept[j] \in Said(all)
      <4>1. kept[j] \in Events /\ kept[m + (i - 1)] \in Events
        BY <1>1, <3>2
      <4>2. kept[j].ord \in Nat /\ kept[m + (i - 1)].ord \in Nat
        BY <4>1 DEF Events
      <4>3. ~(j < m + (i - 1)) /\ j # m + (i - 1)
        BY <1>1, <3>2, <3>3, <4>2 DEF Grows
      <4>4. j - m \in 1 .. Len(r) /\ m + (j - m) = j /\ (j - m) + 1 \in 1 .. Len(all)
        BY <1>1, <1>2, <2>3, <2>6, <3>2, <4>3
      <4>5. all[(j - m) + 1] = kept[j]
        BY <2>3, <2>6, <4>4
      <4> QED
        BY <4>4, <4>5 DEF Said
    <3> QED
      BY <3>2, <3>3 DEF Said
  <2>11. Lately(Said(evs), Said(all))
    BY <1>1, <2>10 DEF Lately
  <2> QED
    BY <2>5, <2>9, <2>11
<1> QED
  BY <1>4, <1>5

(***************************************************************************)
(* Pairs, and what they answer.                                            *)
(***************************************************************************)
\* A pair of a session with handle h whose events S go up to n: its proposal is the
\* last Stop before its reply, which is there as long as something before it is.
Joined(S, x, h, n) ==
    /\ x.h = h /\ x.prop < x.reply /\ x.reply <= n
    /\ \A z \in S : z.ev = "stop" /\ x.prop # 0 /\ x.prop < z.ord => x.reply <= z.ord
    /\ \A z \in S : z.ev # "evicted" /\ z.ord < x.reply =>
          \E y \in S : y.ev = "prompt" /\ y.ord = x.reply

\* The events that a pair must account for: a later Stop f of the turn of its proposal e,
\* which the prompt g began, and none before the reply after g.
Concerns(S, x, e, f, g) ==
    /\ e.ev = "stop" /\ e.ord = x.prop
    /\ f.ev = "stop" /\ f.turn = e.turn /\ f.ord > e.ord
    /\ g.ev = "prompt" /\ g.turn = e.turn
    /\ \A z \in S : z.ev = "prompt" /\ z.ord > g.ord => z.ord >= x.reply

\* They agree, but for the Stops D whose late record is not written yet.
Answered(S, x, D) == \A e, f, g \in S :
    Concerns(S, x, e, f, g) => f.text = e.text \/ f.ord \in D

LEMMA TurningLately ==
    ASSUME NEW S, NEW T, Lately(S, T), NEW t, Turning(S, t)
    PROVE  Turning(T, t)
BY DEF Lately, Turning

LEMMA JoinedLately ==
    ASSUME NEW S, NEW T, Lately(S, T), NEW x, NEW h, NEW n, n \in Nat, NEW m, m \in Nat, n <= m,
           x.reply \in Nat, Joined(S, x, h, n)
    PROVE  Joined(T, x, h, m)
<1>1. \A z \in T : z.ev = "stop" => z \in S
  BY DEF Lately
<1>2. x.reply <= m
  BY DEF Joined
<1>3. ASSUME NEW z \in T, z.ev # "evicted", z.ord < x.reply
      PROVE  \E y \in T : y.ev = "prompt" /\ y.ord = x.reply
  <2>1. z \in S
    BY <1>3 DEF Lately
  <2>2. PICK y \in S : y.ev = "prompt" /\ y.ord = x.reply
    BY <1>3, <2>1 DEF Joined
  <2>3. y \in T
    BY <1>3, <2>2 DEF Lately
  <2> QED
    BY <2>2, <2>3
<1> QED
  BY <1>1, <1>2, <1>3 DEF Joined

LEMMA AnsweredLately ==
    ASSUME NEW S, NEW T, Lately(S, T), NEW x, NEW D, Answered(S, x, D)
    PROVE  Answered(T, x, D)
<1> SUFFICES ASSUME NEW e \in T, NEW f \in T, NEW g \in T, Concerns(T, x, e, f, g)
             PROVE  f.text = e.text \/ f.ord \in D
  BY DEF Answered
<1>1. e \in S /\ f \in S /\ g \in S
  BY DEF Lately, Concerns
<1>2. \A z \in S : z.ev = "prompt" /\ z.ord > g.ord => z \in T
  BY DEF Lately, Concerns
<1>3. Concerns(S, x, e, f, g)
  BY <1>2 DEF Concerns
<1> QED
  BY <1>1, <1>3 DEF Answered

\* One more event after all, e, of what a session says.
LEMMA JoinedBy ==
    ASSUME NEW S, NEW e, e.ord \in Nat, NEW n, n \in Nat, n < e.ord, NEW x, x.reply \in Nat, NEW h,
           Joined(S, x, h, n)
    PROVE  Joined(S \cup {e}, x, h, n)
<1>1. \A z \in S : z.ev = "stop" /\ x.prop # 0 /\ x.prop < z.ord => x.reply <= z.ord
  BY DEF Joined
<1>2. x.reply <= e.ord /\ ~(e.ord < x.reply)
  BY DEF Joined
<1> QED
  BY <1>1, <1>2 DEF Joined

LEMMA AnsweredBy ==
    ASSUME NEW S, S \subseteq Events, NEW item, item \in Events, \A z \in S : z.ord < item.ord,
           NEW t, Turning(S \cup {item}, t), NEW x, x.prop < item.ord, x.prop \in Nat,
           Answered(S, x, {}), NEW D, item.ord \in D \/ item.ev # "stop"
    PROVE  Answered(S \cup {item}, x, D)
<1> SUFFICES ASSUME NEW e \in S \cup {item}, NEW f \in S \cup {item}, NEW g \in S \cup {item},
                    Concerns(S \cup {item}, x, e, f, g), f.ord \notin D
             PROVE  f.text = e.text
  BY DEF Answered
<1>1. item.ord \in Nat /\ \A z \in S : z.ord \in Nat
  BY DEF Events
<1>2. e \in S
  BY <1>1 DEF Concerns
<1>3. f \in S
  BY DEF Concerns
<1>4. g \in S
  <2> SUFFICES ASSUME g = item PROVE FALSE
    OBVIOUS
  <2>1. e.ev = "stop" /\ g.ev = "prompt" /\ e.ord < g.ord /\ e.turn = g.turn
    BY <1>2 DEF Concerns
  <2>2. e.turn < g.turn
    BY <2>1 DEF Turning
  <2>3. e.turn \in Nat
    BY <1>2 DEF Events
  <2> QED
    BY <2>1, <2>2, <2>3
<1>5. Concerns(S, x, e, f, g)
  BY DEF Concerns
<1> QED
  BY <1>2, <1>3, <1>4, <1>5 DEF Answered

\* The pair of a reply: the last Stop of its window, or none.
LEMMA PairIs ==
    ASSUME NEW o, o.prior \in Seq(Events), Grows(o.prior)
    PROVE  LET x == E!PairFor(o) IN
           /\ x.kind = "pair" /\ x.h = o.rec.h /\ x.reply = o.item.ord /\ x.inc = FALSE
           /\ \/ x.prop = 0
              \/ /\ \E z \in Said(o.prior) : z.ord = x.prop
                 /\ \A z \in Said(o.prior) : z.ev = "stop" => z.ord <= x.prop
<1> DEFINE evs == o.prior
           stops == E!Stops(evs) \cap E!Window(evs)
           k == E!Max(stops)
           none == stops = {} \/ E!Cut(evs, evs[k])
           x == E!PairFor(o)
<1>1. x = [kind |-> "pair", h |-> o.rec.h, reply |-> o.item.ord, inc |-> FALSE,
           prop |-> IF none THEN 0 ELSE evs[k].ord]
  BY DEF E!PairFor, E!Pair
<1>2. /\ x.kind = "pair" /\ x.h = o.rec.h /\ x.reply = o.item.ord /\ x.inc = FALSE
      /\ x.prop = IF none THEN 0 ELSE evs[k].ord
  BY <1>1
<1> HIDE DEF x, none, evs
<1>3. evs \in Seq(Events) /\ Grows(evs)
  BY DEF evs
<1>4. \A i \in 1 .. Len(evs) : evs[i] \in Events
  BY <1>3
<1>5. \A i \in 1 .. Len(evs) : evs[i].ord \in Nat
  BY <1>4 DEF Events
<1>6. DOMAIN evs = 1 .. Len(evs) /\ Len(evs) \in Nat
  BY <1>3
<1>7. stops = {i \in 1 .. Len(evs) : evs[i].ev = "stop" /\ evs[i].ord > E!Floor(evs)}
  <2>1. E!Stops(evs) = {i \in 1 .. Len(evs) : evs[i].ev = "stop"}
    BY <1>6 DEF E!Stops
  <2>2. E!Window(evs) = {i \in 1 .. Len(evs) : evs[i].ord > E!Floor(evs)}
    BY <1>6 DEF E!Window
  <2> QED
    BY <2>1, <2>2
<1>8. E!Floor(evs) \in Nat
  <2> DEFINE P == E!Prompts(evs)
  <2>1. P \subseteq 0 .. Len(evs) /\ P \subseteq 1 .. Len(evs)
    BY <1>6 DEF E!Prompts
  <2>2. E!Floor(evs) = IF P = {} THEN 0 ELSE evs[E!Max(P)].ord
    BY DEF E!Floor
  <2> HIDE DEF P
  <2>3. P # {} => E!Max(P) \in P
    BY <1>6, <2>1, GreatestOrdinal
  <2>4. CASE P = {}
    BY <2>2, <2>4
  <2>5. CASE P # {}
    <3>1. E!Max(P) \in 1 .. Len(evs)
      BY <2>1, <2>3, <2>5
    <3> QED
      BY <1>5, <2>2, <2>5, <3>1
  <2> QED
    BY <2>4, <2>5
<1> HIDE DEF stops, k
<1>9. ASSUME stops # {}
      PROVE  /\ k \in 1 .. Len(evs) /\ \A j \in 1 .. Len(evs) : evs[j].ev = "stop" => evs[j].ord <= evs[k].ord
  <2>1. k \in stops /\ \A j \in stops : j <= k
    <3>1. stops \subseteq 0 .. Len(evs)
      BY <1>6, <1>7
    <3> QED
      BY <1>6, <1>9, <3>1, GreatestOrdinal DEF k
  <2>2. k \in 1 .. Len(evs) /\ evs[k].ord > E!Floor(evs)
    BY <1>7, <2>1
  <2>3. ASSUME NEW j \in 1 .. Len(evs), evs[j].ev = "stop" PROVE evs[j].ord <= evs[k].ord
    <3>1. CASE j \in stops
      <4>1. j = k \/ j < k
        BY <2>1, <2>2, <3>1
      <4>2. j < k => evs[j].ord < evs[k].ord
        BY <1>3, <2>2 DEF Grows
      <4> QED
        BY <1>5, <2>2, <4>1, <4>2
    <3>2. CASE j \notin stops
      <4>1. evs[j].ord <= E!Floor(evs)
        BY <1>5, <1>7, <1>8, <2>3, <3>2
      <4> QED
        BY <1>5, <1>8, <2>2, <4>1
    <3> QED
      BY <3>1, <3>2
  <2> QED
    BY <2>2, <2>3
<1>10. CASE none
  BY <1>2, <1>10 DEF x
<1>11. CASE ~none
  <2>1. stops # {} /\ x.prop = evs[k].ord
    BY <1>2, <1>11 DEF none
  <2>2. (\E z \in Said(evs) : z.ord = x.prop) /\ \A z \in Said(evs) : z.ev = "stop" => z.ord <= x.prop
    BY <1>9, <2>1 DEF Said
  <2> QED
    BY <1>2, <2>2 DEF x, evs
<1> QED
  BY <1>10, <1>11

\* The pairs of a log have different replies, and a late record marks its pair.
Apiece(ps) == \A k, l \in 1 .. Len(ps) :
    k # l /\ ps[k].kind = "pair" /\ ps[l].kind = "pair" => ps[k].reply # ps[l].reply
Doubted(ps, k) == \E i \in 1 .. Len(ps) :
    k < i /\ ps[i].inc /\ ps[i].kind = "late" /\ ps[i].h = ps[k].h /\ ps[i].reply = ps[k].reply

\* The late record of a Stop: it finds the pair it is about, and what that said.
LEMMA LateIs ==
    ASSUME NEW o, o.prior \in Seq(Events), Grows(o.prior), pairs[o.s] \in Seq(Links),
           Apiece(pairs[o.s]), NEW k \in 1 .. Len(pairs[o.s]), pairs[o.s][k].kind = "pair",
           pairs[o.s][k].h = o.rec.h, pairs[o.s][k].prop # 0,
           NEW e, e \in Said(o.prior), e.ord = pairs[o.s][k].prop,
           NEW y, y \in Said(o.prior), y.ev = "prompt", y.ord = pairs[o.s][k].reply,
           NEW g, g \in Said(o.prior), g.ev = "prompt", g.turn = o.item.turn, g.ord < y.ord,
           \A z \in Said(o.prior) : z.ev = "prompt" /\ z.turn = g.turn => z = g,
           \A z \in Said(o.prior) : z.ev = "prompt" /\ z.ord > g.ord => z.ord >= y.ord
    PROVE  /\ E!Consumers(o) # {}
           /\ LET x == E!LateFor(o) IN
              /\ x.kind = "late" /\ x.h = o.rec.h /\ x.reply = pairs[o.s][k].reply
              /\ o.item.text # e.text => x.inc
<1> DEFINE evs == o.prior
           ps == pairs[o.s]
           B == E!Starters(o)
           takers == E!Consumers(o)
<1>1. /\ evs \in Seq(Events) /\ Grows(evs) /\ DOMAIN evs = 1 .. Len(evs) /\ Len(evs) \in Nat
      /\ Len(ps) \in Nat
  OBVIOUS
<1>2. \A i \in 1 .. Len(evs) : evs[i] \in Events
  BY <1>1
<1>3. \A i \in 1 .. Len(evs) : evs[i].ord \in Nat
  BY <1>2 DEF Events
<1>4. \A i, j \in 1 .. Len(evs) : evs[i].ord = evs[j].ord => i = j
  BY <1>1, <1>3 DEF Grows
<1>5. PICK b \in 1 .. Len(evs) : g = evs[b]
  BY DEF Said
<1>6. PICK c \in 1 .. Len(evs) : y = evs[c]
  BY DEF Said
<1>7. PICK a \in 1 .. Len(evs) : e = evs[a]
  BY DEF Said
<1>8. B = {b}
  <2>1. B = {i \in 1 .. Len(evs) : evs[i].ev = "prompt" /\ evs[i].turn = o.item.turn}
    BY <1>1 DEF E!Starters, E!Prompts
  <2>2. \A i \in 1 .. Len(evs) : evs[i].ev = "prompt" /\ evs[i].turn = o.item.turn => evs[i] = g
    BY DEF Said
  <2>3. b \in B
    BY <1>5, <2>1
  <2>4. \A i \in B : i = b
    BY <1>4, <1>5, <2>1, <2>2
  <2> QED
    BY <2>3, <2>4
<1>9. E!Min(B) = b
  <2>1. B \subseteq 0 .. Len(evs) /\ B # {}
    BY <1>8
  <2>2. E!Min(B) \in B
    BY <1>1, <2>1, LeastOrdinal
  <2> QED
    BY <1>8, <2>2
<1>10. takers = {i \in 1 .. Len(evs) : evs[i].ev = "prompt" /\ evs[i].ord > g.ord}
  <2>1. takers = IF B = {} THEN {} ELSE {i \in E!Prompts(evs) : evs[i].ord > evs[E!Min(B)].ord}
    BY DEF E!Consumers
  <2> HIDE DEF B, takers
  <2> QED
    BY <1>1, <1>5, <1>8, <1>9, <2>1 DEF E!Prompts
<1>11. c \in takers /\ \A i \in takers : evs[i].ord >= y.ord
  <2>1. y.ord > g.ord
    BY <1>3, <1>5, <1>6
  <2>2. \A i \in 1 .. Len(evs) : evs[i].ev = "prompt" /\ evs[i].ord > g.ord => evs[i].ord >= y.ord
    BY DEF Said
  <2> HIDE DEF takers
  <2> QED
    BY <1>6, <1>10, <2>1, <2>2
<1> HIDE DEF B, takers
<1>12. E!Min(takers) = c
  <2>1. takers \subseteq 0 .. Len(evs) /\ takers # {} /\ takers \subseteq 1 .. Len(evs)
    BY <1>10, <1>11
  <2>2. E!Min(takers) \in takers /\ E!Min(takers) <= c
    BY <1>1, <1>11, <2>1, LeastOrdinal
  <2>3. ~(E!Min(takers) < c)
    <3> SUFFICES ASSUME E!Min(takers) < c PROVE FALSE
      OBVIOUS
    <3>1. E!Min(takers) \in 1 .. Len(evs)
      BY <2>1, <2>2
    <3>2. evs[E!Min(takers)].ord < y.ord
      BY <1>1, <1>6, <3>1 DEF Grows
    <3>3. evs[E!Min(takers)].ord >= y.ord
      BY <1>11, <2>2
    <3>4. evs[E!Min(takers)].ord \in Nat /\ y.ord \in Nat
      BY <1>3, <1>6, <3>1
    <3> QED
      BY <3>2, <3>3, <3>4
  <2> QED
    BY <2>1, <2>2, <2>3
<1> DEFINE reply == evs[E!Min(takers)].ord
           fixed == E!Frozen(o.s, o.rec.h, reply)
           prop == IF fixed = {} THEN 0 ELSE ps[E!Min(fixed)].prop
           said == {i \in DOMAIN evs : evs[i].ord = prop}
           clash == prop # 0 /\ (said # {} => evs[E!Min(said)].text # o.item.text)
           x == E!LateFor(o)
<1>13. x = [kind |-> "late", h |-> o.rec.h, reply |-> reply, prop |-> 0, inc |-> clash]
  BY DEF E!LateFor, takers
<1>14. reply = y.ord
  BY <1>6, <1>12
<1>15. fixed = {k}
  <2>1. fixed = {i \in 1 .. Len(ps) : ps[i].kind = "pair" /\ ps[i].h = o.rec.h /\ ps[i].reply = reply}
    BY DEF E!Frozen
  <2> HIDE DEF fixed, reply
  <2>2. \A i \in fixed : i = k
    BY <1>14, <2>1 DEF Apiece
  <2> QED
    BY <1>14, <2>1, <2>2
<1>16. prop = e.ord /\ prop # 0
  <2>1. fixed \subseteq 0 .. Len(ps) /\ fixed # {}
    BY <1>15
  <2> HIDE DEF fixed
  <2>2. E!Min(fixed) \in fixed
    BY <1>1, <2>1, LeastOrdinal
  <2>3. E!Min(fixed) = k
    BY <1>15, <2>2
  <2> QED
    BY <1>15, <2>3
<1> HIDE DEF fixed, reply, prop
<1>17. said = {a} /\ E!Min(said) = a
  <2>1. said = {i \in 1 .. Len(evs) : evs[i].ord = prop}
    BY <1>1
  <2> HIDE DEF said
  <2>2. said = {a}
    BY <1>4, <1>7, <1>16, <2>1
  <2>3. said \subseteq 0 .. Len(evs) /\ said # {}
    BY <2>2
  <2>4. E!Min(said) \in said
    BY <1>1, <2>3, LeastOrdinal
  <2> QED
    BY <2>2, <2>4
<1> HIDE DEF said
<1>18. x.kind = "late" /\ x.h = o.rec.h /\ x.reply = reply
  BY <1>13
<1>19. o.item.text # e.text => x.inc
  <2>1. o.item.text # e.text => clash
    BY <1>7, <1>16, <1>17
  <2> HIDE DEF clash
  <2>2. x.inc = clash
    BY <1>13
  <2> QED
    BY <2>1, <2>2
<1>20. takers # {} /\ x.reply = ps[k].reply
  BY <1>11, <1>14, <1>18
<1> QED
  BY <1>18, <1>19, <1>20 DEF takers

\* The pairs of a session with events S and handle h: they are joined, and answered.
Paired(S, ps, h, n) == \A k \in 1 .. Len(ps) : ps[k].kind = "pair" => Joined(S, ps[k], h, n)
Answers(S, ps, D) == \A k \in 1 .. Len(ps) : ps[k].kind = "pair" =>
    Doubted(ps, k) \/ Answered(S, ps[k], D)
Below(ps, n) == \A k \in 1 .. Len(ps) : ps[k].kind = "pair" => ps[k].reply < n

\* The event that a hook reports, after those it has read.
Heard(o) == Said(o.prior) \cup {o.item}
Newest(o) == /\ Grows(o.prior) /\ 0 < o.item.ord /\ o.item.ev # "evicted"
             /\ \A z \in Said(o.prior) : z.ord < o.item.ord

LEMMA NewestIs ==
    ASSUME NEW o, o.prior \in Seq(Events), o.item \in Events, Newest(o)
    PROVE  /\ Distinct(Heard(o)) /\ Heard(o) \subseteq Events
           /\ \A z \in Heard(o) : 0 < z.ord
<1>1. Distinct(Said(o.prior)) /\ Said(o.prior) \subseteq Events
  BY SaidOnce DEF Newest
<1>2. \A z \in Said(o.prior) : 0 < z.ord
  BY DEF Newest, Grows, Said
<1>3. o.item.ord \in Nat /\ \A z \in Said(o.prior) : z.ord \in Nat
  BY <1>1 DEF Events
<1>4. Distinct(Heard(o))
  BY <1>1, <1>3 DEF Newest, Heard, Distinct
<1> QED
  BY <1>1, <1>2, <1>4 DEF Newest, Heard

\* Old pairs when the log takes one more event.
LEMMA PairsGoOn ==
    ASSUME NEW o, o.prior \in Seq(Events), o.item \in Events, Newest(o),
           NEW t, Turning(Heard(o), t), NEW ps, ps \in Seq(Links), NEW h,
           NEW n, n \in Nat, n < o.item.ord, NEW m, m \in Nat, n <= m,
           Paired(Said(o.prior), ps, h, n), Answers(Said(o.prior), ps, {}),
           NEW D, o.item.ord \in D \/ o.item.ev # "stop", NEW T, Lately(Heard(o), T)
    PROVE  Paired(T, ps, h, m) /\ Answers(T, ps, D) /\ Below(ps, o.item.ord)
<1> DEFINE S == Said(o.prior)
<1>1. S \subseteq Events /\ o.item.ord \in Nat /\ \A z \in S : z.ord < o.item.ord
  BY SaidOnce DEF Newest, Events
<1>2. ASSUME NEW k \in 1 .. Len(ps) PROVE ps[k].reply \in Nat /\ ps[k].prop \in Nat
  <2>1. ps[k] \in Links
    OBVIOUS
  <2> QED
    BY <2>1 DEF Links
<1>3. Heard(o) = S \cup {o.item}
  BY DEF Heard
<1>4. ASSUME NEW k \in 1 .. Len(ps), ps[k].kind = "pair"
      PROVE  Joined(S, ps[k], h, n) /\ ps[k].reply < o.item.ord /\ ps[k].prop < o.item.ord
  <2>1. Joined(S, ps[k], h, n)
    BY <1>4 DEF Paired
  <2>2. ps[k].reply <= n /\ ps[k].prop < ps[k].reply
    BY <2>1 DEF Joined
  <2> QED
    BY <1>1, <1>2, <2>1, <2>2
<1>5. Below(ps, o.item.ord)
  BY <1>4 DEF Below
<1> HIDE DEF S
<1>6. ASSUME NEW k \in 1 .. Len(ps), ps[k].kind = "pair" PROVE Joined(T, ps[k], h, m)
  <2> DEFINE x == ps[k]
  <2>1. Joined(S, x, h, n) /\ x.reply \in Nat
    BY <1>2, <1>4, <1>6
  <2> HIDE DEF x
  <2>2. Joined(S \cup {o.item}, x, h, n)
    BY <1>1, <2>1, JoinedBy
  <2>3. Joined(T, x, h, m)
    BY <1>3, <2>1, <2>2, JoinedLately
  <2> QED
    BY <2>3 DEF x
<1>7. ASSUME NEW k \in 1 .. Len(ps), ps[k].kind = "pair"
      PROVE  Doubted(ps, k) \/ Answered(T, ps[k], D)
  <2> SUFFICES ASSUME ~Doubted(ps, k) PROVE Answered(T, ps[k], D)
    OBVIOUS
  <2> DEFINE x == ps[k]
  <2>1. Answered(S, x, {}) /\ x.prop \in Nat /\ x.prop < o.item.ord
    BY <1>2, <1>4, <1>7 DEF Answers, S
  <2> HIDE DEF x
  <2>2. Turning(S \cup {o.item}, t)
    BY <1>3
  <2>3. Answered(S \cup {o.item}, x, D)
    BY <1>1, <2>1, <2>2, AnsweredBy
  <2>4. Answered(T, x, D)
    BY <1>3, <2>3, AnsweredLately
  <2> QED
    BY <2>4 DEF x
<1> QED
  BY <1>5, <1>6, <1>7 DEF Paired, Answers

\* What an append leaves of a log that is still what the hook has read.
LEMMA LoggedSays ==
    ASSUME NEW o, o \in HookOps, turns[o.s] = o.prior, Newest(o),
           NEW n, n \in Nat, UpTo(o.prior, n), o.item.ord <= n, BufferMax \in Nat
    PROVE  /\ Grows(E!Logged(o)) /\ Lately(Heard(o), Said(E!Logged(o)))
           /\ E!Top(o.prior) \in Nat /\ E!Top(E!Logged(o)) \in Nat
           /\ E!Top(o.prior) < o.item.ord /\ o.item.ord <= E!Top(E!Logged(o))
<1> DEFINE old == o.prior
           e == o.item
           a == Append(old, e)
           l == E!Logged(o)
<1>1. old \in Seq(Events) /\ e \in Events /\ Newest(o)
  BY DEF HookOps
<1>2. e.ord \in Nat /\ Grows(old) /\ 0 < e.ord /\ e.ev # "evicted" /\ \A z \in Said(old) : z.ord < e.ord
  BY <1>1 DEF Newest, Events
<1>3. a \in Seq(Events) /\ Grows(a) /\ Said(a) = Heard(o)
  <2> HIDE DEF old, e
  <2>1. a \in Seq(Events) /\ Grows(a) /\ Said(a) = Said(old) \cup {e}
    BY <1>1, <1>2, GrowsBy
  <2> QED
    BY <2>1 DEF Heard, old, e
<1>4. E!Top(old) \in Nat /\ E!Top(old) < e.ord
  <2>1. E!Top(old) \in 0 .. n /\ (E!Top(old) = 0 \/ \E i \in 1 .. Len(old) : old[i].ord = E!Top(old))
    BY <1>1, TopIs
  <2>2. \A i \in 1 .. Len(old) : old[i].ord < e.ord
    BY <1>2 DEF Said
  <2> QED
    BY <1>2, <2>1, <2>2
<1>5. /\ a # <<>> /\ a[Len(a)] = e /\ Len(a) = Len(old) + 1 /\ Len(a) \in 1 .. Len(a)
      /\ old \o <<e>> = a /\ \A i \in 1 .. Len(a) : a[i] = e \/ (i \in 1 .. Len(old) /\ a[i] = old[i])
  <2> HIDE DEF old, e
  <2>1. /\ Len(a) = Len(old) + 1 /\ Len(old) \in Nat /\ a[Len(old) + 1] = e
        /\ \A i \in 1 .. Len(old) : a[i] = old[i]
    BY <1>1
  <2>2. old \o <<e>> = a
    BY <1>1
  <2> HIDE DEF a
  <2> QED
    BY <1>3, <2>1, <2>2
<1>6. UpTo(a, n)
  <2> HIDE DEF a
  <2> QED
    BY <1>5 DEF UpTo
<1>7. CASE ~E!Evicts(o)
  <2>1. l = a
    BY <1>7 DEF E!Logged
  <2> HIDE DEF a, l
  <2>2. E!Top(a) \in 0 .. n /\ \A i \in 1 .. Len(a) : a[i].ord <= E!Top(a)
    BY <1>3, <1>6, TopIs
  <2>3. e.ord <= E!Top(a)
    BY <1>5, <2>2
  <2>4. Lately(Heard(o), Said(a))
    BY <1>3 DEF Lately
  <2> QED
    BY <1>3, <1>4, <2>1, <2>2, <2>3, <2>4 DEF l
<1>8. CASE E!Evicts(o)
  <2> DEFINE v == E!Evict(a)
  <2>1. l = v
    BY <1>5, <1>8 DEF E!Logged
  <2> HIDE DEF a, l, v
  <2>2. Lately(Said(a), Said(v)) /\ Grows(v)
    BY <1>3, <1>5, EvictLately DEF v
  <2>3. v \in Seq(Events) /\ UpTo(v, n) /\ \E i \in 1 .. Len(v) : v[i].ord = e.ord
    BY <1>2, <1>3, <1>5, <1>6, EvictKeeps DEF v
  <2>4. E!Top(v) \in 0 .. n /\ \A i \in 1 .. Len(v) : v[i].ord <= E!Top(v)
    BY <2>3, TopIs
  <2>5. e.ord <= E!Top(v)
    BY <2>3, <2>4
  <2> QED
    BY <1>3, <1>4, <2>1, <2>2, <2>4, <2>5 DEF l
<1> QED
  BY <1>7, <1>8

\* The pair of a prompt that the log has.
LEMMA PairJoins ==
    ASSUME NEW o, o \in HookOps, Newest(o), o.item.ev = "prompt",
           NEW T, Lately(Heard(o), T), NEW n, n \in Nat, o.item.ord <= n
    PROVE  LET x == E!PairFor(o) IN
           /\ x \in Links /\ x.kind = "pair" /\ x.reply = o.item.ord /\ x.inc = FALSE
           /\ Joined(T, x, o.rec.h, n) /\ Answered(T, x, {})
<1> DEFINE x == E!PairFor(o)
           S == Heard(o)
<1>1. o.prior \in Seq(Events) /\ o.item \in Events /\ o.rec.h \in Nat
  BY DEF HookOps, Records
<1>2. Distinct(S) /\ S \subseteq Events /\ \A z \in S : 0 < z.ord
  BY <1>1, NewestIs
<1>3. o.item.ord \in Nat /\ \A z \in S : z.ord \in Nat
  BY <1>1, <1>2 DEF Events
<1>4. /\ x.kind = "pair" /\ x.h = o.rec.h /\ x.reply = o.item.ord /\ x.inc = FALSE
      /\ \/ x.prop = 0
         \/ /\ \E z \in Said(o.prior) : z.ord = x.prop
            /\ \A z \in Said(o.prior) : z.ev = "stop" => z.ord <= x.prop
  BY <1>1, PairIs DEF Newest
<1>5. x.prop \in Nat /\ x.prop < o.item.ord
  BY <1>3, <1>4 DEF Newest, Heard
<1>6. x \in Links
  <2>1. PICK v : x = [kind |-> "pair", h |-> o.rec.h, reply |-> o.item.ord, inc |-> FALSE, prop |-> v]
    BY DEF E!PairFor, E!Pair
  <2> HIDE DEF x
  <2>2. x.prop = v
    BY <2>1
  <2> QED
    BY <1>1, <1>3, <1>5, <2>1, <2>2 DEF Links
<1> HIDE DEF x
<1>7. \A z \in T : z.ev = "stop" /\ x.prop # 0 => z.ord <= x.prop
  <2> SUFFICES ASSUME NEW z \in T, z.ev = "stop", x.prop # 0 PROVE z.ord <= x.prop
    OBVIOUS
  <2>1. z \in S
    BY DEF Lately
  <2>2. z \in Said(o.prior)
    BY <2>1 DEF Heard
  <2> QED
    BY <1>4, <2>2
<1>8. \A z \in T : z.ev # "evicted" /\ z.ord < o.item.ord => o.item \in T
  BY DEF Lately, Heard
<1>9. \A z \in T : z.ev = "stop" => z.ord \in Nat /\ 0 < z.ord
  BY <1>2, <1>3 DEF Lately
<1>10. Joined(T, x, o.rec.h, n)
  <2>1. \A z \in T : z.ev = "stop" /\ x.prop # 0 /\ x.prop < z.ord => x.reply <= z.ord
    BY <1>5, <1>7, <1>9
  <2> QED
    BY <1>4, <1>5, <1>8, <2>1 DEF Joined
<1>11. Answered(T, x, {})
  BY <1>5, <1>7, <1>9 DEF Answered, Concerns
<1> QED
  BY <1>4, <1>6, <1>10, <1>11 DEF x

\* A Stop that belies a pair marks it.
LEMMA StopMarks ==
    ASSUME NEW o, o \in HookOps, Newest(o), o.item.ev = "stop", pairs[o.s] \in Seq(Links),
           Apiece(pairs[o.s]), NEW t, Turning(Heard(o), t), NEW T, Lately(Heard(o), T),
           NEW k \in 1 .. Len(pairs[o.s]), pairs[o.s][k].kind = "pair",
           NEW n, Joined(T, pairs[o.s][k], o.rec.h, n), Answered(T, pairs[o.s][k], {o.item.ord}),
           ~Answered(T, pairs[o.s][k], {})
    PROVE  /\ E!Consumers(o) # {}
           /\ LET x == E!LateFor(o) IN
              /\ x.kind = "late" /\ x.h = o.rec.h /\ x.reply = pairs[o.s][k].reply
              /\ x.inc
<1> DEFINE x == pairs[o.s][k]
           S == Heard(o)
           P == Said(o.prior)
<1> PICK e \in T : \E f, g \in T : Concerns(T, x, e, f, g) /\ f.text # e.text
  BY DEF Answered
<1> PICK f \in T : \E g \in T : Concerns(T, x, e, f, g) /\ f.text # e.text
  OBVIOUS
<1> PICK g \in T : Concerns(T, x, e, f, g) /\ f.text # e.text
  OBVIOUS
<1>1. o.prior \in Seq(Events) /\ o.item \in Events /\ Grows(o.prior)
  BY DEF HookOps, Newest
<1>2. Distinct(S) /\ S \subseteq Events /\ \A z \in S : 0 < z.ord
  BY <1>1, NewestIs
<1>3. \A z \in S : z.ord \in Nat /\ z.turn \in Nat
  BY <1>2 DEF Events
<1>4. P \subseteq S /\ o.item \in S /\ \A z \in S : z \in P \/ z = o.item
  BY DEF Heard
<1>5. x.h = o.rec.h /\ x \in Links
  BY DEF Joined
<1>6. /\ e.ev = "stop" /\ e.ord = x.prop /\ f.ev = "stop" /\ f.turn = e.turn /\ f.ord > e.ord
      /\ g.ev = "prompt" /\ g.turn = e.turn
      /\ \A z \in T : z.ev = "prompt" /\ z.ord > g.ord => z.ord >= x.reply
  BY DEF Concerns
<1>7. e \in S /\ f \in S /\ g \in S /\ \A z \in T : z.ev = "prompt" => z \in S
  BY <1>6 DEF Lately
<1>8. f = o.item
  <2>1. f.ord = o.item.ord
    BY DEF Answered
  <2> QED
    BY <1>2, <1>4, <1>7, <2>1 DEF Distinct
<1>9. e \in P /\ g \in P
  <2>1. e.ord # f.ord
    BY <1>3, <1>6, <1>7
  <2> QED
    BY <1>4, <1>6, <1>7, <1>8, <2>1
<1>10. x.prop # 0 /\ x.prop < x.reply
  BY <1>2, <1>6, <1>7 DEF Joined
<1>11. PICK y \in T : y.ev = "prompt" /\ y.ord = x.reply
  BY <1>6, <1>10 DEF Joined
<1>12. y \in P
  BY <1>4, <1>7, <1>11
<1> HIDE DEF x, S, P
<1>13. \A z \in S : z.ev = "prompt" /\ z.turn = g.turn => z = g
  <2> SUFFICES ASSUME NEW z \in S, z.ev = "prompt", z.turn = g.turn PROVE z = g
    OBVIOUS
  <2>1. ~(z.ord < g.ord) /\ ~(g.ord < z.ord)
    <3>1. z.ord < g.ord => z.turn < g.turn
      BY <1>6, <1>7 DEF Turning, S
    <3>2. g.ord < z.ord => g.turn < z.turn
      BY <1>6, <1>7 DEF Turning, S
    <3> QED
      BY <1>3, <1>7, <3>1, <3>2
  <2>2. z.ord = g.ord
    BY <1>3, <1>7, <2>1
  <2> QED
    BY <1>2, <1>7, <2>2 DEF Distinct
<1>14. g.ord < y.ord
  <2>1. e.ord < g.ord => e.turn < g.turn
    BY <1>6, <1>7 DEF Turning, S
  <2>2. e.ord # g.ord
    BY <1>2, <1>6, <1>7 DEF Distinct
  <2> QED
    BY <1>3, <1>6, <1>7, <1>10, <1>11, <2>1, <2>2, <1>12, <1>4
<1>15. \A z \in S : z.ev = "prompt" /\ z.ord > g.ord => z.ord >= y.ord
  <2> SUFFICES ASSUME NEW z \in S, z.ev = "prompt", z.ord > g.ord PROVE z.ord >= y.ord
    OBVIOUS
  <2>1. z \in T
    BY <1>6 DEF Lately, S
  <2> QED
    BY <1>6, <1>11, <2>1
<1>16. g.turn = o.item.turn
  BY <1>6, <1>8
<1>17. /\ \A z \in P : z.ev = "prompt" /\ z.turn = g.turn => z = g
       /\ \A z \in P : z.ev = "prompt" /\ z.ord > g.ord => z.ord >= y.ord
  BY <1>4, <1>13, <1>15
<1>18. /\ E!Consumers(o) # {}
       /\ LET c == E!LateFor(o) IN
          /\ c.kind = "late" /\ c.h = o.rec.h /\ c.reply = pairs[o.s][k].reply
          /\ o.item.text # e.text => c.inc
  BY <1>1, <1>5, <1>6, <1>9, <1>10, <1>11, <1>12, <1>14, <1>16, <1>17, LateIs DEF x, P
<1> QED
  BY <1>8, <1>18

(***************************************************************************)
(* The invariant.                                                          *)
(***************************************************************************)
\* A Stop that is in the log and has not been compared with the pair it may belie.
Owed(o, s) == {n \in {o.item.ord} : o.at = "pair" /\ o.item.ev = "stop" /\ o.s = s}
Due(os, s) == UNION {Owed(os[p], s) : p \in Proc}

SessionAnswers(r, evs, ps, t, D) ==
    /\ ps \in Seq(Links) /\ Apiece(ps)
    /\ Grows(evs) /\ Turning(Said(evs), t)
    /\ r = NoSession => ps = <<>>
    /\ r # NoSession => Paired(Said(evs), ps, r.h, E!Top(evs))
    /\ Answers(Said(evs), ps, D)

\* What a hook reports comes after what it has read.
Reporting(o, evs, ps, t) ==
    /\ o.at \in {"append", "pair"} => Newest(o) /\ Turning(Heard(o), t)
    /\ o.at = "pair" => /\ Lately(Heard(o), Said(evs)) /\ o.item.ord <= E!Top(evs)
                        /\ o.item.ev \in {"prompt", "stop"}
                        /\ o.item.ev = "prompt" => Below(ps, o.item.ord)

AnswersNow(os, ss, ts, prs, tn) ==
    /\ prs = [s \in Session |-> prs[s]]
    /\ \A s \in Session : SessionAnswers(ss[s], ts[s], prs[s], tn[s], Due(os, s))
    /\ \A p \in Proc : Reporting(os[p], ts[os[p].s], prs[os[p].s], tn[os[p].s])

Answering == /\ died \in Nat
             /\ ~overlap /\ died = 0 => AnswersNow(op, ses, turns, pairs, turn)

LEMMA IdleOwes == \A s : Owed(E!Idle, s) = {}
<1>1. E!Idle.at = "idle"
  BY DEF E!Idle
<1> QED
  BY <1>1 DEF Owed

LEMMA DueIs ==
    ASSUME NEW os, NEW p \in Proc, NEW o, os[p] = o, \A x \in Proc : x # p => os[x] = E!Idle,
           NEW s
    PROVE  Due(os, s) = Owed(o, s)
BY IdleOwes DEF Due

LEMMA NothingDue ==
    ASSUME NEW os, \A x \in Proc : os[x] = E!Idle, NEW s
    PROVE  Due(os, s) = {}
BY IdleOwes DEF Due

LEMMA IdleReports ==
    ASSUME NEW evs, NEW ps, NEW t
    PROVE  Reporting(E!Idle, evs, ps, t)
<1>1. E!Idle.at = "idle"
  BY DEF E!Idle
<1> QED
  BY <1>1 DEF Reporting

\* A step of the one process that is at work, or of the first when none is.
LEMMA AnswerTaken ==
    ASSUME StoreInv, TakeTurns, ~overlap, NEW p \in Proc, NEW o, op' = [op EXCEPT ![p] = o],
           op[p] # E!Idle \/ \A x \in Proc : op[x] = E!Idle, died' = died, Answering,
           pairs' = [s \in Session |-> pairs'[s]],
           \A s \in Session : SessionAnswers(ses'[s], turns'[s], pairs'[s], turn'[s], Owed(o, s)),
           Reporting(o, turns'[o.s], pairs'[o.s], turn'[o.s])
    PROVE  Answering'
<1>1. op \in [Proc -> Ops] /\ Alone
  BY DEF StoreInv, StoreType, TakeTurns
<1>2. op'[p] = o /\ \A x \in Proc : x # p => op'[x] = E!Idle
  BY <1>1 DEF Alone
<1> DEFINE os == op'
           ts == turns'
           prs == pairs'
           tn == turn'
           ss == ses'
<1> HIDE DEF os
<1>3. os[p] = o /\ \A x \in Proc : x # p => os[x] = E!Idle
  BY <1>2 DEF os
<1>4. \A s \in Session : Due(os, s) = Owed(o, s)
  BY <1>3, DueIs
<1>5. \A x \in Proc : Reporting(os[x], ts[os[x].s], prs[os[x].s], tn[os[x].s])
  BY <1>3, IdleReports
<1>6. AnswersNow(os, ss, ts, prs, tn)
  BY <1>4, <1>5 DEF AnswersNow
<1> QED
  BY <1>6 DEF Answering, os

\* What the one process at work has left to do.
LEMMA AnswerNow ==
    ASSUME StoreInv, TakeTurns, ~overlap, NEW p \in Proc,
           op[p] # E!Idle \/ \A x \in Proc : op[x] = E!Idle, Answering, died = 0
    PROVE  /\ pairs = [s \in Session |-> pairs[s]]
           /\ \A s \in Session : SessionAnswers(ses[s], turns[s], pairs[s], turn[s], Owed(op[p], s))
           /\ Reporting(op[p], turns[op[p].s], pairs[op[p].s], turn[op[p].s])
<1>1. \A x \in Proc : x # p => op[x] = E!Idle
  BY DEF TakeTurns, Alone
<1>2. \A s \in Session : Due(op, s) = Owed(op[p], s)
  BY <1>1, DueIs
<1> QED
  BY <1>2 DEF Answering, AnswersNow

\* A step that leaves logs and pairs alone, by a process that has none to write.
LEMMA QuietAnswers ==
    ASSUME StoreInv, TakeTurns, ~overlap, NEW p \in Proc, NEW o, op' = [op EXCEPT ![p] = o],
           op[p] # E!Idle \/ \A x \in Proc : op[x] = E!Idle, Answering, died = 0,
           op[p].at \notin {"append", "pair"}, o.at \notin {"append", "pair"},
           UNCHANGED <<turns, pairs, turn, died>>,
           \A s \in Session : \/ ses'[s] = ses[s]
                              \/ /\ ses[s] # NoSession /\ ses'[s] # NoSession
                                 /\ ses'[s].h = ses[s].h
    PROVE  Answering'
<1>1. /\ pairs = [s \in Session |-> pairs[s]]
      /\ \A s \in Session : SessionAnswers(ses[s], turns[s], pairs[s], turn[s], Owed(op[p], s))
  BY AnswerNow
<1>2. \A s \in Session : Owed(op[p], s) = {} /\ Owed(o, s) = {}
  BY DEF Owed
<1>3. ASSUME NEW s \in Session
      PROVE  SessionAnswers(ses'[s], turns'[s], pairs'[s], turn'[s], Owed(o, s))
  <2>1. SessionAnswers(ses[s], turns[s], pairs[s], turn[s], {})
    BY <1>1, <1>2
  <2>2. /\ ses'[s] = NoSession => ses[s] = NoSession
        /\ ses'[s] # NoSession => ses[s] # NoSession /\ ses'[s].h = ses[s].h
    OBVIOUS
  <2>3. SessionAnswers(ses'[s], turns[s], pairs[s], turn[s], {})
    BY <2>1, <2>2 DEF SessionAnswers
  <2> QED
    BY <1>2, <2>3
<1>4. Reporting(o, turns'[o.s], pairs'[o.s], turn'[o.s])
  BY DEF Reporting
<1> QED
  BY <1>1, <1>3, <1>4, AnswerTaken

\* The append: the log ends with what the hook reports.
LEMMA HookAppendsAnswer ==
    ASSUME StoreInv, TakeTurns, ~overlap, Answering, died = 0, BufferMax \in Nat,
           NEW p \in Proc, E!HookAppend(p)
    PROVE  Answering'
<1> DEFINE o == op[p]
           at == IF o.item.ev \in {"prompt", "stop"} THEN "pair" ELSE "finish"
           new == [o EXCEPT !.at = at]
           l == E!Logged(o)
           n == E!Top(o.prior)
           m == E!Top(l)
           ps == pairs[o.s]
           t == turn[o.s]
<1>1. o \in Ops /\ o.at = "append" /\ o # E!Idle
  BY DEF StoreInv, StoreType, E!HookAppend, E!Idle
<1>2. o \in HookOps /\ Hooking(o)
  BY <1>1, OpKinds DEF Hooking
<1>3. /\ op' = [op EXCEPT ![p] = new]
      /\ turns' = [turns EXCEPT ![o.s] = l] /\ UNCHANGED <<ses, pairs, turn, died>>
  <2>1. op' = [op EXCEPT ![p].at = at]
    BY DEF E!HookAppend, E!Goto
  <2> HIDE DEF at
  <2>2. [op EXCEPT ![p].at = at] = [op EXCEPT ![p] = [op[p] EXCEPT !.at = at]]
    OBVIOUS
  <2> QED
    BY <2>1, <2>2 DEF E!HookAppend
<1>4. /\ new.at = at /\ new.s = o.s /\ new.rec = o.rec
      /\ new.prior = o.prior /\ new.item = o.item
  <2> HIDE DEF at
  <2> QED
    BY <1>2 DEF HookOps
<1> HIDE DEF new
<1>5. at \in {"pair", "finish"} /\ (at = "pair" => o.item.ev \in {"prompt", "stop"})
      /\ (o.item.ev = "stop" => at = "pair")
  OBVIOUS
<1> HIDE DEF at
<1>6. /\ pairs = [s \in Session |-> pairs[s]]
      /\ \A s \in Session : SessionAnswers(ses[s], turns[s], pairs[s], turn[s], Owed(o, s))
      /\ Reporting(o, turns[o.s], pairs[o.s], turn[o.s])
  BY <1>1, AnswerNow
<1>7. \A s \in Session : Owed(o, s) = {}
  BY <1>1 DEF Owed
<1>8. Newest(o) /\ Turning(Heard(o), t)
  BY <1>1, <1>6 DEF Reporting
<1>9. /\ ses[o.s] # NoSession /\ ses[o.s].h = o.rec.h /\ turns[o.s] = o.prior
  BY <1>1, <1>2 DEF TakeTurns, InTurn, Holding
<1>10. o.s \in Session /\ o.prior \in Seq(Events) /\ o.item \in Events /\ sent \in Nat
  BY <1>2 DEF HookOps, StoreInv, StoreType
<1>11. UpTo(o.prior, sent) /\ o.item.ord <= sent
  BY <1>2 DEF StoreInv, Numbered, NumberedOp
<1> HIDE DEF o
<1>12. Grows(l) /\ Lately(Heard(o), Said(l)) /\ n \in Nat /\ m \in Nat /\ n < o.item.ord
       /\ o.item.ord <= m
  BY <1>2, <1>8, <1>9, <1>10, <1>11, LoggedSays
<1>13. SessionAnswers(ses[o.s], turns[o.s], ps, t, {})
  BY <1>6, <1>7, <1>10
<1>14. /\ ps \in Seq(Links) /\ Apiece(ps) /\ Paired(Said(o.prior), ps, o.rec.h, n)
       /\ Answers(Said(o.prior), ps, {})
  BY <1>9, <1>13 DEF SessionAnswers
<1> DEFINE D == Owed(new, o.s)
<1>15. o.item.ord \in D \/ o.item.ev # "stop"
  BY <1>4, <1>5 DEF Owed
<1> HIDE DEF D, l, m, n, ps
<1>16. n <= m
  BY <1>10, <1>12 DEF Events
<1>17. Paired(Said(l), ps, o.rec.h, m) /\ Answers(Said(l), ps, D) /\ Below(ps, o.item.ord)
  BY <1>8, <1>10, <1>12, <1>14, <1>15, <1>16, PairsGoOn
<1>18. Turning(Said(l), t)
  BY <1>8, <1>12, TurningLately
<1>19. SessionAnswers(ses[o.s], l, ps, t, D)
  BY <1>9, <1>12, <1>14, <1>17, <1>18 DEF SessionAnswers, m
<1>20. turns'[o.s] = l /\ \A s \in Session : s # o.s => turns'[s] = turns[s]
  BY <1>3, <1>10 DEF StoreInv, StoreType
<1>21. ASSUME NEW s \in Session
       PROVE  SessionAnswers(ses'[s], turns'[s], pairs'[s], turn'[s], Owed(new, s))
  <2>1. CASE s = o.s
    BY <1>3, <1>19, <1>20, <2>1 DEF D, ps
  <2>2. CASE s # o.s
    <3>1. Owed(new, s) = {}
      BY <1>4, <2>2 DEF Owed
    <3> QED
      BY <1>3, <1>6, <1>7, <1>20, <2>2, <3>1
  <2> QED
    BY <2>1, <2>2
<1>22. Newest(new) /\ Heard(new) = Heard(o)
  BY <1>4, <1>8 DEF Newest, Heard
<1>23. Reporting(new, turns'[new.s], pairs'[new.s], turn'[new.s])
  BY <1>3, <1>4, <1>5, <1>8, <1>12, <1>17, <1>20, <1>22 DEF Reporting, ps, m
<1>24. op[p] # E!Idle /\ pairs' = [s \in Session |-> pairs'[s]] /\ died' = died
  BY <1>1, <1>3, <1>6 DEF o
<1> QED
  BY <1>3, <1>21, <1>23, <1>24, AnswerTaken

\* A prompt begins a turn of its own; a Stop is of a turn that was begun.
LEMMA TurnReported ==
    ASSUME StoreType, NEW s \in Session, NEW x \in E!Reports(s)
    PROVE  /\ x.ev = "prompt" => x.turn = turn[s] + 1
           /\ x.ev = "stop" => x.turn <= turn[s]
<1> DEFINE m == E!Max({1, turn[s] - 1})
<1>1. turn[s] \in Nat
  BY DEF StoreType
<1>2. turn[s] # 0 => m <= turn[s]
  <2> SUFFICES ASSUME turn[s] # 0 PROVE m <= turn[s]
    OBVIOUS
  <2> DEFINE S == {1, turn[s] - 1}
  <2>1. S \subseteq 0 .. turn[s] /\ S # {}
    BY <1>1
  <2> HIDE DEF S
  <2>2. E!Max(S) \in S
    BY <1>1, <2>1, GreatestOrdinal
  <2> DEFINE k == E!Max(S)
  <2>3. k \in 0 .. turn[s]
    BY <2>1, <2>2
  <2> HIDE DEF k
  <2>4. k <= turn[s]
    BY <1>1, <2>3
  <2> QED
    BY <2>4 DEF S, k
<1> HIDE DEF m
<1>3. \/ x = [ev |-> "start", turn |-> 0, text |-> ""] \/ x = [ev |-> "end", turn |-> 0, text |-> ""]
      \/ x \in [ev : {"prompt"}, turn : {turn[s] + 1}, text : E!PromptText]
      \/ turn[s] # 0 /\ x \in [ev : {"stop"}, turn : {turn[s], m}, text : StopText]
      \/ turn[s] # 0 /\ x \in [ev : {"interrupt"}, turn : {turn[s]}, text : {""}]
  BY DEF E!Reports, m
<1>4. CASE x = [ev |-> "start", turn |-> 0, text |-> ""]
  <2>1. x.ev = "start"
    BY <1>4, Zenon
  <2> QED
    BY <2>1
<1>5. CASE x = [ev |-> "end", turn |-> 0, text |-> ""]
  <2>1. x.ev = "end"
    BY <1>5, Zenon
  <2> QED
    BY <2>1
<1>6. CASE x \in [ev : {"prompt"}, turn : {turn[s] + 1}, text : E!PromptText]
  <2>1. x.ev = "prompt" /\ x.turn = turn[s] + 1
    BY <1>6
  <2> QED
    BY <2>1
<1>7. CASE turn[s] # 0 /\ x \in [ev : {"stop"}, turn : {turn[s], m}, text : StopText]
  <2>1. x.ev = "stop" /\ x.turn \in {turn[s], m}
    BY <1>7
  <2> QED
    BY <1>1, <1>2, <1>7, <2>1
<1>8. CASE turn[s] # 0 /\ x \in [ev : {"interrupt"}, turn : {turn[s]}, text : {""}]
  <2>1. x.ev = "interrupt"
    BY <1>8
  <2> QED
    BY <2>1
<1> QED
  BY <1>3, <1>4, <1>5, <1>6, <1>7, <1>8

\* What is to be reported comes after what was said.
LEMMA ReportComes ==
    ASSUME NEW o, o.prior \in Seq(Events), o.item \in Events, NEW n, n \in Nat,
           UpTo(o.prior, n), Grows(o.prior), o.item.ev # "evicted",
           o.item.ord = E!Top(o.prior) + 1, NEW t, t \in Nat, Turning(Said(o.prior), t),
           o.item.ev = "prompt" => o.item.turn = t + 1,
           o.item.ev = "stop" => o.item.turn <= t,
           NEW u, u = IF o.item.ev = "prompt" THEN t + 1 ELSE t
    PROVE  Newest(o) /\ Turning(Heard(o), u)
<1> DEFINE P == Said(o.prior)
<1>1. E!Top(o.prior) \in 0 .. n /\ \A i \in 1 .. Len(o.prior) : o.prior[i].ord <= E!Top(o.prior)
  BY TopIs
<1>2. P \subseteq Events
  BY SaidOnce
<1>3. \A z \in P : z.ord \in Nat /\ z.turn \in Nat
  BY <1>2 DEF Events
<1>4. 0 < o.item.ord /\ \A z \in P : z.ord < o.item.ord
  BY <1>1, <1>3 DEF Said
<1>5. Newest(o)
  BY <1>4 DEF Newest
<1>6. o.item.ord \in Nat /\ o.item.turn \in Nat
  BY DEF Events
<1>7. \A z \in P : z.ev \in {"prompt", "stop"} => z.turn <= t
  BY DEF Turning
<1>8. \A z, y \in P : z.ev \in {"prompt", "stop"} /\ y.ev = "prompt" /\ z.ord < y.ord => z.turn < y.turn
  BY DEF Turning
<1> HIDE DEF P
<1> DEFINE i == o.item
<1>9. i.ev = "prompt" => i.turn = t + 1 /\ u = t + 1
  OBVIOUS
<1>10. i.ev # "prompt" => u = t
  OBVIOUS
<1>11. i.ev = "stop" => i.turn <= t
  OBVIOUS
<1>12. i.ord \in Nat /\ i.turn \in Nat /\ \A z \in P : z.ord < i.ord
  BY <1>4, <1>6
<1> HIDE DEF i
<1>13. ASSUME NEW z \in P \cup {i}, z.ev \in {"prompt", "stop"}
       PROVE  z.turn <= u /\ \A y \in P \cup {i} : y.ev = "prompt" /\ z.ord < y.ord => z.turn < y.turn
  <2>1. CASE z = i
    <3>1. z.turn <= u
      <4>1. CASE i.ev = "prompt"
        BY <1>9, <2>1, <4>1
      <4>2. CASE i.ev = "stop"
        BY <1>10, <1>11, <2>1, <4>2
      <4> QED
        BY <1>13, <2>1, <4>1, <4>2
    <3>2. \A y \in P \cup {i} : ~(z.ord < y.ord)
      BY <1>3, <1>12, <2>1
    <3> QED
      BY <3>1, <3>2
  <2>2. CASE z \in P
    <3>1. z.turn <= t /\ z.turn \in Nat
      BY <1>3, <1>7, <1>13, <2>2
    <3>2. t <= u
      BY <1>9, <1>10
    <3>3. ASSUME NEW y \in P \cup {i}, y.ev = "prompt", z.ord < y.ord PROVE z.turn < y.turn
      <4>1. CASE y \in P
        BY <1>8, <1>13, <2>2, <3>3, <4>1
      <4>2. CASE y = i
        BY <1>9, <3>1, <3>3, <4>2
      <4> QED
        BY <4>1, <4>2
    <3>4. u \in Nat
      BY <1>9, <1>10
    <3> QED
      BY <3>1, <3>2, <3>3, <3>4
  <2> QED
    BY <1>13, <2>1, <2>2
<1>14. Turning(Heard(o), u)
  BY <1>13 DEF Turning, Heard, P, i
<1> QED
  BY <1>5, <1>14

LEMMA NoneAnswered ==
    ASSUME NEW r, NEW t
    PROVE  SessionAnswers(r, <<>>, <<>>, t, {})
<1>1. <<>> \in Seq(Links) /\ Len(<<>>) = 0 /\ Said(<<>>) = {}
  BY DEF Said
<1> QED
  BY <1>1 DEF SessionAnswers, Apiece, Grows, Turning, Paired, Answers

LEMMA HookBeginsAnswer ==
    ASSUME StoreInv, TakeTurns, ~overlap, Answering, died = 0,
           NEW p \in Proc, NEW s \in Session, E!HookBegin(p, s)
    PROVE  Answering'
<1>1. \E x \in E!Reports(s) : \E old \in E!Swept(x.ev) :
        Loads(p, s, x, old) /\ pairs' = [z \in Session |-> IF z \in old THEN <<>> ELSE pairs[z]]
  BY DEF E!HookBegin, Loads
<1> PICK x \in E!Reports(s) : \E old \in E!Swept(x.ev) :
        Loads(p, s, x, old) /\ pairs' = [z \in Session |-> IF z \in old THEN <<>> ELSE pairs[z]]
  BY <1>1
<1> PICK old \in E!Swept(x.ev) :
        Loads(p, s, x, old) /\ pairs' = [z \in Session |-> IF z \in old THEN <<>> ELSE pairs[z]]
  OBVIOUS
<1> DEFINE fresh == ses[s] = NoSession \/ s \in old
           nu    == [h |-> nh + 1, announce |-> TRUE, binds |-> << >>, ended |-> FALSE]
           rec   == IF fresh THEN nu ELSE ses[s]
           prior == IF s \in old THEN << >> ELSE turns[s]
           item  == [ord |-> E!Top(prior) + 1, ev |-> x.ev, turn |-> x.turn, text |-> x.text]
           o     == [at |-> "append", s |-> s, rec |-> rec, prior |-> prior, item |-> item]
           t     == turn[s]
           u     == IF x.ev = "prompt" THEN x.turn ELSE t
<1>2. /\ ses' = [z \in Session |-> IF z = s THEN rec
                                   ELSE IF z \in old THEN NoSession ELSE ses[z]]
      /\ turns' = [z \in Session |-> IF z \in old THEN << >> ELSE turns[z]]
      /\ turn' = [turn EXCEPT ![s] = u]
      /\ op' = [op EXCEPT ![p] = o]
  BY DEF Loads
<1>3. died' = died /\ \A y \in Proc : op[y] = E!Idle
  BY DEF E!HookBegin, E!Free
<1>4. /\ x.ev \in Kinds \ {"evicted"} /\ x.turn \in Nat /\ x.text \in Texts
      /\ t \in Nat /\ u \in Nat
      /\ x.ev = "prompt" => x.turn = t + 1
      /\ x.ev = "stop" => x.turn <= t
  <2>1. x.ev \in Kinds \ {"evicted"} /\ x.turn \in Nat /\ x.text \in Texts
    BY Reported DEF StoreInv
  <2>2. x.ev = "prompt" => x.turn = t + 1
    BY TurnReported DEF StoreInv
  <2>3. x.ev = "stop" => x.turn <= t
    BY TurnReported DEF StoreInv
  <2>4. t \in Nat
    BY DEF StoreInv, StoreType
  <2> QED
    BY <2>1, <2>2, <2>3, <2>4
<1>5. t <= u /\ u = IF x.ev = "prompt" THEN t + 1 ELSE t
  BY <1>4
<1>6. prior \in Seq(Events) /\ UpTo(prior, sent) /\ sent \in Nat
  <2>1. <<>> \in Seq(Events) /\ UpTo(<<>>, sent)
    BY DEF UpTo
  <2>2. turns[s] \in Seq(Events) /\ UpTo(turns[s], sent) /\ sent \in Nat
    BY DEF StoreInv, StoreType, Numbered
  <2> QED
    BY <2>1, <2>2
<1>7. E!Top(prior) \in Nat
  <2> HIDE DEF prior
  <2> QED
    BY <1>6, TopIs
<1>8. /\ item \in Events /\ item.ord = E!Top(prior) + 1 /\ item.ev = x.ev /\ item.turn = x.turn
  <2> HIDE DEF prior
  <2> QED
    BY <1>4, <1>7 DEF Events
<1>9. /\ ses'[s] = rec /\ turns'[s] = prior
      /\ pairs'[s] = (IF s \in old THEN <<>> ELSE pairs[s]) /\ turn'[s] = u
      /\ pairs' = [z \in Session |-> pairs'[z]]
  BY <1>2 DEF StoreInv, StoreType
<1>10. \A z \in Session : z # s =>
          /\ z \in old => ses'[z] = NoSession /\ turns'[z] = <<>> /\ pairs'[z] = <<>>
          /\ z \notin old => ses'[z] = ses[z] /\ turns'[z] = turns[z] /\ pairs'[z] = pairs[z]
          /\ turn'[z] = turn[z]
  BY <1>2 DEF StoreInv, StoreType
<1>11. s \notin old /\ ses[s] # NoSession => rec = ses[s]
  OBVIOUS
<1>12. o.at = "append" /\ o.s = s /\ o.rec = rec /\ o.prior = prior /\ o.item = item
  OBVIOUS
<1>13. \A z \in Session : SessionAnswers(ses[z], turns[z], pairs[z], turn[z], {})
  <2>1. op[p] = E!Idle
    BY <1>3
  <2>2. \A z \in Session : SessionAnswers(ses[z], turns[z], pairs[z], turn[z], Owed(op[p], z))
    BY <1>3, AnswerNow
  <2> QED
    BY <2>1, <2>2, IdleOwes
<1> HIDE DEF o, item
<1>14. \A z : Owed(o, z) = {}
  BY <1>12 DEF Owed
<1>15. SessionAnswers(rec, prior, pairs'[s], u, {}) /\ Grows(prior) /\ Turning(Said(prior), t)
  <2>1. CASE s \in old
    <3>1. prior = <<>> /\ pairs'[s] = <<>>
      BY <1>9, <2>1
    <3> HIDE DEF prior, rec, u, t
    <3>2. SessionAnswers(rec, <<>>, <<>>, u, {}) /\ SessionAnswers(rec, <<>>, <<>>, t, {})
      BY NoneAnswered
    <3> QED
      BY <3>1, <3>2 DEF SessionAnswers
  <2>2. CASE s \notin old
    <3>1. prior = turns[s] /\ pairs'[s] = pairs[s] /\ SessionAnswers(ses[s], turns[s], pairs[s], t, {})
      BY <1>9, <1>13, <2>2
    <3>2. Turning(Said(turns[s]), t) /\ Grows(turns[s]) /\ turns[s] \in Seq(Events)
      BY <3>1 DEF SessionAnswers, StoreInv, StoreType
    <3>3. Turning(Said(turns[s]), u)
      <4>1. Said(turns[s]) \subseteq Events
        BY <3>2, SaidOnce
      <4>2. \A z \in Said(turns[s]) : z.turn \in Nat
        BY <4>1 DEF Events
      <4> HIDE DEF u, t
      <4> QED
        BY <1>4, <1>5, <3>2, <4>2 DEF Turning
    <3>4. ses[s] = NoSession => pairs[s] = <<>>
      BY <3>1 DEF SessionAnswers
    <3>5. CASE ses[s] = NoSession
      <4>1. Paired(Said(turns[s]), pairs[s], rec.h, E!Top(turns[s]))
        BY <3>4, <3>5 DEF Paired
      <4> HIDE DEF rec, u, t, prior
      <4> QED
        BY <3>1, <3>2, <3>3, <3>4, <3>5, <4>1 DEF SessionAnswers
    <3>6. CASE ses[s] # NoSession
      <4>1. rec = ses[s]
        BY <1>11, <2>2, <3>6
      <4> HIDE DEF rec, u, t, prior
      <4> QED
        BY <3>1, <3>2, <3>3, <3>6, <4>1 DEF SessionAnswers
    <3> QED
      BY <3>5, <3>6
  <2> QED
    BY <2>1, <2>2
<1> HIDE DEF rec, prior, u, t, fresh
<1>16. ASSUME NEW z \in Session
       PROVE  SessionAnswers(ses'[z], turns'[z], pairs'[z], turn'[z], Owed(o, z))
  <2>1. CASE z = s
    BY <1>9, <1>14, <1>15, <2>1
  <2>2. CASE z # s /\ z \in old
    BY <1>10, <1>14, <2>2, NoneAnswered
  <2>3. CASE z # s /\ z \notin old
    BY <1>10, <1>13, <1>14, <2>3
  <2> QED
    BY <2>1, <2>2, <2>3
<1>17. Newest(o) /\ Turning(Heard(o), u)
  <2>1. /\ o.prior \in Seq(Events) /\ o.item \in Events /\ UpTo(o.prior, sent) /\ Grows(o.prior)
        /\ o.item.ev # "evicted" /\ o.item.ord = E!Top(o.prior) + 1 /\ Turning(Said(o.prior), t)
    BY <1>4, <1>6, <1>8, <1>12, <1>15
  <2>2. /\ o.item.ev = "prompt" => o.item.turn = t + 1
        /\ o.item.ev = "stop" => o.item.turn <= t
        /\ u = IF o.item.ev = "prompt" THEN t + 1 ELSE t
    BY <1>4, <1>5, <1>8, <1>12
  <2> QED
    BY <1>4, <1>6, <2>1, <2>2, ReportComes
<1>18. Reporting(o, turns'[o.s], pairs'[o.s], turn'[o.s])
  BY <1>9, <1>12, <1>17 DEF Reporting
<1> QED
  BY <1>2, <1>3, <1>9, <1>16, <1>18, AnswerTaken

\* One more record, after all.
LEMMA DoubtedStill ==
    ASSUME NEW ps, ps \in Seq(Links), NEW x, x \in Links, NEW all, all = Append(ps, x),
           NEW k \in 1 .. Len(ps), Doubted(ps, k)
    PROVE  Doubted(all, k)
<1>1. Len(all) = Len(ps) + 1 /\ Len(ps) \in Nat /\ \A i \in 1 .. Len(ps) : all[i] = ps[i]
  OBVIOUS
<1>2. PICK i \in 1 .. Len(ps) : /\ k < i /\ ps[i].inc /\ ps[i].kind = "late"
                                /\ ps[i].h = ps[k].h /\ ps[i].reply = ps[k].reply
  BY DEF Doubted
<1>3. i \in 1 .. Len(all) /\ all[i] = ps[i] /\ all[k] = ps[k]
  BY <1>1
<1> QED
  BY <1>2, <1>3 DEF Doubted

\* The pair of a prompt, after the others.
LEMMA PairAnswers ==
    ASSUME NEW o, o \in HookOps, Newest(o), o.item.ev = "prompt", NEW ps, ps \in Seq(Links),
           NEW T, Lately(Heard(o), T), NEW n, n \in Nat, o.item.ord <= n, Below(ps, o.item.ord),
           Apiece(ps), Paired(T, ps, o.rec.h, n), Answers(T, ps, {}),
           NEW all, all = Append(ps, E!PairFor(o))
    PROVE  /\ all \in Seq(Links) /\ Apiece(all)
           /\ Paired(T, all, o.rec.h, n) /\ Answers(T, all, {})
<1> DEFINE x == E!PairFor(o)
<1>1. /\ x \in Links /\ x.kind = "pair" /\ x.reply = o.item.ord
      /\ Joined(T, x, o.rec.h, n) /\ Answered(T, x, {})
  BY PairJoins
<1> HIDE DEF x
<1>2. /\ all \in Seq(Links) /\ Len(all) = Len(ps) + 1 /\ Len(ps) \in Nat /\ all[Len(ps) + 1] = x
      /\ \A i \in 1 .. Len(ps) : all[i] = ps[i]
  BY <1>1 DEF x
<1>3. \A i \in 1 .. Len(all) : i \in 1 .. Len(ps) \/ i = Len(ps) + 1
  BY <1>2
<1>4. all = Append(ps, x)
  BY DEF x
<1> HIDE DEF x
<1>5. \A i \in 1 .. Len(ps) : ps[i].reply \in Nat
  <2>1. \A i \in 1 .. Len(ps) : ps[i] \in Links
    OBVIOUS
  <2> QED
    BY <2>1 DEF Links
<1>6. o.item.ord \in Nat
  BY DEF HookOps, Events
<1>7. \A i \in 1 .. Len(ps) : ps[i].kind = "pair" => ps[i].reply # x.reply
  BY <1>1, <1>5, <1>6 DEF Below
<1>8. Apiece(all)
  <2> SUFFICES ASSUME NEW k \in 1 .. Len(all), NEW l \in 1 .. Len(all), k # l,
                      all[k].kind = "pair", all[l].kind = "pair"
               PROVE  all[k].reply # all[l].reply
    BY DEF Apiece
  <2>1. CASE k \in 1 .. Len(ps) /\ l \in 1 .. Len(ps)
    BY <1>2, <2>1 DEF Apiece
  <2>2. CASE k \in 1 .. Len(ps) /\ l = Len(ps) + 1
    BY <1>2, <1>7, <2>2
  <2>3. CASE k = Len(ps) + 1 /\ l \in 1 .. Len(ps)
    BY <1>2, <1>7, <2>3
  <2> QED
    BY <1>3, <2>1, <2>2, <2>3
<1>9. Paired(T, all, o.rec.h, n)
  <2> SUFFICES ASSUME NEW k \in 1 .. Len(all), all[k].kind = "pair"
               PROVE  Joined(T, all[k], o.rec.h, n)
    BY DEF Paired
  <2>1. CASE k \in 1 .. Len(ps)
    BY <1>2, <2>1 DEF Paired
  <2>2. CASE k = Len(ps) + 1
    BY <1>1, <1>2, <2>2
  <2> QED
    BY <1>3, <2>1, <2>2
<1>10. Answers(T, all, {})
  <2> SUFFICES ASSUME NEW k \in 1 .. Len(all), all[k].kind = "pair", ~Doubted(all, k)
               PROVE  Answered(T, all[k], {})
    BY DEF Answers
  <2>1. CASE k \in 1 .. Len(ps)
    <3>1. Doubted(ps, k) => Doubted(all, k)
      BY <1>1, <1>4, <2>1, DoubtedStill
    <3>2. all[k] = ps[k]
      BY <1>2, <2>1
    <3> QED
      BY <2>1, <3>1, <3>2 DEF Answers
  <2>2. CASE k = Len(ps) + 1
    BY <1>1, <1>2, <2>2
  <2> QED
    BY <1>3, <2>1, <2>2
<1> QED
  BY <1>2, <1>8, <1>9, <1>10

\* A record of a late Stop is a record.
LEMMA LateTyped ==
    ASSUME NEW o, o \in HookOps, E!Consumers(o) # {}
    PROVE  E!LateFor(o) \in Links /\ E!LateFor(o).kind = "late"
<1> DEFINE takers == E!Consumers(o)
           evs == o.prior
           reply == evs[E!Min(takers)].ord
           x == E!LateFor(o)
<1>1. evs \in Seq(Events) /\ DOMAIN evs = 1 .. Len(evs) /\ Len(evs) \in Nat /\ o.rec.h \in Nat
  BY DEF HookOps, Records
<1>2. takers \subseteq 1 .. Len(evs) /\ takers \subseteq 0 .. Len(evs)
  BY <1>1 DEF E!Consumers, E!Prompts
<1>3. PICK b \in BOOLEAN : x = [kind |-> "late", h |-> o.rec.h, reply |-> reply, prop |-> 0, inc |-> b]
  BY DEF E!LateFor
<1> HIDE DEF takers, x
<1>4. E!Min(takers) \in 1 .. Len(evs)
  <2>1. E!Min(takers) \in takers
    BY <1>1, <1>2, LeastOrdinal DEF takers
  <2> QED
    BY <1>2, <2>1
<1> HIDE DEF evs
<1>5. evs[E!Min(takers)] \in Events
  BY <1>1, <1>4
<1>6. reply \in Nat
  BY <1>5 DEF Events
<1> HIDE DEF reply
<1>7. x \in Links /\ x.kind = "late"
  BY <1>1, <1>3, <1>6 DEF Links
<1> QED
  BY <1>7 DEF x

\* A late Stop marks the pairs that it belies, and leaves the others as they were.
LEMMA StopAnswers ==
    ASSUME NEW o, o \in HookOps, Newest(o), o.item.ev = "stop", pairs[o.s] \in Seq(Links),
           NEW T, Lately(Heard(o), T), NEW t, Turning(Heard(o), t), NEW n, Apiece(pairs[o.s]),
           Paired(T, pairs[o.s], o.rec.h, n), Answers(T, pairs[o.s], {o.item.ord}),
           NEW all, all = IF E!Consumers(o) # {} THEN Append(pairs[o.s], E!LateFor(o))
                          ELSE pairs[o.s]
    PROVE  /\ all \in Seq(Links) /\ Apiece(all)
           /\ Paired(T, all, o.rec.h, n) /\ Answers(T, all, {})
<1> DEFINE ps == pairs[o.s]
           x == E!LateFor(o)
<1>1. CASE E!Consumers(o) # {}
  <2>1. x \in Links /\ x.kind = "late"
    BY <1>1, LateTyped
  <2>2. all = Append(ps, x)
    BY <1>1
  <2> HIDE DEF x, ps
  <2>3. /\ all \in Seq(Links) /\ Len(all) = Len(ps) + 1 /\ Len(ps) \in Nat /\ all[Len(ps) + 1] = x
        /\ \A i \in 1 .. Len(ps) : all[i] = ps[i]
    BY <2>1, <2>2 DEF ps
  <2>4. \A i \in 1 .. Len(all) : all[i].kind = "pair" => i \in 1 .. Len(ps) /\ all[i] = ps[i]
    <3> SUFFICES ASSUME NEW i \in 1 .. Len(all), all[i].kind = "pair"
                 PROVE  i \in 1 .. Len(ps) /\ all[i] = ps[i]
      OBVIOUS
    <3>1. i \in 1 .. Len(ps) \/ i = Len(ps) + 1
      BY <2>3
    <3>2. i # Len(ps) + 1
      BY <2>1, <2>3
    <3> QED
      BY <2>3, <3>1, <3>2
  <2>5. Apiece(all)
    BY <2>4 DEF Apiece, ps
  <2>6. Paired(T, all, o.rec.h, n)
    BY <2>4 DEF Paired, ps
  <2>7. Answers(T, all, {})
    <3> SUFFICES ASSUME NEW k \in 1 .. Len(all), all[k].kind = "pair", ~Answered(T, all[k], {})
                 PROVE  Doubted(all, k)
      BY DEF Answers
    <3>1. k \in 1 .. Len(ps) /\ all[k] = ps[k]
      BY <2>4
    <3>2. CASE Doubted(ps, k)
      BY <2>1, <2>2, <3>1, <3>2, DoubtedStill DEF ps
    <3>3. CASE ~Doubted(ps, k)
      <4>1. Answered(T, ps[k], {o.item.ord}) /\ Joined(T, ps[k], o.rec.h, n)
        BY <3>1, <3>3 DEF Answers, Paired, ps
      <4>2. x.kind = "late" /\ x.h = o.rec.h /\ x.reply = ps[k].reply /\ x.inc
        BY <3>1, <4>1, StopMarks DEF x, ps
      <4>3. ps[k].h = o.rec.h
        BY <4>1 DEF Joined
      <4>4. Len(ps) + 1 \in 1 .. Len(all) /\ k < Len(ps) + 1
        BY <2>3, <3>1
      <4> QED
        BY <2>3, <3>1, <4>2, <4>3, <4>4 DEF Doubted
    <3> QED
      BY <3>2, <3>3
  <2> QED
    BY <2>3, <2>5, <2>6, <2>7
<1>2. CASE E!Consumers(o) = {}
  <2>1. all = ps
    BY <1>2
  <2>2. Answers(T, ps, {})
    <3> SUFFICES ASSUME NEW k \in 1 .. Len(ps), ps[k].kind = "pair", ~Doubted(ps, k),
                        ~Answered(T, ps[k], {})
                 PROVE  FALSE
      BY DEF Answers
    <3>1. Answered(T, ps[k], {o.item.ord}) /\ Joined(T, ps[k], o.rec.h, n)
      BY DEF Answers, Paired
    <3> HIDE DEF ps
    <3>2. E!Consumers(o) # {}
      BY <3>1, StopMarks DEF ps
    <3> QED
      BY <1>2, <3>2
  <2> QED
    BY <2>1, <2>2
<1> QED
  BY <1>1, <1>2

LEMMA HookPairsAnswer ==
    ASSUME StoreInv, TakeTurns, ~overlap, Answering, died = 0, NEW p \in Proc, E!HookPair(p)
    PROVE  Answering'
<1> DEFINE o == op[p]
           new == [o EXCEPT !.at = "finish"]
           evs == turns[o.s]
           T == Said(evs)
           n == E!Top(evs)
           ps == pairs[o.s]
           t == turn[o.s]
           r == ses[o.s]
           all == pairs'[o.s]
<1>1. o \in Ops /\ o.at = "pair" /\ o # E!Idle
  BY DEF StoreInv, StoreType, E!HookPair, E!Idle
<1>2. o \in HookOps /\ Hooking(o)
  BY <1>1, OpKinds DEF Hooking
<1>3. op' = [op EXCEPT ![p] = new] /\ UNCHANGED <<ses, turns, turn, died>>
  <2>1. [op EXCEPT ![p].at = "finish"] = [op EXCEPT ![p] = [op[p] EXCEPT !.at = "finish"]]
    OBVIOUS
  <2> QED
    BY <2>1 DEF E!HookPair, E!Goto
<1>4. new.at = "finish"
  BY <1>2 DEF HookOps
<1> HIDE DEF new
<1>5. pairs' = IF o.item.ev = "prompt" THEN [pairs EXCEPT ![o.s] = Append(@, E!PairFor(o))]
               ELSE IF E!Consumers(o) # {} THEN [pairs EXCEPT ![o.s] = Append(@, E!LateFor(o))]
               ELSE pairs
  BY DEF E!HookPair
<1>6. /\ pairs = [s \in Session |-> pairs[s]]
      /\ \A s \in Session : SessionAnswers(ses[s], turns[s], pairs[s], turn[s], Owed(o, s))
      /\ Reporting(o, turns[o.s], pairs[o.s], turn[o.s])
  BY <1>1, AnswerNow
<1>7. r # NoSession /\ r.h = o.rec.h
  BY <1>2 DEF TakeTurns, InTurn, Holding
<1>8. o.s \in Session /\ evs \in Seq(Events) /\ UpTo(evs, sent) /\ sent \in Nat
  BY <1>2 DEF HookOps, StoreInv, StoreType, Numbered
<1>9. n \in Nat
  BY <1>8, TopIs
<1>10. /\ Newest(o) /\ Turning(Heard(o), t) /\ Lately(Heard(o), T) /\ o.item.ord <= n
       /\ o.item.ev \in {"prompt", "stop"}
       /\ o.item.ev = "prompt" => Below(ps, o.item.ord)
  BY <1>1, <1>6 DEF Reporting
<1> DEFINE D == Owed(o, o.s)
<1>11. /\ ps \in Seq(Links) /\ Apiece(ps) /\ Grows(evs) /\ Turning(T, t)
       /\ Paired(T, ps, o.rec.h, n) /\ Answers(T, ps, D)
  BY <1>6, <1>7, <1>8 DEF SessionAnswers
<1>12. /\ pairs' = [s \in Session |-> pairs'[s]]
       /\ \A s \in Session : s # o.s => pairs'[s] = pairs[s]
       /\ o.item.ev = "prompt" => all = Append(ps, E!PairFor(o))
       /\ o.item.ev = "stop" => all = IF E!Consumers(o) # {} THEN Append(ps, E!LateFor(o)) ELSE ps
  <2> DEFINE a == Append(ps, E!PairFor(o))
             b == Append(ps, E!LateFor(o))
             c == E!Consumers(o) # {}
  <2>1. pairs' = IF o.item.ev = "prompt" THEN [pairs EXCEPT ![o.s] = a]
                 ELSE IF c THEN [pairs EXCEPT ![o.s] = b] ELSE pairs
    BY <1>5
  <2> HIDE DEF a, b, c, o
  <2>2. /\ pairs' = [s \in Session |-> pairs'[s]]
        /\ \A s \in Session : s # o.s => pairs'[s] = pairs[s]
        /\ o.item.ev = "prompt" => all = a
        /\ o.item.ev = "stop" => all = IF c THEN b ELSE ps
    BY <1>6, <1>8, <2>1
  <2> QED
    BY <2>2 DEF a, b, c
<1> HIDE DEF o, evs, n, t, r, all, D, ps
<1>13. all \in Seq(Links) /\ Apiece(all) /\ Paired(T, all, o.rec.h, n) /\ Answers(T, all, {})
  <2>1. CASE o.item.ev = "prompt"
    <3>1. D = {}
      BY <2>1 DEF D, Owed
    <3> HIDE DEF T
    <3> QED
      BY <1>2, <1>9, <1>10, <1>11, <1>12, <2>1, <3>1, PairAnswers
  <2>2. CASE o.item.ev = "stop"
    <3>1. D = {o.item.ord}
      BY <1>1, <2>2 DEF D, Owed, o
    <3> HIDE DEF T
    <3> QED
      BY <1>2, <1>9, <1>10, <1>11, <1>12, <2>2, <3>1, StopAnswers DEF ps
  <2> QED
    BY <1>10, <2>1, <2>2
<1>14. SessionAnswers(r, evs, all, t, {})
  BY <1>7, <1>11, <1>13 DEF SessionAnswers, n
<1>15. \A z : Owed(new, z) = {}
  BY <1>4 DEF Owed
<1>16. ASSUME NEW s \in Session
       PROVE  SessionAnswers(ses'[s], turns'[s], pairs'[s], turn'[s], Owed(new, s))
  <2>1. CASE s = o.s
    BY <1>3, <1>14, <1>15, <2>1 DEF r, evs, all, t
  <2>2. CASE s # o.s
    <3>1. Owed(o, s) = {}
      BY <2>2 DEF Owed
    <3> QED
      BY <1>3, <1>6, <1>12, <1>15, <2>2, <3>1
  <2> QED
    BY <2>1, <2>2
<1>17. Reporting(new, turns'[new.s], pairs'[new.s], turn'[new.s])
  BY <1>4 DEF Reporting
<1>18. op[p] # E!Idle /\ died' = died
  BY <1>1, <1>3 DEF o
<1> QED
  BY <1>3, <1>12, <1>16, <1>17, <1>18, AnswerTaken

LEMMA HookFinishesAnswer ==
    ASSUME StoreInv, TakeTurns, ~overlap, Answering, died = 0, NEW p \in Proc, E!HookFinish(p)
    PROVE  Answering'
<1> DEFINE o == op[p]
           announces == o.item.ev = "prompt" /\ o.rec.announce
           discards  == o.item.ev = "end" /\ ~E!Bound(o.rec)
           ends      == o.item.ev = "end" /\ E!Bound(o.rec)
           said      == [o.rec EXCEPT !.announce = FALSE]
           over      == [o.rec EXCEPT !.ended = TRUE]
           r         == IF announces THEN said ELSE IF ends THEN over ELSE ses[o.s]
<1>1. o \in Ops /\ o.at = "finish" /\ o # E!Idle
  BY DEF StoreInv, StoreType, E!HookFinish, E!Idle
<1>2. o \in HookOps /\ Hooking(o)
  BY <1>1, OpKinds DEF Hooking
<1>3. o.s \in Session /\ o.rec \in Records
  BY <1>2 DEF HookOps
<1>4. ses[o.s] # NoSession /\ ses[o.s].h = o.rec.h
  BY <1>2 DEF TakeTurns, InTurn, Holding
<1>5. /\ op' = [op EXCEPT ![p] = E!Idle] /\ UNCHANGED <<turn, died>>
      /\ ses' = IF announces THEN [ses EXCEPT ![o.s] = said]
                ELSE IF ends THEN [ses EXCEPT ![o.s] = over]
                ELSE IF discards THEN [ses EXCEPT ![o.s] = NoSession]
                ELSE ses
      /\ turns' = IF discards THEN [turns EXCEPT ![o.s] = <<>>] ELSE turns
      /\ pairs' = IF discards THEN [pairs EXCEPT ![o.s] = <<>>] ELSE pairs
  BY DEF E!HookFinish, E!Done
<1>6. said # NoSession /\ said.h = o.rec.h /\ over # NoSession /\ over.h = o.rec.h
  <2>1. said \in Records /\ over \in Records /\ said.h = o.rec.h /\ over.h = o.rec.h
    <3> DEFINE q == o.rec
    <3>1. q \in Records
      BY <1>3
    <3> HIDE DEF q
    <3>2. [q EXCEPT !.announce = FALSE] \in Records /\ [q EXCEPT !.ended = TRUE] \in Records
      BY <3>1 DEF Records
    <3>3. [q EXCEPT !.announce = FALSE].h = q.h /\ [q EXCEPT !.ended = TRUE].h = q.h
      BY <3>1, Noted
    <3> QED
      BY <3>2, <3>3 DEF q
  <2> HIDE DEF said, over
  <2> QED
    BY <2>1, NoRecord
<1>7. /\ pairs = [s \in Session |-> pairs[s]]
      /\ \A s \in Session : SessionAnswers(ses[s], turns[s], pairs[s], turn[s], Owed(o, s))
  BY <1>1, AnswerNow
<1>8. \A s \in Session : Owed(o, s) = {}
  BY <1>1 DEF Owed
<1> HIDE DEF said, over
<1>9. r # NoSession /\ r.h = o.rec.h
  BY <1>4, <1>6
<1>10. announces \/ ends => ~discards
  OBVIOUS
<1> HIDE DEF announces, ends, discards
<1>11. /\ \A s \in Session : s # o.s => /\ ses'[s] = ses[s] /\ turns'[s] = turns[s]
                                        /\ pairs'[s] = pairs[s]
       /\ pairs' = [s \in Session |-> pairs'[s]]
       /\ discards => ses'[o.s] = NoSession /\ turns'[o.s] = <<>> /\ pairs'[o.s] = <<>>
       /\ ~discards => ses'[o.s] = r /\ turns'[o.s] = turns[o.s] /\ pairs'[o.s] = pairs[o.s]
  <2> HIDE DEF o
  <2> QED
    BY <1>3, <1>5, <1>7, <1>10 DEF StoreInv, StoreType
<1> HIDE DEF r
<1>12. ASSUME NEW s \in Session
       PROVE  SessionAnswers(ses'[s], turns'[s], pairs'[s], turn'[s], Owed(E!Idle, s))
  <2>1. SessionAnswers(ses[s], turns[s], pairs[s], turn[s], {})
    BY <1>7, <1>8
  <2>2. Owed(E!Idle, s) = {}
    BY IdleOwes
  <2> HIDE DEF o
  <2>3. CASE s # o.s
    BY <1>5, <1>11, <2>1, <2>2, <2>3
  <2>4. CASE s = o.s /\ discards
    BY <1>11, <2>2, <2>4, NoneAnswered
  <2>5. CASE s = o.s /\ ~discards
    <3>1. ses'[s] = r /\ turns'[s] = turns[s] /\ pairs'[s] = pairs[s] /\ turn'[s] = turn[s]
      BY <1>5, <1>11, <2>5
    <3>2. SessionAnswers(r, turns[s], pairs[s], turn[s], {})
      <4>1. ses[s] # NoSession /\ ses[s].h = r.h /\ r # NoSession
        BY <1>4, <1>9, <2>5 DEF o
      <4> QED
        BY <2>1, <4>1 DEF SessionAnswers
    <3> QED
      BY <2>2, <3>1, <3>2
  <2> QED
    BY <2>3, <2>4, <2>5
<1>13. Reporting(E!Idle, turns'[E!Idle.s], pairs'[E!Idle.s], turn'[E!Idle.s])
  BY IdleReports
<1>14. op[p] # E!Idle /\ died' = died
  BY <1>1, <1>5
<1> HIDE DEF o
<1> QED
  BY <1>5, <1>11, <1>12, <1>13, <1>14, AnswerTaken

\* Selections and locks leave logs and pairs alone.
LEMMA QuietNext ==
    ASSUME StoreInv, TakeTurns, ~overlap, Answering, died = 0, NEW p \in Proc, NEW o,
           op' = [op EXCEPT ![p] = o], op[p] # E!Idle \/ \A x \in Proc : op[x] = E!Idle,
           op[p].at \notin {"append", "pair"}, o.at \notin {"append", "pair"},
           UNCHANGED <<ses, turns, pairs, turn, died>>
    PROVE  Answering'
<1>1. \A s \in Session : ses'[s] = ses[s]
  OBVIOUS
<1> QED
  BY <1>1, QuietAnswers

LEMMA SelectBeginsAnswer ==
    ASSUME StoreInv, TakeTurns, ~overlap, Answering, died = 0, NEW p \in Proc, NEW s \in Session,
           NEW q \in Project \cup {NoProject}, E!SelectBegin(p, s, q)
    PROVE  Answering'
<1>1. \A x \in Proc : op[x] = E!Idle
  BY DEF E!SelectBegin, E!Free
<1>2. UNCHANGED <<ses, turns, pairs, turn, died>>
  BY DEF E!SelectBegin, E!files
<1>3. PICK o : op' = [op EXCEPT ![p] = o] /\ o.at \in {"open", "close"}
  <2> DEFINE r == ses[s]
             o == [at |-> IF E!OpenIn(r) = {} THEN "open" ELSE "close", s |-> s, q |-> q,
                   rec |-> E!SelectedRec(r, q, E!Top(turns[s])), last |-> E!Top(turns[s]),
                   old |-> IF E!OpenIn(r) = {} THEN NoSession ELSE E!ActiveIn(r),
                   snap |-> pb[IF E!OpenIn(r) = {} THEN q ELSE E!ActiveIn(r).q]]
  <2>1. op' = [op EXCEPT ![p] = o]
    BY DEF E!SelectBegin
  <2>2. o.at \in {"open", "close"}
    OBVIOUS
  <2> HIDE DEF o
  <2> QED
    BY <2>1, <2>2
<1>4. op[p].at \notin {"append", "pair"}
  BY <1>1 DEF E!Idle
<1> QED
  BY <1>1, <1>2, <1>3, <1>4, QuietNext

LEMMA LockBeginsAnswer ==
    ASSUME StoreInv, TakeTurns, ~overlap, Answering, died = 0, NEW p \in Proc,
           NEW q \in Project, E!LockBegin(p, q)
    PROVE  Answering'
<1>1. \A x \in Proc : op[x] = E!Idle
  BY DEF E!LockBegin, E!Free
<1>2. UNCHANGED <<ses, turns, pairs, turn, died>>
  BY DEF E!LockBegin, E!files
<1>3. PICK o : op' = [op EXCEPT ![p] = o] /\ o.at = "bindread"
  <2>1. PICK h \in {pb[q][i].h : i \in E!Bindings(q)} :
          \E t \in E!TurnsOf(E!Chosen(q, h)) :
            op' = [op EXCEPT ![p] = [at |-> "bindread", q |-> q, b |-> E!Chosen(q, h),
                                     conf |-> [reply |-> t.ord, prop |-> t.prop]]]
    BY DEF E!LockBegin
  <2>2. PICK t \in E!TurnsOf(E!Chosen(q, h)) :
            op' = [op EXCEPT ![p] = [at |-> "bindread", q |-> q, b |-> E!Chosen(q, h),
                                     conf |-> [reply |-> t.ord, prop |-> t.prop]]]
    BY <2>1
  <2> DEFINE o == [at |-> "bindread", q |-> q, b |-> E!Chosen(q, h),
                   conf |-> [reply |-> t.ord, prop |-> t.prop]]
  <2>3. op' = [op EXCEPT ![p] = o] /\ o.at = "bindread"
    BY <2>2
  <2> HIDE DEF o
  <2> QED
    BY <2>3
<1>4. op[p].at \notin {"append", "pair"}
  BY <1>1 DEF E!Idle
<1> QED
  BY <1>1, <1>2, <1>3, <1>4, QuietNext

LEMMA SelectsAnswer ==
    ASSUME StoreInv, TakeTurns, ~overlap, Answering, died = 0, NEW p \in Proc,
           E!SelectClose(p) \/ E!SelectOpen(p) \/ E!SelectReport(p)
    PROVE  Answering'
<1> DEFINE o == op[p]
<1>1. o \in Ops /\ o.at \in {"close", "open", "saved"} /\ o # E!Idle
  BY DEF StoreInv, StoreType, E!SelectClose, E!SelectOpen, E!SelectReport, E!Idle
<1>2. UNCHANGED <<ses, turns, pairs, turn, died>>
  BY DEF E!SelectClose, E!SelectOpen, E!SelectReport, E!files
<1>3. o \in SelectOps
  BY <1>1, OpKinds DEF Selecting
<1>4. PICK new : op' = [op EXCEPT ![p] = new] /\ new.at \notin {"append", "pair"}
  <2> DEFINE saves == [o EXCEPT !.at = "save"]
             opens == [o EXCEPT !.at = "open", !.snap = pb[o.q]]
  <2>1. saves.at = "save" /\ opens.at = "open" /\ E!Idle.at = "idle"
    BY <1>3 DEF SelectOps, E!Idle
  <2>2. /\ [op EXCEPT ![p].at = "save"] = [op EXCEPT ![p] = saves]
        /\ [op EXCEPT ![p].at = "open", ![p].snap = pb[o.q]] = [op EXCEPT ![p] = opens]
    BY <1>1 DEF StoreInv, StoreType
  <2>3. \/ op' = [op EXCEPT ![p].at = "save"]
        \/ op' = [op EXCEPT ![p].at = "open", ![p].snap = pb[o.q]]
        \/ op' = [op EXCEPT ![p] = E!Idle]
    BY DEF E!SelectClose, E!SelectOpen, E!SelectReport, E!Goto, E!Done
  <2> HIDE DEF saves, opens, o
  <2> QED
    BY <2>1, <2>2, <2>3
<1>5. op[p] # E!Idle /\ op[p].at \notin {"append", "pair"}
  BY <1>1
<1> HIDE DEF o
<1> QED
  BY <1>2, <1>4, <1>5, QuietNext

LEMMA SelectSavesAnswer ==
    ASSUME StoreInv, TakeTurns, ~overlap, Answering, died = 0, NEW p \in Proc, E!SelectSave(p)
    PROVE  Answering'
<1> DEFINE o == op[p]
           new == [o EXCEPT !.at = "saved"]
<1>1. o \in Ops /\ o.at = "save" /\ o # E!Idle /\ Selecting(o)
  BY DEF StoreInv, StoreType, E!SelectSave, E!Idle, Selecting
<1>2. o \in SelectOps
  BY <1>1, OpKinds
<1>3. o.s \in Session /\ o.rec # NoSession
  BY <1>2, NoRecord DEF SelectOps
<1>4. ses[o.s] # NoSession /\ ses[o.s].h = o.rec.h
  BY <1>1 DEF TakeTurns, InTurn, Holding
<1>5. /\ op' = [op EXCEPT ![p] = new] /\ ses' = [ses EXCEPT ![o.s] = o.rec]
      /\ UNCHANGED <<turns, pairs, turn, died>>
  <2>1. [op EXCEPT ![p].at = "saved"] = [op EXCEPT ![p] = [op[p] EXCEPT !.at = "saved"]]
    OBVIOUS
  <2> QED
    BY <2>1 DEF E!SelectSave, E!Goto
<1>6. new.at = "saved"
  BY <1>2 DEF SelectOps
<1>7. op[p] # E!Idle /\ op[p].at \notin {"append", "pair"} /\ new.at \notin {"append", "pair"}
  BY <1>1, <1>6
<1> HIDE DEF new, o
<1>8. ses'[o.s] = o.rec /\ \A s \in Session : s # o.s => ses'[s] = ses[s]
  BY <1>3, <1>5 DEF StoreInv, StoreType
<1>9. \A s \in Session : \/ ses'[s] = ses[s]
                         \/ /\ ses[s] # NoSession /\ ses'[s] # NoSession
                            /\ ses'[s].h = ses[s].h
  BY <1>3, <1>4, <1>8
<1> QED
  BY <1>5, <1>7, <1>9, QuietAnswers

LEMMA LocksAnswer ==
    ASSUME StoreInv, TakeTurns, ~overlap, Answering, died = 0, NEW p \in Proc,
           E!LockRead(p) \/ E!LockWrite(p)
    PROVE  Answering'
<1> DEFINE o == op[p]
           new == [at |-> "bindwrite", q |-> o.q, b |-> o.b, conf |-> o.conf, snap |-> pb[o.q]]
<1>1. o.at \in {"bindread", "bindwrite"} /\ o # E!Idle
  BY DEF E!LockRead, E!LockWrite, E!Idle
<1>2. UNCHANGED <<ses, turns, pairs, turn, died>>
  BY DEF E!LockRead, E!LockWrite, E!files
<1>3. op' = [op EXCEPT ![p] = new] \/ op' = [op EXCEPT ![p] = E!Idle]
  BY DEF E!LockRead, E!LockWrite, E!Done
<1>4. new.at = "bindwrite" /\ E!Idle.at = "idle"
  BY DEF E!Idle
<1>5. op[p] # E!Idle /\ op[p].at \notin {"append", "pair"}
  BY <1>1
<1> HIDE DEF o, new
<1>6. PICK x : op' = [op EXCEPT ![p] = x] /\ x.at \notin {"append", "pair"}
  BY <1>3, <1>4
<1> QED
  BY <1>2, <1>5, <1>6, QuietNext

LEMMA AnswersInit ==
    ASSUME E!Init
    PROVE  Answering
<1>1. /\ ses = [s \in Session |-> NoSession] /\ turns = [s \in Session |-> <<>>]
      /\ pairs = [s \in Session |-> <<>>] /\ turn = [s \in Session |-> 0]
      /\ op = [p \in Proc |-> E!Idle] /\ died = 0
  BY DEF E!Init
<1>2. \A s \in Session : Due(op, s) = {}
  BY <1>1, NothingDue
<1>3. \A s \in Session : SessionAnswers(ses[s], turns[s], pairs[s], turn[s], Due(op, s))
  BY <1>1, <1>2, NoneAnswered
<1>4. \A p \in Proc : Reporting(op[p], turns[op[p].s], pairs[op[p].s], turn[op[p].s])
  BY <1>1, IdleReports
<1> QED
  BY <1>1, <1>3, <1>4 DEF Answering, AnswersNow

\* A death ends what can be said of answers.
LEMMA DeathsCount ==
    ASSUME died \in Nat, E!Next \/ UNCHANGED evidence
    PROVE  died' = died \/ died' = died + 1
<1>1. ASSUME NEW p \in Proc, NEW s \in Session, E!HookBegin(p, s) PROVE died' = died
  BY <1>1 DEF E!HookBegin
<1>2. ASSUME NEW p \in Proc, NEW s \in Session, NEW q \in Project \cup {NoProject},
             E!SelectBegin(p, s, q)
      PROVE  died' = died
  BY <1>2 DEF E!SelectBegin
<1>3. ASSUME NEW p \in Proc, E!HookAppend(p) \/ E!HookPair(p) \/ E!HookFinish(p)
      PROVE  died' = died
  BY <1>3 DEF E!HookAppend, E!HookPair, E!HookFinish
<1>4. ASSUME NEW p \in Proc, \/ E!SelectClose(p) \/ E!SelectOpen(p) \/ E!SelectSave(p)
                            \/ E!SelectReport(p)
      PROVE  died' = died
  BY <1>4 DEF E!SelectClose, E!SelectOpen, E!SelectSave, E!SelectReport
<1>5. ASSUME NEW p \in Proc, NEW q \in Project, E!LockBegin(p, q) PROVE died' = died
  BY <1>5 DEF E!LockBegin
<1>6. ASSUME NEW p \in Proc, E!LockRead(p) \/ E!LockWrite(p) PROVE died' = died
  BY <1>6 DEF E!LockRead, E!LockWrite
<1>7. ASSUME NEW p \in Proc, E!Crash(p) PROVE died' = died + 1
  BY <1>7 DEF E!Crash
<1>8. ASSUME NEW q \in Project, E!Revoke(q) PROVE died' = died
  BY <1>8 DEF E!Revoke
<1>9. ASSUME UNCHANGED evidence PROVE died' = died
  BY <1>9 DEF evidence
<1> QED
  BY <1>1, <1>2, <1>3, <1>4, <1>5, <1>6, <1>7, <1>8, <1>9 DEF E!Next

LEMMA AnswersStep ==
    ASSUME StoreInv, TakeTurns, Answering, BufferMax \in Nat, E!Next \/ UNCHANGED evidence
    PROVE  Answering'
<1>1. died \in Nat /\ (died' = died \/ died' = died + 1) /\ overlap' = overlap
  BY DeathsCount, OverlapStays DEF Answering
<1>2. CASE overlap \/ died' # 0
  BY <1>1, <1>2 DEF Answering
<1>3. CASE ~overlap /\ died' = 0
  <2>1. died = 0 /\ died' = died
    BY <1>1, <1>3
  <2>2. ASSUME NEW p \in Proc, NEW s \in Session, E!HookBegin(p, s) PROVE Answering'
    BY <1>3, <2>1, <2>2, HookBeginsAnswer
  <2>3. ASSUME NEW p \in Proc, NEW s \in Session, NEW q \in Project \cup {NoProject},
               E!SelectBegin(p, s, q)
        PROVE  Answering'
    BY <1>3, <2>1, <2>3, SelectBeginsAnswer
  <2>4. ASSUME NEW p \in Proc, E!HookAppend(p) PROVE Answering'
    BY <1>3, <2>1, <2>4, HookAppendsAnswer
  <2>5. ASSUME NEW p \in Proc, E!HookPair(p) \/ E!HookFinish(p) PROVE Answering'
    BY <1>3, <2>1, <2>5, HookPairsAnswer, HookFinishesAnswer
  <2>6. ASSUME NEW p \in Proc, \/ E!SelectClose(p) \/ E!SelectOpen(p) \/ E!SelectSave(p)
                               \/ E!SelectReport(p)
        PROVE  Answering'
    BY <1>3, <2>1, <2>6, SelectsAnswer, SelectSavesAnswer
  <2>7. ASSUME NEW p \in Proc, NEW q \in Project, E!LockBegin(p, q) PROVE Answering'
    BY <1>3, <2>1, <2>7, LockBeginsAnswer
  <2>8. ASSUME NEW p \in Proc, E!LockRead(p) \/ E!LockWrite(p) PROVE Answering'
    BY <1>3, <2>1, <2>8, LocksAnswer
  <2>9. ASSUME NEW p \in Proc, E!Crash(p) PROVE Answering'
    <3>1. died' = died + 1
      BY <2>9 DEF E!Crash
    <3> QED
      BY <1>1, <2>1, <3>1
  <2>10. ASSUME UNCHANGED <<ses, turns, pairs, turn, op, overlap, died>> PROVE Answering'
    BY <2>10 DEF Answering, AnswersNow
  <2>11. ASSUME NEW q \in Project, E!Revoke(q) PROVE Answering'
    BY <2>10, <2>11 DEF E!Revoke
  <2>12. ASSUME UNCHANGED evidence PROVE Answering'
    BY <2>10, <2>12 DEF evidence
  <2> QED
    BY <2>2, <2>3, <2>4, <2>5, <2>6, <2>7, <2>8, <2>9, <2>11, <2>12 DEF E!Next
<1> QED
  BY <1>2, <1>3

\* The pairs of a log, as the resolver reads them, are those the invariant speaks of.
LEMMA MarkedIs ==
    ASSUME NEW s, pairs[s] \in Seq(Links), Apiece(pairs[s]), NEW k \in 1 .. Len(pairs[s]),
           pairs[s][k].kind = "pair", Doubted(pairs[s], k)
    PROVE  E!Inconsistent(s, pairs[s][k].h, pairs[s][k].reply)
<1> DEFINE ps == pairs[s]
           fixed == E!Frozen(s, ps[k].h, ps[k].reply)
<1>1. ps \in Seq(Links) /\ Len(ps) \in Nat
  OBVIOUS
<1>2. fixed = {i \in 1 .. Len(ps) : ps[i].kind = "pair" /\ ps[i].h = ps[k].h /\ ps[i].reply = ps[k].reply}
  BY DEF E!Frozen
<1> HIDE DEF fixed
<1>3. fixed = {k}
  BY <1>2 DEF Apiece
<1>4. E!Max(fixed) = k
  <2>1. fixed \subseteq 0 .. Len(ps) /\ fixed # {}
    BY <1>3
  <2>2. E!Max(fixed) \in fixed
    BY <1>1, <2>1, GreatestOrdinal
  <2> QED
    BY <1>3, <2>2
<1> QED
  BY <1>3, <1>4 DEF fixed, Doubted, E!Inconsistent

LEMMA AnswersLast ==
    ASSUME StoreInv, TakeTurns, Answering
    PROVE  PairedMeansLast
<1> SUFFICES ASSUME ~overlap, died = 0, \A p \in Proc : op[p] = E!Idle, NEW s \in Session,
                    NEW k \in 1 .. Len(pairs[s]), pairs[s][k].kind = "pair",
                    ~E!Inconsistent(s, pairs[s][k].h, pairs[s][k].reply),
                    NEW e \in E!Range(turns[s]), NEW f \in E!Range(turns[s]),
                    NEW g \in E!Range(turns[s]),
                    e.ev = "stop", e.ord = pairs[s][k].prop,
                    f.ev = "stop", f.turn = e.turn, f.ord > e.ord,
                    g.ev = "prompt", g.turn = e.turn,
                    \A z \in E!Range(turns[s]) : z.ev = "prompt" /\ z.ord > g.ord
                       => z.ord >= pairs[s][k].reply
             PROVE  f.text = e.text
  BY DEF PairedMeansLast, E!PairedMeansLast
<1> DEFINE evs == turns[s]
           x == pairs[s][k]
<1>1. E!Range(evs) = Said(evs)
  <2>1. evs \in Seq(Events)
    BY DEF StoreInv, StoreType
  <2> QED
    BY <2>1 DEF E!Range, Said
<1>2. SessionAnswers(ses[s], evs, pairs[s], turn[s], {})
  <2>1. Due(op, s) = {}
    BY NothingDue
  <2> QED
    BY <2>1 DEF Answering, AnswersNow
<1>3. ~Doubted(pairs[s], k)
  BY <1>2, MarkedIs DEF SessionAnswers
<1>4. Answered(Said(evs), x, {})
  BY <1>2, <1>3 DEF SessionAnswers, Answers
<1>5. Concerns(Said(evs), x, e, f, g)
  BY <1>1 DEF Concerns
<1>6. e \in Said(evs) /\ f \in Said(evs) /\ g \in Said(evs)
  BY <1>1
<1> QED
  BY <1>4, <1>5, <1>6 DEF Answered

\* When operations take turns and none dies, a reply that counts as answering what
\* the turn before it proposed answers the last that turn said, however hooks,
\* selections, sweeps and evictions follow one another (intake_adapter.py).
THEOREM RepliesAnswerLast == MCSpec => []PairedMeansLast
<1>1. MCInit => StoreInv /\ TakeTurns /\ Answering
  BY StoreInit, TurnsInit, AnswersInit DEF MCInit
<1>2. StoreInv /\ TakeTurns /\ Answering /\ [MCNext]_<<part, vars, closeout, evidence>>
        => StoreInv' /\ TakeTurns' /\ Answering'
  BY StoreStep, TurnsStep, AnswersStep, HostedStoreStep, HostedAssumption
<1>3. StoreInv /\ TakeTurns /\ Answering => PairedMeansLast
  BY AnswersLast
<1> QED
  BY <1>1, <1>2, <1>3, PTL DEF MCSpec
=============================================================================
