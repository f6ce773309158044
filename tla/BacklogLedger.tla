--------------------------- MODULE BacklogLedger ---------------------------
(***************************************************************************)
(* What the backlog promises whoever cites one of its ids: an id names one *)
(* entry for ever.  It is issued once, revised only while it is live, and  *)
(* never named again after the entry was dropped.                          *)
(***************************************************************************)
CONSTANTS Id,      \* the ids an entry can have
          Note,    \* what an entry says
          None     \* the value of an id that names no live entry

VARIABLES issued,  \* ids handed out so far
          entry    \* what each id says, None when it is not live

vars == <<issued, entry>>

Init ==
    /\ entry \in [Id -> Note \cup {None}]
    /\ issued = {i \in Id : entry[i] # None}

\* A new entry gets an id nobody was ever given.
Issue(i, n) ==
    /\ i \notin issued
    /\ issued' = issued \cup {i}
    /\ entry' = [entry EXCEPT ![i] = n]

\* A live entry says something else.
Revise(i, n) ==
    /\ entry[i] # None
    /\ entry' = [entry EXCEPT ![i] = n]
    /\ UNCHANGED issued

\* A live entry goes away; its id stays spent.
Drop(i) ==
    /\ entry[i] # None
    /\ entry' = [entry EXCEPT ![i] = None]
    /\ UNCHANGED issued

Next == \E i \in Id : Drop(i) \/ \E n \in Note : Issue(i, n) \/ Revise(i, n)

Spec == Init /\ [][Next]_vars
=============================================================================
