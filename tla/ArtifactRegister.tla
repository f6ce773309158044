-------------------------- MODULE ArtifactRegister --------------------------
(***************************************************************************)
(* What one governed artifact promises its writers, whatever the write     *)
(* path does underneath: a register that is either absent or holds the     *)
(* whole body of one writer.  A call announces whether it creates or       *)
(* overwrites, takes effect in one atomic step at most once, and only a    *)
(* create requires the artifact to be absent at that very step.  A call    *)
(* may end (return, refuse or die) before or after it took effect.         *)
(***************************************************************************)
CONSTANTS Call,     \* calls of the mediated writer
          Data,     \* complete artifact bodies
          Absent    \* the value of an artifact that does not exist

VARIABLES value,    \* Data, or Absent
          want,     \* the body each call was given
          status    \* how far each call has come

vars == <<value, want, status>>

Init ==
    /\ value \in Data \cup {Absent}
    /\ want \in [Call -> Data]
    /\ status = [c \in Call |-> "idle"]

\* The call decides what it is, from an observation that may be stale later.
Announce(c) ==
    /\ status[c] = "idle"
    /\ \E kind \in {"create", "overwrite"} : status' = [status EXCEPT ![c] = kind]
    /\ UNCHANGED <<value, want>>

\* The call takes effect: the whole body at once, a create only on absence.
Land(c) ==
    /\ status[c] \in {"create", "overwrite"}
    /\ status[c] = "create" => value = Absent
    /\ value' = want[c]
    /\ status' = [status EXCEPT ![c] = "landed"]
    /\ UNCHANGED want

\* The call is over; ending never changes the artifact.
End(c) ==
    /\ status[c] # "ended"
    /\ status' = [status EXCEPT ![c] = "ended"]
    /\ UNCHANGED <<value, want>>

\* Someone changes or removes the artifact outside the mediated writer.
OutOfBand ==
    /\ value' \in Data \cup {Absent}
    /\ UNCHANGED <<want, status>>

Next == (\E c \in Call : Announce(c) \/ Land(c) \/ End(c)) \/ OutOfBand

Spec == Init /\ [][Next]_vars
=============================================================================
