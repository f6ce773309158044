--------------------------- MODULE MCMediatedWrite ---------------------------
(* Small instances of MediatedWrite for TLC. *)
EXTENDS MediatedWrite, TLC

Symmetry == Permutations(Call) \cup Permutations(Inode) \cup Permutations(Data)

\* Three calls by themselves, or two of them and the changes made outside.
TwoWithRaws == raws > 0 => \E c \in Call : pc[c] = "idle"
=============================================================================
