---------------------------- MODULE MCInstallRun ----------------------------
(* Small instances of InstallRun for TLC: two files of one tool-owned surface. *)
EXTENDS InstallRun

MCRows == <<"cli", "mcp">>
MCSurfaceOf == [t \in {"cli", "mcp"} |-> "core-files"]
Symmetry == Permutations(Proc)
=============================================================================
