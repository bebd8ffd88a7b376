------------------------------ MODULE MCLauncher ------------------------------
(* Goals under every map to ids, and two processes.                          *)
EXTENDS Launcher, TLC

Symmetry == Permutations(Goals) \cup Permutations(Processes) \cup Permutations(Ids)
=============================================================================
