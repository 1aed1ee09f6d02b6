------------------------------ MODULE MCShell ------------------------------
(***************************************************************************)
(* Small instances of Shell.                                               *)
(***************************************************************************)
EXTENDS Shell, TLC

Symmetry == Permutations(Tabs) \cup Permutations(Calls)
============================================================================
