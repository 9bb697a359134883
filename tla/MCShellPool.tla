----------------------------- MODULE MCShellPool -----------------------------
(***************************************************************************)
(* Small instances of ShellPool for TLC.                                   *)
(***************************************************************************)
EXTENDS ShellPool, TLC

Symmetry == Permutations(Calls) \cup Permutations(Keys)
=============================================================================
