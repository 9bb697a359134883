---------------------------- MODULE MCDapSession ----------------------------
(***************************************************************************)
(* A small instance of DapSession for TLC.                                 *)
(***************************************************************************)
EXTENDS DapSession, TLC

Symmetry == Permutations(Calls)
=============================================================================
