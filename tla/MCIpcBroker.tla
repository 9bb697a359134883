---------------------------- MODULE MCIpcBroker ----------------------------
(***************************************************************************)
(* IpcBroker for TLC: MCIpcBroker.cfg gives three calls two mailboxes of   *)
(* one broker and limits small enough to be reached; no symmetry, because  *)
(* a liveness property is checked.                                         *)
(***************************************************************************)
EXTENDS IpcBroker
=============================================================================
