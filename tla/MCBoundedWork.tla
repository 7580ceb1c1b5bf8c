--------------------------- MODULE MCBoundedWork ----------------------------
(***************************************************************************)
(* BoundedWork for TLC: the two threads of STORAGE_WORK, and two calls of  *)
(* run and of run_to_completion each, so that both kinds find the gate     *)
(* full, and queued work may wait for a thread that is in its callbacks.   *)
(***************************************************************************)
EXTENDS BoundedWork
=============================================================================
