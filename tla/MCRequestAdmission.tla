------------------------- MODULE MCRequestAdmission --------------------------
(***************************************************************************)
(* RequestAdmission for TLC: each limit is smaller than what asks for it.  *)
(* One request more than the global gate admits; a share of one, so that a *)
(* principal may find its own gate open and the global gate full; a budget *)
(* for a full reservation beside one that has shrunk, not for two full     *)
(* ones.                                                                   *)
(***************************************************************************)
EXTENDS RequestAdmission
=============================================================================
