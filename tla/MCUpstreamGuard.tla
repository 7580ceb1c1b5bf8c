-------------------------- MODULE MCUpstreamGuard ---------------------------
(***************************************************************************)
(* UpstreamGuard for TLC: one attempt more than the bulkhead admits, a     *)
(* threshold of two, and an interval that doubles once before it is        *)
(* capped.                                                                 *)
(***************************************************************************)
EXTENDS UpstreamGuard
=============================================================================
