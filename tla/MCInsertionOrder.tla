--------------------------- MODULE MCInsertionOrder --------------------------
(* Instances of InsertionOrder for TLC. *)
EXTENDS InsertionOrder, TLC

Symmetry == Permutations(Objects)
=============================================================================
