---------------------------- MODULE EvictionOrder ----------------------------
(***************************************************************************)
(* What the retention code needs from the insertion order, whatever keeps  *)
(* it: every sequence number is given to one object, once, and a later     *)
(* object gets a larger number than every earlier one ever had.            *)
(* PersistentInsertionOrder promises it across crashes (InsertionOrder),   *)
(* and ContentAddressedStore relies on it when it prunes (ArtifactStore).  *)
(***************************************************************************)
EXTENDS Naturals

CONSTANT Objects

VARIABLES
    order,  \* the sequence of each object, 0 when it has none
    fresh   \* no object has had this sequence or a larger one

Init ==
    /\ order = [o \in Objects |-> 0]
    /\ fresh = 1

\* Objects may lose their sequences, sequences may be skipped, and objects
\* may get distinct fresh ones.
Advance ==
    /\ fresh' >= fresh
    /\ order' \in [Objects -> 0..(fresh' - 1)]
    /\ \A o \in Objects : order'[o] \in {0, order[o]} \/ order'[o] >= fresh
    /\ \A o, e \in Objects : order'[o] = order'[e] /\ order'[o] # 0 => o = e

Spec == Init /\ [][Advance]_<<order, fresh>>
=============================================================================
