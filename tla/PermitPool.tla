----------------------------- MODULE PermitPool -----------------------------
(***************************************************************************)
(* What every bulkhead of the server promises, with no mechanism in it: at *)
(* any time at most Capacity of the Clients hold a permit, a client that   *)
(* holds one gives it back, and nothing else changes who holds one.        *)
(*                                                                         *)
(* The bulkhead inside UpstreamGuard (resilience.py) and the AdmissionGate *)
(* of BoundedThreadRunner (bounded_work.py) keep a counter instead of the  *)
(* set; they are shown to implement this specification.                    *)
(***************************************************************************)
EXTENDS Naturals, FiniteSets

CONSTANTS
    Clients,    \* whoever may hold a permit
    Capacity    \* how many permits there are

VARIABLE holders    \* the clients that hold a permit

Init == holders = {}

Acquire(c) ==
    /\ c \notin holders
    /\ Cardinality(holders) < Capacity
    /\ holders' = holders \cup {c}

Release(c) ==
    /\ c \in holders
    /\ holders' = holders \ {c}

Next == \E c \in Clients : Acquire(c) \/ Release(c)

Spec == Init /\ [][Next]_holders
=============================================================================
