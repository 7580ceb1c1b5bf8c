------------------------ MODULE UpstreamGuardProofs -------------------------
(***************************************************************************)
(* The safety of UpstreamGuard for any set of attempts, any capacity and   *)
(* any policy.                                                             *)
(*                                                                         *)
(* PermitAccounting and ProbeOwnsHalfOpen are not inductive by themselves: *)
(* a bump of the generation makes every outstanding permit stale only      *)
(* because no permit carries a generation the guard has not reached yet    *)
(* (PermitsNotFromFuture).  That the backoff is only forgotten by a        *)
(* successful probe needs that a closed circuit has none to forget         *)
(* (ClosedForgetsBackoff).                                                 *)
(***************************************************************************)
EXTENDS UpstreamGuard, FiniteSetTheorems, TLAPS

\* A permit is issued with the generation of its admission, and generations
\* only grow.
PermitsNotFromFuture ==
    \A a \in Attempts : phase[a] # "idle" => permit_gen[a] <= generation

\* Only the open and half-open states carry a reopen_count.
ClosedForgetsBackoff == circuit = "closed" => reopen_count = 0

IInv ==
    /\ TypeOK
    /\ PermitAccounting
    /\ ProbeOwnsHalfOpen
    /\ PermitsNotFromFuture
    /\ OpenLeavesRoom
    /\ ClosedForgetsBackoff

USE DEF Phases, Outcomes

-----------------------------------------------------------------------------
\* The set of attempts that hold a permit is finite, and counting it changes
\* by one with an admission or a completion.
LEMMA OutstandingFinite ==
    /\ IsFiniteSet(Outstanding)
    /\ Cardinality(Outstanding) \in Nat
  <1>1. IsFiniteSet(Outstanding)
    BY AttemptsAssumption, FS_Subset DEF Outstanding
  <1> QED
    BY <1>1, FS_CardinalityType

\* An admission adds one outstanding permit.
LEMMA OutstandingAfterAdmit ==
    ASSUME TypeOK, NEW a \in Attempts, phase[a] = "idle",
           phase' = [phase EXCEPT ![a] = "admitted"]
    PROVE  /\ Outstanding' = Outstanding \cup {a}
           /\ Cardinality(Outstanding') = Cardinality(Outstanding) + 1
  <1>1. Outstanding' = Outstanding \cup {a} /\ a \notin Outstanding
    BY DEF Outstanding, TypeOK
  <1> QED
    BY <1>1, OutstandingFinite, FS_AddElement

\* A completion takes one outstanding permit away.
LEMMA OutstandingAfterComplete ==
    ASSUME TypeOK, NEW a \in Attempts, phase[a] = "recording",
           phase' = [phase EXCEPT ![a] = "idle"]
    PROVE  /\ Outstanding' = Outstanding \ {a}
           /\ Cardinality(Outstanding') = Cardinality(Outstanding) - 1
  <1>1. Outstanding' = Outstanding \ {a} /\ a \in Outstanding
    BY DEF Outstanding, TypeOK
  <1> QED
    BY <1>1, OutstandingFinite, FS_RemoveElement

\* No open interval is longer than the maximum.
LEMMA OpenIntervalBounded ==
    ASSUME NEW n, NEW ticks \in OpenInterval(n)
    PROVE  ticks \in 0..MaxOpen
  BY OpenAssumption DEF OpenInterval

-----------------------------------------------------------------------------
\* A new guard satisfies the invariant.
LEMMA InitEstablishesIInv == Init => IInv
  <1> SUFFICES ASSUME Init PROVE IInv
    OBVIOUS
  <1>1. TypeOK
    BY OpenAssumption DEF Init, TypeOK
  <1>2. Outstanding = {}
    BY DEF Init, Outstanding
  <1>3. PermitAccounting
    BY <1>2, FS_EmptySet, CapacityAssumption DEF Init, PermitAccounting
  <1>4. ProbeOwnsHalfOpen /\ PermitsNotFromFuture
    BY DEF Init, ProbeOwnsHalfOpen, PermitsNotFromFuture, Current
  <1>5. OpenLeavesRoom /\ ClosedForgetsBackoff
    BY DEF Init, OpenLeavesRoom, ClosedForgetsBackoff
  <1> QED
    BY <1>1, <1>3, <1>4, <1>5 DEF IInv

\* An admission keeps the invariant, in each of the three states.
LEMMA AdmitKeepsIInv ==
    ASSUME IInv, NEW a \in Attempts, Admit(a)
    PROVE  IInv'
  <1> USE DEF IInv
  <1>1. TypeOK'
    BY DEF TypeOK, Admit, HalfOpen
  <1>2. PermitAccounting'
    <2>1. Cardinality(Outstanding') = Cardinality(Outstanding) + 1
      BY OutstandingAfterAdmit DEF Admit
    <2>2. active' = active + 1 /\ active < Capacity
      BY DEF Admit, Admissible
    <2> QED
      BY <2>1, <2>2, CapacityAssumption DEF PermitAccounting, TypeOK
  <1>3. PermitsNotFromFuture'
    BY DEF PermitsNotFromFuture, Admit, TypeOK
  <1>4. ProbeOwnsHalfOpen'
    <2>1. CASE circuit = "open"
      <3>1. circuit' = "half_open" /\ generation' = generation + 1
        BY <2>1 DEF Admit, HalfOpen
      <3>2. Current(a)'
        BY <2>1, <3>1 DEF Admit, Current, TypeOK
      <3>3. probe'[a]
        BY <2>1 DEF Admit, TypeOK
      <3>4. ASSUME NEW b \in Attempts, Current(b)'
            PROVE  b = a
        BY <2>1, <3>1, <3>4 DEF PermitsNotFromFuture, Current, Admit, TypeOK
      <3> QED
        BY <3>1, <3>2, <3>3, <3>4 DEF ProbeOwnsHalfOpen
    <2>2. CASE circuit = "closed"
      BY <2>2 DEF ProbeOwnsHalfOpen, Current, Admit, TypeOK
    <2> QED
      BY <2>1, <2>2 DEF Admit, Admissible, TypeOK
  <1>5. OpenLeavesRoom' /\ ClosedForgetsBackoff'
    BY DEF Admit, HalfOpen, Admissible, OpenLeavesRoom, ClosedForgetsBackoff
  <1> QED
    BY <1>1, <1>2, <1>3, <1>4, <1>5

\* So does an admission cancelled after it took the permit.
LEMMA AdmitCancelledKeepsIInv ==
    ASSUME IInv, NEW a \in Attempts, AdmitCancelled(a)
    PROVE  IInv'
  <1> USE DEF IInv
  <1>1. TypeOK'
    BY OpenAssumption DEF TypeOK, AdmitCancelled, Open, permit_vars
  <1>2. PermitAccounting'
    BY DEF PermitAccounting, AdmitCancelled, Outstanding, permit_vars
  <1>3. PermitsNotFromFuture' /\ ProbeOwnsHalfOpen'
    BY DEF PermitsNotFromFuture, ProbeOwnsHalfOpen, Current, AdmitCancelled, Open,
           permit_vars, TypeOK
  <1>4. OpenLeavesRoom' /\ ClosedForgetsBackoff'
    BY DEF AdmitCancelled, Open, OpenLeavesRoom, ClosedForgetsBackoff
  <1> QED
    BY <1>1, <1>2, <1>3, <1>4

\* The outcome is recorded in the permit.
LEMMA RecordKeepsIInv ==
    ASSUME IInv, NEW a \in Attempts, NEW o \in Outcomes, Record(a, o)
    PROVE  IInv'
  <1> USE DEF IInv
  <1>1. TypeOK'
    BY DEF TypeOK, Record, guard_vars
  <1>2. Outstanding' = Outstanding
    BY DEF Outstanding, Record, TypeOK
  <1>3. PermitAccounting'
    BY <1>2 DEF PermitAccounting, Record, guard_vars
  <1>4. PermitsNotFromFuture' /\ ProbeOwnsHalfOpen'
    BY DEF PermitsNotFromFuture, ProbeOwnsHalfOpen, Current, Record, guard_vars, TypeOK
  <1>5. OpenLeavesRoom' /\ ClosedForgetsBackoff'
    BY DEF Record, guard_vars, OpenLeavesRoom, ClosedForgetsBackoff
  <1> QED
    BY <1>1, <1>3, <1>4, <1>5

\* So does complete_attempt, whatever the state and the outcome.
LEMMA CompleteAttemptKeepsIInv ==
    ASSUME IInv, NEW a \in Attempts, CompleteAttempt(a)
    PROVE  IInv'
  <1> USE DEF IInv
  <1> DEFINE circuit_vars == <<generation, circuit, failures, retry_in, reopen_count>>
  <1>0. /\ phase[a] = "recording" /\ phase' = [phase EXCEPT ![a] = "idle"]
        /\ active' = active - 1 /\ active > 0
        /\ UNCHANGED <<probe, permit_gen>>
    BY DEF CompleteAttempt
  <1>1. \/ permit_gen[a] # generation /\ UNCHANGED circuit_vars
        \/ permit_gen[a] = generation /\ ApplySuccess
        \/ permit_gen[a] = generation /\ ApplyExcluded(a)
        \/ permit_gen[a] = generation /\ ApplyTransient
    BY DEF CompleteAttempt, Apply
  <1>2. /\ generation' \in Nat /\ failures' \in Nat /\ reopen_count' \in Nat
        /\ retry_in' \in 0..MaxOpen
        /\ circuit' \in {"closed", "open", "half_open"}
    <2>1. CASE UNCHANGED circuit_vars
      BY <2>1 DEF TypeOK
    <2>2. CASE ApplySuccess
      BY <2>2, OpenAssumption DEF ApplySuccess, Closed, TypeOK
    <2>3. CASE ApplyExcluded(a)
      BY <2>3, OpenAssumption DEF ApplyExcluded, Open, TypeOK
    <2>4. CASE ApplyTransient
      BY <2>4, OpenAssumption, OpenIntervalBounded DEF ApplyTransient, Closed, Open, TypeOK
    <2> QED
      BY <1>1, <2>1, <2>2, <2>3, <2>4
  <1>3. TypeOK'
    BY <1>0, <1>2 DEF TypeOK, CompleteAttempt
  <1>4. PermitAccounting'
    <2>1. Cardinality(Outstanding') = Cardinality(Outstanding) - 1
      BY <1>0, OutstandingAfterComplete
    <2> QED
      BY <1>0, <2>1, CapacityAssumption DEF PermitAccounting, TypeOK
  <1>5. generation <= generation'
    BY <1>1 DEF ApplySuccess, ApplyExcluded, ApplyTransient, TypeOK
  <1>6. PermitsNotFromFuture'
    BY <1>0, <1>2, <1>5 DEF PermitsNotFromFuture, TypeOK
  <1>7. ProbeOwnsHalfOpen'
    <2>1. CASE permit_gen[a] # generation /\ UNCHANGED circuit_vars
      BY <1>0, <2>1 DEF ProbeOwnsHalfOpen, Current, TypeOK
    <2>2. CASE generation' = generation + 1 /\ circuit' # "half_open"
      BY <1>0, <2>2 DEF ProbeOwnsHalfOpen, PermitsNotFromFuture, Current, TypeOK
    <2>3. CASE generation' = generation /\ circuit = "closed" /\ circuit' = "closed"
      BY <1>0, <2>3 DEF ProbeOwnsHalfOpen, Current, TypeOK
    <2>4. ASSUME permit_gen[a] = generation
          PROVE  circuit = "closed" \/ (circuit = "half_open" /\ probe[a])
      BY <1>0, <2>4 DEF ProbeOwnsHalfOpen, Current, TypeOK
    <2> QED
      BY <1>1, <2>1, <2>2, <2>3, <2>4
      DEF ApplySuccess, ApplyExcluded, ApplyTransient, Closed, Open
  <1>8. OpenLeavesRoom'
    BY <1>0, <1>4, CapacityAssumption DEF OpenLeavesRoom, PermitAccounting, TypeOK
  <1>9. ClosedForgetsBackoff'
    BY <1>1 DEF ClosedForgetsBackoff, ApplySuccess, ApplyExcluded, ApplyTransient, Closed, Open
  <1> QED
    BY <1>3, <1>4, <1>6, <1>7, <1>8, <1>9

\* A step that changes nothing here keeps the invariant.
LEMMA StutterKeepsIInv ==
    ASSUME IInv, UNCHANGED vars
    PROVE  IInv'
  BY DEF IInv, TypeOK, PermitAccounting, ProbeOwnsHalfOpen, PermitsNotFromFuture,
         OpenLeavesRoom, ClosedForgetsBackoff, Outstanding, Current, vars, guard_vars, permit_vars

\* The open interval runs down.
LEMMA TickKeepsIInv ==
    ASSUME IInv, Tick
    PROVE  IInv'
  <1> USE DEF IInv
  <1>1. TypeOK'
    BY OpenAssumption DEF TypeOK, Tick, permit_vars
  <1>2. /\ PermitAccounting' /\ PermitsNotFromFuture' /\ ProbeOwnsHalfOpen'
        /\ OpenLeavesRoom' /\ ClosedForgetsBackoff'
    BY DEF PermitAccounting, PermitsNotFromFuture, ProbeOwnsHalfOpen, OpenLeavesRoom,
           ClosedForgetsBackoff, Outstanding, Current, Tick, permit_vars
  <1> QED
    BY <1>1, <1>2

\* Every step keeps the invariant.
LEMMA StepKeepsIInv == IInv /\ [Next]_vars => IInv'
  BY AdmitKeepsIInv, AdmitCancelledKeepsIInv, RecordKeepsIInv, CompleteAttemptKeepsIInv,
     TickKeepsIInv, StutterKeepsIInv
  DEF Next

-----------------------------------------------------------------------------
\* The inductive invariant holds throughout.
THEOREM Invariance == Spec => []IInv
  BY InitEstablishesIInv, StepKeepsIInv, PTL DEF Spec

\* Every variable of the guard keeps its type; in particular an open interval
\* never exceeds max_open_seconds.
THEOREM TypeCorrect == Spec => []TypeOK
  <1>1. IInv => TypeOK
    BY DEF IInv
  <1> QED
    BY Invariance, <1>1, PTL

\* admit and complete_attempt count every outstanding permit exactly once and
\* never exceed the bulkhead, for any capacity and any number of attempts.
THEOREM PermitsAccounted == Spec => []PermitAccounting
  <1>1. IInv => PermitAccounting
    BY DEF IInv
  <1> QED
    BY Invariance, <1>1, PTL

\* Half-open means exactly one current attempt, the probe; open means none.
THEOREM ProbeUnique == Spec => []ProbeOwnsHalfOpen
  <1>1. IInv => ProbeOwnsHalfOpen
    BY DEF IInv
  <1> QED
    BY Invariance, <1>1, PTL

\* Attempts that outlive the circuit's opening never keep the probe out.
THEOREM RoomForProbe == Spec => []OpenLeavesRoom
  <1>1. IInv => OpenLeavesRoom
    BY DEF IInv
  <1> QED
    BY Invariance, <1>1, PTL

\* A late outcome of an attempt that is not the probe never settles a half-open
\* circuit.
THEOREM ProbeSettles == Spec => OnlyTheProbeSettles
  <1> DEFINE Settles ==
        (circuit = "half_open" /\ circuit' # "half_open") =>
          \E a \in Attempts : /\ phase[a] = "recording" /\ phase'[a] = "idle"
                             /\ probe[a] /\ permit_gen[a] = generation
  <1>1. IInv /\ [Next]_vars => [Settles]_vars
    <2> SUFFICES ASSUME IInv, Next, circuit = "half_open", circuit' # "half_open"
                 PROVE  \E a \in Attempts : /\ phase[a] = "recording" /\ phase'[a] = "idle"
                                           /\ probe[a] /\ permit_gen[a] = generation
      OBVIOUS
    <2>1. PICK a \in Attempts : CompleteAttempt(a)
      BY DEF Next, Admit, AdmitCancelled, Admissible, Record, Tick, vars, guard_vars
    <2>2. permit_gen[a] = generation
      BY <2>1 DEF CompleteAttempt
    <2>3. probe[a]
      BY <2>1, <2>2 DEF IInv, ProbeOwnsHalfOpen, Current, CompleteAttempt
    <2>4. phase[a] = "recording" /\ phase'[a] = "idle"
      BY <2>1 DEF CompleteAttempt, IInv, TypeOK
    <2> QED
      BY <2>2, <2>3, <2>4
  <1> QED
    BY Invariance, <1>1, PTL DEF Spec, OnlyTheProbeSettles

\* The exponential backoff only starts over after a successful probe.
THEOREM BackoffMonotone == Spec => BackoffKept
  <1> DEFINE Reset ==
        reopen_count' < reopen_count =>
          \E a \in Attempts : /\ phase[a] = "recording" /\ phase'[a] = "idle"
                             /\ probe[a] /\ outcome[a] = "success"
                             /\ circuit = "half_open"
  <1>1. IInv /\ [Next]_vars => [Reset]_vars
    <2> SUFFICES ASSUME IInv, Next, reopen_count' < reopen_count
                 PROVE  \E a \in Attempts : /\ phase[a] = "recording" /\ phase'[a] = "idle"
                                           /\ probe[a] /\ outcome[a] = "success"
                                           /\ circuit = "half_open"
      OBVIOUS
    <2> USE DEF IInv
    <2>1. PICK a \in Attempts : CompleteAttempt(a)
      BY DEF Next, Admit, AdmitCancelled, Record, Tick, HalfOpen, Open, vars,
             guard_vars, TypeOK
    <2>2. permit_gen[a] = generation /\ Apply(a)
      BY <2>1 DEF CompleteAttempt, TypeOK
    <2>3. circuit # "closed"
      BY <2>2 DEF Apply, ApplySuccess, ApplyExcluded, ApplyTransient, Closed, Open,
                  ClosedForgetsBackoff, TypeOK
    <2>4. circuit = "half_open" /\ probe[a]
      BY <2>1, <2>2, <2>3 DEF ProbeOwnsHalfOpen, Current, CompleteAttempt, TypeOK
    <2>5. outcome[a] = "success"
      BY <2>2, <2>4 DEF Apply, ApplyExcluded, ApplyTransient, Open, TypeOK
    <2> QED
      BY <2>1, <2>4, <2>5 DEF CompleteAttempt, TypeOK
  <1> QED
    BY Invariance, <1>1, PTL DEF Spec, BackoffKept

\* The counter with its generations implements the abstract pool of permits.
THEOREM PoolImplemented == Spec => ImplementsPermitPool
  <1>1. Init => Pool!Init
    BY DEF Init, Pool!Init, Outstanding
  <1>2. IInv /\ [Next]_vars => [Pool!Next]_Outstanding
    <2> SUFFICES ASSUME IInv, Next
                 PROVE  [Pool!Next]_Outstanding
      BY DEF Outstanding, vars, permit_vars
    <2>1. ASSUME NEW a \in Attempts, Admit(a)
          PROVE  Pool!Acquire(a)
      <3>1. Outstanding' = Outstanding \cup {a} /\ a \notin Outstanding
        BY <2>1, OutstandingAfterAdmit DEF IInv, Admit, Outstanding
      <3>2. Cardinality(Outstanding) < Capacity
        BY <2>1 DEF IInv, PermitAccounting, Admit, Admissible
      <3> QED
        BY <3>1, <3>2, Zenon DEF Pool!Acquire, Pool!Cardinality, Cardinality
    <2>2. ASSUME NEW a \in Attempts, CompleteAttempt(a)
          PROVE  Pool!Release(a)
      <3>1. Outstanding' = Outstanding \ {a} /\ a \in Outstanding
        BY <2>2, OutstandingAfterComplete DEF IInv, CompleteAttempt, Outstanding
      <3> QED
        BY <3>1 DEF Pool!Release
    <2>3. ASSUME NEW a \in Attempts, AdmitCancelled(a)
          PROVE  UNCHANGED Outstanding
      BY <2>3 DEF AdmitCancelled, Outstanding, permit_vars
    <2>4. ASSUME NEW a \in Attempts, NEW o \in Outcomes, Record(a, o)
          PROVE  UNCHANGED Outstanding
      BY <2>4 DEF Record, Outstanding, IInv, TypeOK
    <2>5. CASE Tick
      BY <2>5 DEF Tick, Outstanding, vars, permit_vars
    <2> QED
      BY <2>1, <2>2, <2>3, <2>4, <2>5 DEF Next, Pool!Next
  <1> QED
    BY Invariance, <1>1, <1>2, PTL DEF Spec, ImplementsPermitPool, Pool!Spec
=============================================================================
