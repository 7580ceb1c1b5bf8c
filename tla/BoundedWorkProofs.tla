-------------------------- MODULE BoundedWorkProofs --------------------------
(***************************************************************************)
(* The safety of BoundedThreadRunner for any number of calls and threads.  *)
(*                                                                         *)
(* A thread takes the head of the queue, so that its step only moves work  *)
(* that was "queued" has to be part of the invariant (QueueHolds).  A      *)
(* caller that gets its result leaves without looking at the future: it    *)
(* may, because nobody is woken before the operation is over               *)
(* (WokenAfterWork).                                                       *)
(***************************************************************************)
EXTENDS BoundedWork, FiniteSetTheorems, TLAPS

\* The queue holds the calls whose operation is queued, each once.
QueueHolds ==
    /\ \A i \in 1..Len(queue) : work[queue[i]] = "queued"
    /\ \A i, j \in 1..Len(queue) : queue[i] = queue[j] => i = j

\* Who has been woken has no operation that could still run.
WokenAfterWork == \A c \in Calls : completed[c] => work[c] = "none"

IInv == TypeOK /\ QueueHolds /\ WokenAfterWork /\ PermitsFollowWork /\ CallerOutlivesWork

USE DEF Works, Callers

-----------------------------------------------------------------------------
\* The calls that hold a permit are finitely many.
LEMMA UnfinishedFinite ==
    /\ IsFiniteSet(Unfinished)
    /\ Cardinality(Unfinished) \in Nat
  <1>1. IsFiniteSet(Unfinished)
    BY CallsAssumption, FS_Subset DEF Unfinished
  <1> QED
    BY <1>1, FS_CardinalityType

\* submit adds one call to those that hold a permit.
LEMMA SubmitCounts ==
    ASSUME TypeOK, NEW c \in Calls, Submit(c)
    PROVE  /\ Unfinished' = Unfinished \cup {c} /\ c \notin Unfinished
           /\ Cardinality(Unfinished') = Cardinality(Unfinished) + 1
  <1>1. Unfinished' = Unfinished \cup {c} /\ c \notin Unfinished
    BY DEF Unfinished, TypeOK, Submit
  <1> QED
    BY <1>1, UnfinishedFinite, FS_AddElement

\* The done callback takes one call away.
LEMMA ReleaseCounts ==
    ASSUME TypeOK, NEW c \in Calls, ReleasePermit(c)
    PROVE  /\ Unfinished' = Unfinished \ {c} /\ c \in Unfinished
           /\ Cardinality(Unfinished') = Cardinality(Unfinished) - 1
           /\ Cardinality(Unfinished) > 0
  <1>1. Unfinished' = Unfinished \ {c} /\ c \in Unfinished
    BY DEF Unfinished, TypeOK, ReleasePermit
  <1>2. Cardinality(Unfinished') = Cardinality(Unfinished) - 1
    BY <1>1, UnfinishedFinite, FS_RemoveElement
  <1>3. Cardinality(Unfinished') \in Nat
    BY <1>1, <1>2, UnfinishedFinite, FS_RemoveElement, FS_CardinalityType
  <1> QED
    BY <1>1, <1>2, <1>3, UnfinishedFinite

\* A thread that takes the head of the queue moves work that was queued.
LEMMA StartTakesQueued ==
    ASSUME TypeOK, QueueHolds, NEW c \in Calls, Start(c)
    PROVE  work[c] = "queued" /\ QueueHolds' /\ queue' \in Seq(Calls)
  <1>1. queue \in Seq(Calls) /\ queue # <<>> /\ c = queue[1] /\ Len(queue) >= 1
    BY DEF TypeOK, Start
  <1>2. /\ queue' \in Seq(Calls)
        /\ Len(queue') = Len(queue) - 1
        /\ \A i \in 1..Len(queue') : queue'[i] = queue[i + 1]
    BY <1>1 DEF Start
  <1>3. work[c] = "queued"
    BY <1>1 DEF QueueHolds
  <1>4. \A i \in 1..Len(queue') : queue'[i] # c /\ queue'[i] \in Calls
    BY <1>1, <1>2 DEF QueueHolds
  <1>5. \A i \in 1..Len(queue') : work'[queue'[i]] = "queued"
    BY <1>1, <1>2, <1>4 DEF QueueHolds, Start, TypeOK
  <1>6. \A i, j \in 1..Len(queue') : queue'[i] = queue'[j] => i = j
    BY <1>1, <1>2 DEF QueueHolds
  <1> QED
    BY <1>2, <1>3, <1>5, <1>6 DEF QueueHolds

\* Work that is queued before and after a step that leaves the queue alone
\* keeps the queue sound.
LEMMA QueueKept ==
    ASSUME TypeOK, QueueHolds, NEW c \in Calls, queue' = queue,
           work[c] # "queued", NEW s, work' = [work EXCEPT ![c] = s]
    PROVE  QueueHolds'
  BY DEF TypeOK, QueueHolds

-----------------------------------------------------------------------------
\* A new runner satisfies the invariant.
LEMMA InitEstablishesIInv == Init => IInv
  <1> SUFFICES ASSUME Init PROVE IInv
    OBVIOUS
  <1>1. TypeOK
    BY CapacityAssumption DEF Init, TypeOK
  <1>2. Unfinished = {}
    BY DEF Init, Unfinished
  <1>3. PermitsFollowWork
    BY <1>2, FS_EmptySet DEF Init, PermitsFollowWork
  <1>4. QueueHolds
    BY DEF Init, QueueHolds
  <1>5. CallerOutlivesWork /\ WokenAfterWork
    BY CallsAssumption DEF Init, CallerOutlivesWork, WokenAfterWork
  <1> QED
    BY <1>1, <1>3, <1>4, <1>5 DEF IInv

\* Every step of a caller, of a thread or of a callback keeps it.
LEMMA StepKeepsIInv == IInv /\ [Next]_vars => IInv'
  <1> SUFFICES ASSUME IInv, [Next]_vars PROVE IInv'
    OBVIOUS
  <1> USE DEF IInv
  <1>1. ASSUME NEW c \in Calls, Submit(c) PROVE IInv'
    <2>1. TypeOK'
      BY <1>1, CapacityAssumption DEF TypeOK, Submit
    <2>2. QueueHolds'
      <3>1. /\ queue \in Seq(Calls)
            /\ Len(queue') = Len(queue) + 1
            /\ \A i \in 1..Len(queue) : queue'[i] = queue[i] /\ queue[i] \in Calls
            /\ queue'[Len(queue) + 1] = c
        BY <1>1 DEF TypeOK, Submit
      <3>2. \A i \in 1..Len(queue) : queue[i] # c
        BY <1>1, <3>1 DEF QueueHolds, Submit
      <3>3. \A i \in 1..Len(queue') : work'[queue'[i]] = "queued"
        BY <1>1, <3>1, <3>2 DEF QueueHolds, Submit, TypeOK
      <3>4. \A i, j \in 1..Len(queue') : queue'[i] = queue'[j] => i = j
        BY <3>1, <3>2 DEF QueueHolds
      <3> QED
        BY <3>3, <3>4 DEF QueueHolds
    <2>3. PermitsFollowWork'
      BY <1>1, SubmitCounts DEF PermitsFollowWork, Submit
    <2>4. CallerOutlivesWork' /\ WokenAfterWork'
      BY <1>1, CallsAssumption DEF CallerOutlivesWork, WokenAfterWork, Submit, TypeOK
    <2> QED
      BY <2>1, <2>2, <2>3, <2>4
  <1>2. ASSUME NEW c \in Calls, Start(c) PROVE IInv'
    <2>1. work[c] = "queued" /\ QueueHolds' /\ queue' \in Seq(Calls)
      BY <1>2, StartTakesQueued
    <2>2. TypeOK'
      BY <1>2, <2>1 DEF TypeOK, Start
    <2>3. Unfinished' = Unfinished
      BY <1>2, <2>1 DEF Unfinished, Start, TypeOK
    <2>4. PermitsFollowWork'
      BY <1>2, <2>3 DEF PermitsFollowWork, Start
    <2>5. CallerOutlivesWork' /\ WokenAfterWork'
      BY <1>2, <2>1, CallsAssumption DEF CallerOutlivesWork, WokenAfterWork, Start, TypeOK
    <2> QED
      BY <2>1, <2>2, <2>4, <2>5
  <1>3. ASSUME NEW c \in Calls, Finish(c) PROVE IInv'
    <2>1. TypeOK'
      BY <1>3 DEF TypeOK, Finish
    <2>2. QueueHolds'
      BY <1>3, QueueKept DEF Finish
    <2>3. Unfinished' = Unfinished
      BY <1>3 DEF Unfinished, Finish, TypeOK
    <2>4. PermitsFollowWork'
      BY <1>3, <2>3 DEF PermitsFollowWork, Finish
    <2>5. CallerOutlivesWork' /\ WokenAfterWork'
      BY <1>3, CallsAssumption DEF CallerOutlivesWork, WokenAfterWork, Finish, TypeOK
    <2> QED
      BY <2>1, <2>2, <2>4, <2>5
  <1>4. ASSUME NEW c \in Calls, ReleasePermit(c) PROVE IInv'
    <2>1. TypeOK'
      BY <1>4, CapacityAssumption DEF TypeOK, ReleasePermit
    <2>2. QueueHolds'
      BY <1>4, QueueKept DEF ReleasePermit
    <2>3. PermitsFollowWork'
      BY <1>4, ReleaseCounts DEF PermitsFollowWork, ReleasePermit, TypeOK
    <2>4. CallerOutlivesWork' /\ WokenAfterWork'
      BY <1>4, CallsAssumption DEF CallerOutlivesWork, WokenAfterWork, ReleasePermit, TypeOK
    <2> QED
      BY <2>1, <2>2, <2>3, <2>4
  <1>5. ASSUME NEW c \in Calls, Notify(c) PROVE IInv'
    <2>1. TypeOK'
      BY <1>5 DEF TypeOK, Notify
    <2>2. QueueHolds'
      BY <1>5, QueueKept DEF Notify
    <2>3. Unfinished' = Unfinished
      BY <1>5 DEF Unfinished, Notify, TypeOK
    <2>4. PermitsFollowWork'
      BY <1>5, <2>3 DEF PermitsFollowWork, Notify
    <2>5. CallerOutlivesWork' /\ WokenAfterWork'
      BY <1>5, CallsAssumption DEF CallerOutlivesWork, WokenAfterWork, Notify, TypeOK
    <2> QED
      BY <2>1, <2>2, <2>4, <2>5
  <1>6. ASSUME NEW c \in Calls, Return(c) \/ Cancel(c) \/ Drain(c) PROVE IInv'
    <2>1. TypeOK'
      BY <1>6 DEF TypeOK, Return, Cancel, Drain
    <2>2. UNCHANGED <<active, queue, work>>
      BY <1>6 DEF Return, Cancel, Drain
    <2>3. QueueHolds' /\ PermitsFollowWork'
      BY <2>2 DEF QueueHolds, PermitsFollowWork, Unfinished
    <2>4. CallerOutlivesWork' /\ WokenAfterWork'
      BY <1>6, CallsAssumption DEF CallerOutlivesWork, WokenAfterWork, Return, Cancel,
                                    Drain, Done, TypeOK
    <2> QED
      BY <2>1, <2>3, <2>4
  <1>7. CASE UNCHANGED vars
    BY <1>7 DEF vars, TypeOK, QueueHolds, WokenAfterWork, PermitsFollowWork,
                Unfinished, CallerOutlivesWork
  <1> QED
    BY <1>1, <1>2, <1>3, <1>4, <1>5, <1>6, <1>7 DEF Next

\* The invariant of the runner.
THEOREM Invariance == Spec => []IInv
  BY InitEstablishesIInv, StepKeepsIInv, PTL DEF Spec

-----------------------------------------------------------------------------
\* The counter stays within the capacity, the queue holds calls.
THEOREM TypeCorrect == Spec => []TypeOK
  BY Invariance, PTL DEF IInv

\* A cancelled caller never frees the capacity its operation still uses:
\* AdmissionGate counts exactly the operations that are not over.
THEOREM CapacityFollowsWork == Spec => []PermitsFollowWork
  BY Invariance, PTL DEF IInv

\* run_to_completion never returns while its operation may still write.
THEOREM StorageSafeToAbandon == Spec => []CallerOutlivesWork
  BY Invariance, PTL DEF IInv

\* What is queued or running never exceeds the threads of the pool.
THEOREM AdmittedMeansRunning == Spec => []NoneQueuesBehindWork
  <1> DEFINE Pending == {c \in Calls : work[c] \in {"queued", "running"}}
  <1>1. IInv => NoneQueuesBehindWork
    <2> SUFFICES ASSUME IInv PROVE Cardinality(Pending) <= Capacity
      BY DEF NoneQueuesBehindWork
    <2>1. Pending \subseteq Unfinished
      BY DEF Unfinished
    <2>2. Cardinality(Pending) <= Cardinality(Unfinished) /\ Cardinality(Pending) \in Nat
      <3> HIDE DEF Pending
      <3> QED
        BY <2>1, UnfinishedFinite, FS_Subset, FS_CardinalityType
    <2> QED
      BY <2>2, CapacityAssumption DEF IInv, PermitsFollowWork, TypeOK
  <1> QED
    BY Invariance, <1>1, PTL

\* The gate with its done callbacks implements the abstract pool of permits.
THEOREM PoolImplemented == Spec => ImplementsPermitPool
  <1>1. Init => Pool!Init
    BY DEF Init, Pool!Init, Unfinished
  <1>2. IInv /\ [Next]_vars => [Pool!Next]_Unfinished
    <2> SUFFICES ASSUME IInv, Next PROVE [Pool!Next]_Unfinished
      BY DEF Unfinished, vars
    <2>1. ASSUME NEW c \in Calls, Submit(c) PROVE Pool!Acquire(c)
      <3>1. Unfinished' = Unfinished \cup {c} /\ c \notin Unfinished
        BY <2>1, SubmitCounts DEF IInv
      <3>2. Cardinality(Unfinished) < Capacity
        BY <2>1 DEF IInv, PermitsFollowWork, Submit
      <3> QED
        BY <3>1, <3>2, Zenon DEF Pool!Acquire, Pool!Cardinality, Cardinality
    <2>2. ASSUME NEW c \in Calls, ReleasePermit(c) PROVE Pool!Release(c)
      BY <2>2, ReleaseCounts DEF IInv, Pool!Release
    <2>3. ASSUME NEW c \in Calls, Start(c) PROVE UNCHANGED Unfinished
      BY <2>3, StartTakesQueued DEF IInv, TypeOK, Start, Unfinished
    <2>4. ASSUME NEW c \in Calls, Finish(c) \/ Notify(c) PROVE UNCHANGED Unfinished
      BY <2>4 DEF IInv, TypeOK, Finish, Notify, Unfinished
    <2>5. ASSUME NEW c \in Calls, Return(c) \/ Cancel(c) \/ Drain(c)
          PROVE  UNCHANGED Unfinished
      BY <2>5 DEF Return, Cancel, Drain, Unfinished
    <2> QED
      BY <2>1, <2>2, <2>3, <2>4, <2>5 DEF Next, Pool!Next
  <1> QED
    BY Invariance, <1>1, <1>2, PTL DEF Spec, ImplementsPermitPool, Pool!Spec
=============================================================================
