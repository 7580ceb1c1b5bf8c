----------------------------- MODULE BoundedWork -----------------------------
(***************************************************************************)
(* BoundedThreadRunner (bounded_work.py) and the AdmissionGate             *)
(* (admission.py) inside it: synchronous calls run on a pool of threads,   *)
(* each behind a permit that nobody waits for.  A thread cannot be         *)
(* cancelled, its caller can: the permit therefore follows the thread, and *)
(* run_to_completion keeps its caller until the thread is done, since the  *)
(* caller unlinks staged files the thread may be writing.                  *)
(*                                                                         *)
(* Three parties interleave: the caller's task, the worker thread, and the *)
(* callbacks of the finished future, which run on the worker thread one    *)
(* after the other (_release_permit, then for run_to_completion the event  *)
(* that wakes the caller).  The pool has as many threads as the gate has   *)
(* permits, but a thread still busy with callbacks has given its permit    *)
(* back.                                                                   *)
(***************************************************************************)
EXTENDS Integers, FiniteSets, Sequences

CONSTANTS
    Calls,      \* calls of run and of run_to_completion
    Kept,       \* those of run_to_completion
    Capacity    \* permits, and threads

ASSUME CallsAssumption == IsFiniteSet(Calls) /\ Kept \subseteq Calls
ASSUME CapacityAssumption == Capacity \in Nat \ {0}

VARIABLES
    active,     \* AdmissionGate._active
    queue,      \* the executor's FIFO queue of submitted work
    work,       \* where the operation of each call is
    completed,  \* whether its caller has been woken (call_soon_threadsafe)
    caller      \* what its caller does

vars == <<active, queue, work, completed, caller>>

\* "queued": submitted; "running": on a thread; "finished": the future is done
\* and its callbacks are to run; "released": the permit is back.
Works == {"none", "queued", "running", "finished", "released"}
\* "waiting": for the future; "draining": cancelled, and waiting for the event.
Callers == {"idle", "waiting", "draining"}

TypeOK ==
    /\ active \in 0..Capacity
    /\ queue \in Seq(Calls)
    /\ work \in [Calls -> Works]
    /\ completed \in [Calls -> BOOLEAN]
    /\ caller \in [Calls -> Callers]

Init ==
    /\ active = 0
    /\ queue = <<>>
    /\ work = [c \in Calls |-> "none"]
    /\ completed = [c \in Calls |-> FALSE]
    /\ caller = [c \in Calls |-> "idle"]

\* Future.done().
Done(c) == work[c] \notin {"queued", "running"}
Threads == {c \in Calls : work[c] \in {"running", "finished", "released"}}

-----------------------------------------------------------------------------
\* Faulty variant: the gate compares the wrong way round at its limit.
Submit_off_by_one(c) ==
    /\ caller[c] = "idle" /\ work[c] = "none"
    /\ active <= Capacity
    /\ active' = active + 1
    /\ queue' = Append(queue, c)
    /\ work' = [work EXCEPT ![c] = "queued"]
    /\ completed' = [completed EXCEPT ![c] = FALSE]
    /\ caller' = [caller EXCEPT ![c] = "waiting"]

\* try_acquire and submit.  A full gate raises BlockingWorkCapacityError, and
\* a submit that raises gives the permit back: both leave nothing behind.
Submit(c) ==
    /\ caller[c] = "idle" /\ work[c] = "none"
    /\ active < Capacity
    /\ active' = active + 1
    /\ queue' = Append(queue, c)
    /\ work' = [work EXCEPT ![c] = "queued"]
    /\ completed' = [completed EXCEPT ![c] = FALSE]
    /\ caller' = [caller EXCEPT ![c] = "waiting"]

\* A free thread takes the work submitted first, and returns or raises.
Start(c) ==
    /\ queue # <<>> /\ c = Head(queue)
    /\ Cardinality(Threads) < Capacity
    /\ queue' = Tail(queue)
    /\ work' = [work EXCEPT ![c] = "running"]
    /\ UNCHANGED <<active, completed, caller>>

Finish(c) ==
    /\ work[c] = "running"
    /\ work' = [work EXCEPT ![c] = "finished"]
    /\ UNCHANGED <<active, queue, completed, caller>>

\* _release_permit, AdmissionGate.release: an unbalanced release raises, and
\* the future logs what its callbacks raise.
ReleasePermit(c) ==
    /\ work[c] = "finished"
    /\ active' = IF active > 0 THEN active - 1 ELSE active
    /\ work' = [work EXCEPT ![c] = "released"]
    /\ UNCHANGED <<queue, completed, caller>>

\* Faulty variant: only a caller that still waits for the result is woken.
Notify_forgets_cancelled(c) ==
    /\ work[c] = "released"
    /\ completed' = [completed EXCEPT ![c] = caller[c] = "waiting"]
    /\ work' = [work EXCEPT ![c] = "none"]
    /\ UNCHANGED <<active, queue, caller>>

\* The callbacks that wake the caller; then the thread is free again.
Notify(c) ==
    /\ work[c] = "released"
    /\ completed' = [completed EXCEPT ![c] = TRUE]
    /\ work' = [work EXCEPT ![c] = "none"]
    /\ UNCHANGED <<active, queue, caller>>

-----------------------------------------------------------------------------
\* The caller gets the result.
Return(c) ==
    /\ caller[c] = "waiting"
    /\ completed[c]
    /\ caller' = [caller EXCEPT ![c] = "idle"]
    /\ UNCHANGED <<active, queue, work, completed>>

\* Faulty variant: the cancelled caller gives the permit back itself.
Cancel_releases(c) ==
    /\ caller[c] = "waiting"
    /\ caller' = [caller EXCEPT ![c] = IF c \in Kept /\ ~Done(c) THEN "draining" ELSE "idle"]
    /\ active' = IF Done(c) THEN active ELSE active - 1
    /\ UNCHANGED <<queue, work, completed>>

\* Faulty variant: the cancelled caller leaves at once.
Cancel_leaves(c) ==
    /\ caller[c] = "waiting"
    /\ caller' = [caller EXCEPT ![c] = "idle"]
    /\ UNCHANGED <<active, queue, work, completed>>

\* The caller is cancelled.  The future is shielded; run leaves at once,
\* run_to_completion leaves if the operation is done.
Cancel(c) ==
    /\ caller[c] = "waiting"
    /\ caller' = [caller EXCEPT ![c] = IF c \in Kept /\ ~Done(c) THEN "draining" ELSE "idle"]
    /\ UNCHANGED <<active, queue, work, completed>>

\* The loop around completed.wait(): woken by the event, or by another
\* cancellation, it leaves if the operation is done.
Drain(c) ==
    /\ caller[c] = "draining"
    /\ Done(c)
    /\ caller' = [caller EXCEPT ![c] = "idle"]
    /\ UNCHANGED <<active, queue, work, completed>>

Next ==
    \E c \in Calls :
        \/ Submit(c) \/ Start(c) \/ Finish(c) \/ ReleasePermit(c) \/ Notify(c)
        \/ Return(c) \/ Cancel(c) \/ Drain(c)

Spec == Init /\ [][Next]_vars

\* Threads run, the operations are finite (files, bounded parsing, a resolver
\* with its own timeout), and the event loop runs a caller that was woken.
Fairness ==
    \A c \in Calls :
        /\ WF_vars(Start(c) \/ Finish(c) \/ ReleasePermit(c) \/ Notify(c))
        /\ WF_vars(completed[c] /\ (Return(c) \/ Drain(c)))

FairSpec == Spec /\ Fairness

-----------------------------------------------------------------------------
(***************************************************************************)
(* Properties                                                              *)
(***************************************************************************)

Unfinished == {c \in Calls : work[c] \in {"queued", "running", "finished"}}

\* A permit is held from submit until the operation is over, whoever cancels
\* the call in between: "retain capacity after caller cancellation".
PermitsFollowWork == active = Cardinality(Unfinished)

\* Nobody queues behind an operation: an admitted call whose thread is not yet
\* free waits for the callbacks of finished operations only, because what is
\* queued or running never exceeds the threads.
NoneQueuesBehindWork ==
    Cardinality({c \in Calls : work[c] \in {"queued", "running"}}) <= Capacity

\* "Keep the caller alive until storage state is safe to abandon": the caller
\* of run_to_completion is there as long as its operation may still write.
CallerOutlivesWork ==
    \A c \in Kept : work[c] \in {"queued", "running"} => caller[c] # "idle"

Pool == INSTANCE PermitPool WITH Clients <- Calls, holders <- Unfinished

\* The gate implements the abstract pool of permits.
ImplementsPermitPool == Pool!Spec

\* Every caller leaves, also one that was cancelled before, while or after its
\* operation finished.
CallersLeave == \A c \in Calls : caller[c] # "idle" ~> caller[c] = "idle"
=============================================================================
