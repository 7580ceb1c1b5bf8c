--------------------------- MODULE UpstreamGuard ----------------------------
(***************************************************************************)
(* The bulkhead and circuit breaker in front of the NPLG repository        *)
(* (resilience.py), shared by NplgRepository and Downloader.               *)
(*                                                                         *)
(* An attempt is one task between UpstreamGuard.admit and the end of       *)
(* complete_attempt.  admit and complete_attempt run under the guard's     *)
(* asyncio lock with no await inside, so each is one action.  Recording an *)
(* outcome is two steps: AttemptPermit._record starts complete_attempt as  *)
(* a task of its own, and other attempts may run before that task does.    *)
(* Cancelling the recording task never cancels the completion task (it is  *)
(* shielded and awaited again), so a cancellation changes the outcome that *)
(* is recorded ("excluded", from _PermitContext.__aexit__), never whether  *)
(* one is recorded.                                                        *)
(*                                                                         *)
(* Time is kept as retry_in = max(0, retry_at - now) in clock ticks: the   *)
(* code only ever compares retry_at with the clock.                        *)
(***************************************************************************)
EXTENDS Integers, FiniteSets

CONSTANTS
    Attempts,           \* tasks that may hold an AttemptPermit
    Capacity,           \* UpstreamGuardPolicy.capacity
    FailureThreshold,   \* UpstreamGuardPolicy.failure_threshold
    BaseOpen,           \* UpstreamGuardPolicy.base_open_seconds, in ticks
    MaxOpen,            \* UpstreamGuardPolicy.max_open_seconds, in ticks
    JitterPercent,      \* UpstreamGuardPolicy.jitter_ratio, in percent
    MaxGeneration       \* bound: no attempt is admitted at this generation

\* UpstreamGuardPolicy.__post_init__
ASSUME AttemptsAssumption == IsFiniteSet(Attempts)
ASSUME CapacityAssumption == Capacity \in Nat \ {0}
ASSUME ThresholdAssumption == FailureThreshold \in Nat \ {0}
ASSUME OpenAssumption == BaseOpen \in Nat \ {0} /\ MaxOpen \in Nat /\ BaseOpen <= MaxOpen
ASSUME JitterAssumption == JitterPercent \in 0..50
ASSUME MaxGenerationAssumption == MaxGeneration \in Nat

VARIABLES
    active,         \* _active: permits held
    generation,     \* _generation: bumped by every change of the circuit
    circuit,        \* the class of _state
    failures,       \* Closed.consecutive_failures (0 unless closed)
    retry_in,       \* ticks until Open/HalfOpen.retry_at (0 when closed)
    reopen_count,   \* Open/HalfOpen.reopen_count (0 when closed)
    phase,          \* where each attempt is
    probe,          \* AttemptPermit._probe
    permit_gen,     \* AttemptPermit._generation
    outcome         \* the outcome whose completion task is pending

guard_vars == <<active, generation, circuit, failures, retry_in, reopen_count>>
permit_vars == <<phase, probe, permit_gen, outcome>>
vars == <<guard_vars, permit_vars>>

Phases == {"idle", "admitted", "recording"}
Outcomes == {"success", "transient", "excluded"}

Outstanding == {a \in Attempts : phase[a] # "idle"}
Current(a) == phase[a] # "idle" /\ permit_gen[a] = generation

TypeOK ==
    /\ active \in Nat
    /\ generation \in Nat
    /\ circuit \in {"closed", "open", "half_open"}
    /\ failures \in Nat
    /\ retry_in \in 0..MaxOpen
    /\ reopen_count \in Nat
    /\ phase \in [Attempts -> Phases]
    /\ probe \in [Attempts -> BOOLEAN]
    /\ permit_gen \in [Attempts -> Nat]
    /\ outcome \in [Attempts -> Outcomes \cup {"none"}]

Init ==
    /\ active = 0
    /\ generation = 0
    /\ circuit = "closed"
    /\ failures = 0
    /\ retry_in = 0
    /\ reopen_count = 0
    /\ phase = [a \in Attempts |-> "idle"]
    /\ probe = [a \in Attempts |-> FALSE]
    /\ permit_gen = [a \in Attempts |-> 0]
    /\ outcome = [a \in Attempts |-> "none"]

-----------------------------------------------------------------------------
\* The classes of CircuitState.  _set_state calls the observer after the
\* state is assigned and swallows its exceptions.
Closed(n) ==
    /\ circuit' = "closed"
    /\ failures' = n
    /\ retry_in' = 0
    /\ reopen_count' = 0

Open(ticks, n) ==
    /\ circuit' = "open"
    /\ failures' = 0
    /\ retry_in' = ticks
    /\ reopen_count' = n

HalfOpen ==
    /\ circuit' = "half_open"
    /\ UNCHANGED <<failures, retry_in, reopen_count>>

\* Faulty variant: the cap is applied before the jitter only.
OpenInterval_uncapped(n) ==
    LET exponent == IF n > 30 THEN 30 ELSE IF n < 1 THEN 0 ELSE n - 1
        grown == BaseOpen * 2^exponent
        baseline == IF grown < MaxOpen THEN grown ELSE MaxOpen
    IN {i \in 1..2 * MaxOpen : /\ 100 * i >= baseline * (100 - JitterPercent)
                               /\ 100 * i <= baseline * (100 + JitterPercent)}

\* _open_interval: exponential in reopen_count, capped, with bounded jitter.
OpenInterval(n) ==
    LET exponent == IF n > 30 THEN 30 ELSE IF n < 1 THEN 0 ELSE n - 1
        grown == BaseOpen * 2^exponent
        baseline == IF grown < MaxOpen THEN grown ELSE MaxOpen
    IN {i \in 1..MaxOpen : /\ 100 * i >= baseline * (100 - JitterPercent)
                           /\ 100 * i <= baseline * (100 + JitterPercent)}

-----------------------------------------------------------------------------
\* Faulty variant: the bulkhead check is off by one.
Admissible_off_by_one ==
    /\ circuit # "half_open"
    /\ circuit = "open" => retry_in = 0
    /\ active <= Capacity

\* The conditions under which admit does not raise UpstreamUnavailableError.
Admissible ==
    /\ circuit # "half_open"
    /\ circuit = "open" => retry_in = 0
    /\ active < Capacity

\* admit with the circuit closed or ready to probe.  A refusal (deadline
\* expired, circuit not admissible) changes nothing.
Admit(a) ==
    /\ phase[a] = "idle"
    /\ generation < MaxGeneration
    /\ Admissible
    /\ active' = active + 1
    /\ LET trial == circuit = "open"
           now_gen == IF trial THEN generation + 1 ELSE generation
       IN /\ generation' = now_gen
          /\ IF trial
             THEN HalfOpen
             ELSE UNCHANGED <<circuit, failures, retry_in, reopen_count>>
          /\ probe' = [probe EXCEPT ![a] = trial]
          /\ permit_gen' = [permit_gen EXCEPT ![a] = now_gen]
    /\ phase' = [phase EXCEPT ![a] = "admitted"]
    /\ UNCHANGED outcome

\* Faulty variant: the cancelled admission keeps its permit.
AdmitCancelled_leaks(a) ==
    /\ phase[a] = "idle"
    /\ generation < MaxGeneration
    /\ Admissible
    /\ circuit = "open"
    /\ active' = active + 1
    /\ generation' = generation + 2
    /\ Open(0, reopen_count)
    /\ UNCHANGED permit_vars

\* Faulty variant: the cancelled admission reopens with a fresh backoff.
AdmitCancelled_forgets(a) ==
    /\ phase[a] = "idle"
    /\ generation < MaxGeneration
    /\ Admissible
    /\ circuit = "open"
    /\ generation' = generation + 2
    /\ Open(0, 0)
    /\ UNCHANGED <<active, permit_vars>>

\* admit whose transition observer raises CancelledError while the circuit
\* goes half-open: the permit is taken back and the circuit reopened at once.
AdmitCancelled(a) ==
    /\ phase[a] = "idle"
    /\ generation < MaxGeneration
    /\ Admissible
    /\ circuit = "open"
    /\ generation' = generation + 2
    /\ Open(0, reopen_count)
    /\ UNCHANGED <<active, permit_vars>>

\* AttemptPermit._record up to the creation of the completion task: called by
\* the holder with the outcome it classified, or with "excluded" by
\* _PermitContext.__aexit__ on an exception or a cancellation.
Record(a, o) ==
    /\ phase[a] = "admitted"
    /\ phase' = [phase EXCEPT ![a] = "recording"]
    /\ outcome' = [outcome EXCEPT ![a] = o]
    /\ UNCHANGED <<guard_vars, probe, permit_gen>>

\* The circuit's reaction to an outcome of the current generation.
ApplySuccess ==
    /\ generation' = IF circuit = "closed" THEN generation ELSE generation + 1
    /\ Closed(0)

\* Faulty variant: an excluded probe is released without reopening.
ApplyExcluded_ignored(a) ==
    UNCHANGED <<generation, circuit, failures, retry_in, reopen_count>>

ApplyExcluded(a) ==
    IF probe[a] /\ circuit = "half_open"
    THEN /\ generation' = generation + 1
         /\ Open(0, reopen_count)
    ELSE UNCHANGED <<generation, circuit, failures, retry_in, reopen_count>>

\* Faulty variant: opening the circuit does not start a new generation.
ApplyTransient_same_generation ==
    IF circuit = "closed" /\ failures + 1 < FailureThreshold
    THEN /\ Closed(failures + 1)
         /\ UNCHANGED generation
    ELSE LET n == IF circuit = "closed" THEN 1 ELSE reopen_count + 1
         IN /\ UNCHANGED generation
            /\ \E ticks \in OpenInterval(n) : Open(ticks, n)

ApplyTransient ==
    IF circuit = "closed" /\ failures + 1 < FailureThreshold
    THEN /\ Closed(failures + 1)
         /\ UNCHANGED generation
    ELSE LET n == IF circuit = "closed" THEN 1 ELSE reopen_count + 1
         IN /\ generation' = generation + 1
            /\ \E ticks \in OpenInterval(n) : Open(ticks, n)

Apply(a) ==
    \/ outcome[a] = "success" /\ ApplySuccess
    \/ outcome[a] = "excluded" /\ ApplyExcluded(a)
    \/ outcome[a] = "transient" /\ ApplyTransient

\* Faulty variant: outcomes of older generations are applied too.
CompleteAttempt_no_generation_check(a) ==
    /\ phase[a] = "recording"
    /\ active > 0
    /\ active' = active - 1
    /\ Apply(a)
    /\ phase' = [phase EXCEPT ![a] = "idle"]
    /\ outcome' = [outcome EXCEPT ![a] = "none"]
    /\ UNCHANGED <<probe, permit_gen>>

\* complete_attempt, followed by the end of _record.
CompleteAttempt(a) ==
    /\ phase[a] = "recording"
    /\ active > 0
    /\ active' = active - 1
    /\ \/ /\ permit_gen[a] # generation
          /\ UNCHANGED <<generation, circuit, failures, retry_in, reopen_count>>
       \/ /\ permit_gen[a] = generation
          /\ Apply(a)
    /\ phase' = [phase EXCEPT ![a] = "idle"]
    /\ outcome' = [outcome EXCEPT ![a] = "none"]
    /\ UNCHANGED <<probe, permit_gen>>

\* The monotonic clock advances.
Tick ==
    /\ retry_in' = IF retry_in > 0 THEN retry_in - 1 ELSE 0
    /\ UNCHANGED <<active, generation, circuit, failures, reopen_count, permit_vars>>

Next ==
    \/ \E a \in Attempts :
          \/ Admit(a)
          \/ AdmitCancelled(a)
          \/ \E o \in Outcomes : Record(a, o)
          \/ CompleteAttempt(a)
    \/ Tick

Spec == Init /\ [][Next]_vars

\* The holder of a permit has a deadline and a context manager, so it records
\* an outcome; the event loop runs every task; time passes.
Fairness ==
    /\ \A a \in Attempts : WF_vars(\E o \in Outcomes : Record(a, o))
    /\ \A a \in Attempts : WF_vars(CompleteAttempt(a))
    /\ WF_vars(Tick)

FairSpec == Spec /\ Fairness

-----------------------------------------------------------------------------
(* Properties *)

\* Every permit is counted exactly once from admission to completion, whatever
\* is cancelled in between, and the bulkhead is never exceeded: the counter
\* that admit and complete_attempt maintain is the number of attempts that are
\* between the two.
PermitAccounting ==
    /\ active = Cardinality(Outstanding)
    /\ active <= Capacity

\* The half-open circuit has exactly one attempt of the current generation and
\* it is the probe; the open circuit has none, so no outcome that is still to
\* come can change it; a closed circuit has no probe left over ("exactly one
\* half-open probe", AttemptPermit._probe and _generation).
ProbeOwnsHalfOpen ==
    /\ circuit = "half_open" =>
          \E a \in Attempts : /\ Current(a) /\ probe[a]
                             /\ \A b \in Attempts : Current(b) => b = a
    /\ circuit = "open" => \A a \in Attempts : ~Current(a)
    /\ circuit = "closed" => \A a \in Attempts : Current(a) => ~probe[a]

\* The open circuit always has room for its probe.  Attempts admitted before it
\* opened keep their permits, but the circuit only ever opens by a completion
\* (or by taking a probe's permit back), so they never fill the bulkhead:
\* admit's capacity check in the open state never delays the recovery.
OpenLeavesRoom == circuit = "open" => active < Capacity

\* Only the probe's own completion takes the circuit out of half-open: an
\* attempt admitted before the circuit opened, completing late with any
\* outcome, never does (complete_attempt's generation check).
OnlyTheProbeSettles ==
    [][(circuit = "half_open" /\ circuit' # "half_open") =>
          \E a \in Attempts : /\ phase[a] = "recording" /\ phase'[a] = "idle"
                             /\ probe[a] /\ permit_gen[a] = generation]_vars

\* The backoff grows until a probe succeeds: a cancelled observer, an excluded
\* probe or a late outcome never makes _open_interval start over.
BackoffKept ==
    [][reopen_count' < reopen_count =>
          \E a \in Attempts : /\ phase[a] = "recording" /\ phase'[a] = "idle"
                             /\ probe[a] /\ outcome[a] = "success"
                             /\ circuit = "half_open"]_vars

\* A half-open circuit always settles: the probe's permit is given back with an
\* outcome even when its task is cancelled, so the circuit cannot refuse
\* everyone for ever.
HalfOpenSettles == circuit = "half_open" ~> circuit # "half_open"

\* An open circuit always becomes ready for a probe: its interval ends, however
\* often probes are cancelled or excluded, and the bulkhead has room.
OpenBecomesAdmissible == circuit = "open" ~> (circuit = "open" /\ Admissible)

Pool == INSTANCE PermitPool WITH Clients <- Attempts, holders <- Outstanding

\* The guard's counter implements the abstract pool of Capacity permits: an
\* attempt enters only when fewer than Capacity are in flight, in every state
\* of the circuit.
ImplementsPermitPool == Pool!Spec
=============================================================================
