-------------------------- MODULE RequestAdmission ---------------------------
(***************************************************************************)
(* The admission of MCP requests: McpSecurityMiddleware                    *)
(* (http_security.py) with its AdmissionGate and PrincipalAdmission        *)
(* (admission.py), the byte budget of inline resources                     *)
(* (resource_admission.py) and the lifespan that starts and stops it       *)
(* (app.py).                                                               *)
(*                                                                         *)
(* Everything between two awaits is one step of the event loop: entering   *)
(* with the acquisition of both gates is one, and so is leaving with the   *)
(* release of the reservation, of the gates and of the task.  A request    *)
(* may be cancelled or fail at every await.  The handler of a request runs *)
(* inside the call of the SDK application, which is external: it has ended *)
(* when that call returns or raises.  A request carries one message, hence *)
(* at most one reservation.                                                *)
(***************************************************************************)
EXTENDS Integers, FiniteSets, Functions

CONSTANTS
    Requests,           \* outer HTTP requests, that is tasks
    Principals,         \* configured principals
    Anonymous,          \* the identity of an unauthenticated request, if allowed
    Unknown,            \* no identity: authentication failed
    GlobalLimit,        \* max_concurrent_mcp_requests
    PrincipalLimit,     \* max_concurrent_mcp_requests_per_principal
    WorstCase,          \* _resource_read_reservation_bytes
    ByteLimit           \* capacity_bytes

ASSUME RequestsAssumption == IsFiniteSet(Requests) /\ IsFiniteSet(Principals)
ASSUME IdentityAssumption ==
    Anonymous \notin Principals /\ Unknown \notin Principals \cup {Anonymous}
ASSUME LimitsAssumption ==
    {GlobalLimit, PrincipalLimit, WorstCase, ByteLimit} \subseteq Nat \ {0}

VARIABLES
    server,         \* the lifespan of the middleware
    accepting,      \* _accepting_requests
    cancelled,      \* the tasks shutdown has cancelled
    awaited,        \* the tasks it waits for
    phase,          \* where each request is; all but "idle" are _active_requests
    identity,       \* principal_id
    admitted,       \* AdmissionGate._active
    shares,         \* the same for the gate of each principal
    active_bytes,   \* InlineResourceAdmission._active_bytes
    held            \* the bytes of the reservation in each request's scope

vars == <<server, accepting, cancelled, awaited, phase, identity, admitted, shares, active_bytes, held>>
lifespan_vars == <<server, accepting, cancelled, awaited>>
gate_vars == <<identity, admitted, shares>>
byte_vars == <<active_bytes, held>>

\* "refusing": an error response is sent; "running": inside the deadline;
\* "closing": the deadline has passed and the response is brought to an end.
Phases == {"idle", "refusing", "running", "closing"}
Servers == {"starting", "serving", "stopping", "stopped"}

TypeOK ==
    /\ server \in Servers
    /\ accepting \in BOOLEAN
    /\ cancelled \in SUBSET Requests
    /\ awaited \in SUBSET Requests
    /\ phase \in [Requests -> Phases]
    /\ identity \in [Requests -> Principals \cup {Anonymous, Unknown}]
    /\ admitted \in 0..GlobalLimit
    /\ shares \in [Principals -> 0..PrincipalLimit]
    /\ active_bytes \in 0..ByteLimit
    /\ held \in [Requests -> 0..WorstCase]

Init ==
    /\ server = "starting" /\ accepting = FALSE /\ cancelled = {} /\ awaited = {}
    /\ phase = [r \in Requests |-> "idle"]
    /\ identity = [r \in Requests |-> Unknown]
    /\ admitted = 0
    /\ shares = [p \in Principals |-> 0]
    /\ active_bytes = 0
    /\ held = [r \in Requests |-> 0]

Admitted == {r \in Requests : phase[r] \in {"running", "closing"}}

-----------------------------------------------------------------------------
\* Start and stop

\* start, once the session manager runs.
StartServing ==
    /\ server = "starting"
    /\ server' = "serving" /\ accepting' = TRUE
    /\ UNCHANGED <<cancelled, awaited, phase, gate_vars, byte_vars>>

\* Faulty variant: new requests are refused only after the old ones are gone.
Shutdown_closes_late ==
    /\ server = "serving"
    /\ server' = "stopping" /\ accepting' = TRUE
    /\ cancelled' = {r \in Requests : phase[r] # "idle"}
    /\ awaited' = cancelled'
    /\ UNCHANGED <<phase, gate_vars, byte_vars>>

\* Faulty variant: requests whose deadline has passed are left to end by
\* themselves.
Shutdown_spares_closing ==
    /\ server = "serving"
    /\ server' = "stopping" /\ accepting' = FALSE
    /\ cancelled' = {r \in Requests : phase[r] \in {"refusing", "running"}}
    /\ awaited' = {r \in Requests : phase[r] # "idle"}
    /\ UNCHANGED <<phase, gate_vars, byte_vars>>

\* shutdown up to its wait.
Shutdown ==
    /\ server = "serving"
    /\ server' = "stopping" /\ accepting' = FALSE
    /\ cancelled' = {r \in Requests : phase[r] # "idle"}
    /\ awaited' = cancelled'
    /\ UNCHANGED <<phase, gate_vars, byte_vars>>

\* asyncio.wait has seen the last of them.
ShutdownReturns ==
    /\ server = "stopping" /\ awaited = {}
    /\ server' = "stopped" /\ accepting' = FALSE
    /\ UNCHANGED <<cancelled, awaited, phase, gate_vars, byte_vars>>

-----------------------------------------------------------------------------
\* A request

\* Faulty variant: the principal's permit stays taken when the global gate is
\* full.
TryAcquire_leaks(p) ==
    LET own == p # Anonymous
        got_own == own /\ shares[p] < PrincipalLimit
        got == (own => got_own) /\ admitted < GlobalLimit
    IN [ok |-> got,
        admitted |-> IF got THEN admitted + 1 ELSE admitted,
        shares |-> IF got_own THEN [shares EXCEPT ![p] = @ + 1] ELSE shares]

\* Faulty variant: the global gate admits one too many.
TryAcquire_off_by_one(p) ==
    LET own == p # Anonymous
        got == (own => shares[p] < PrincipalLimit) /\ admitted <= GlobalLimit
    IN [ok |-> got,
        admitted |-> IF got THEN admitted + 1 ELSE admitted,
        shares |-> IF got /\ own THEN [shares EXCEPT ![p] = @ + 1] ELSE shares]

\* _try_acquire_admission: the principal's gate first, given back when the
\* global gate is full; an anonymous request has no gate of its own.
TryAcquire(p) ==
    LET own == p # Anonymous
        got == (own => shares[p] < PrincipalLimit) /\ admitted < GlobalLimit
    IN [ok |-> got,
        admitted |-> IF got THEN admitted + 1 ELSE admitted,
        shares |-> IF got /\ own THEN [shares EXCEPT ![p] = @ + 1] ELSE shares]

\* __call__ and _admitted_call up to their first await.  While the service does
\* not accept, a request is answered without leaving a trace.
Enter(r, p) ==
    /\ phase[r] = "idle" /\ accepting
    /\ identity' = [identity EXCEPT ![r] = p]
    /\ IF p = Unknown
       THEN /\ phase' = [phase EXCEPT ![r] = "refusing"]
            /\ UNCHANGED <<admitted, shares>>
       ELSE LET result == TryAcquire(p)
            IN /\ phase' = [phase EXCEPT ![r] = IF result.ok THEN "running" ELSE "refusing"]
               /\ admitted' = result.admitted
               /\ shares' = result.shares
    /\ UNCHANGED <<lifespan_vars, byte_vars>>

\* on_read_resource reserves the worst case before it reads.  A refused
\* reservation ends the handler and changes nothing.
Reserve(r) ==
    /\ phase[r] = "running" /\ held[r] = 0
    /\ WorstCase <= ByteLimit - active_bytes
    /\ active_bytes' = active_bytes + WorstCase
    /\ held' = [held EXCEPT ![r] = WorstCase]
    /\ UNCHANGED <<lifespan_vars, phase, gate_vars>>

\* InlineResourceReservation: the bytes given up go back to the budget.
ReturnBytes(r, kept) ==
    /\ active_bytes' = active_bytes - (held[r] - kept)
    /\ held' = [held EXCEPT ![r] = kept]

\* request_scope, left: every reservation of the request is released.
ReleaseScope(r) == ReturnBytes(r, 0)

\* Faulty variant: the reservation shrinks, the budget does not get the rest.
Shrink_unreturned(r, bytes) ==
    /\ phase[r] = "running" /\ held[r] = WorstCase
    /\ held' = [held EXCEPT ![r] = bytes]
    /\ UNCHANGED <<lifespan_vars, phase, gate_vars, active_bytes>>

\* The response is there: InlineResourceReservation.shrink to its real weight.
Shrink(r, bytes) ==
    /\ phase[r] = "running" /\ held[r] = WorstCase
    /\ ReturnBytes(r, bytes)
    /\ UNCHANGED <<lifespan_vars, phase, gate_vars>>

\* Faulty variant: the closing response is sent outside the request's scope.
Timeout_leaves_scope(r) ==
    /\ phase[r] = "running"
    /\ phase' = [phase EXCEPT ![r] = "closing"]
    /\ ReleaseScope(r)
    /\ UNCHANGED <<lifespan_vars, gate_vars>>

\* The application deadline cancels the call; what is left to send is sent
\* inside the scope and with the permits.
Timeout(r) ==
    /\ phase[r] = "running"
    /\ phase' = [phase EXCEPT ![r] = "closing"]
    /\ UNCHANGED <<lifespan_vars, gate_vars, byte_vars>>

\* AdmissionGate.release, and PrincipalAdmission.release for a principal.
ReleaseGates(r) ==
    IF r \in Admitted
    THEN /\ admitted' = admitted - 1
         /\ shares' = IF identity[r] = Anonymous THEN shares
                      ELSE [shares EXCEPT ![identity[r]] = @ - 1]
    ELSE UNCHANGED <<admitted, shares>>

\* The request ends: its response is complete, its client is gone, something
\* raised, or shutdown cancelled it.  request_scope releases the reservation,
\* then both gates are released, then the task is discarded.
Leave(r) ==
    /\ phase[r] # "idle"
    /\ phase' = [phase EXCEPT ![r] = "idle"]
    /\ cancelled' = cancelled \ {r}
    /\ awaited' = awaited \ {r}
    /\ ReleaseScope(r)
    /\ ReleaseGates(r)
    /\ UNCHANGED <<server, accepting, identity>>

Next ==
    \/ StartServing \/ Shutdown \/ ShutdownReturns
    \/ \E r \in Requests :
          \/ \E p \in Principals \cup {Anonymous, Unknown} : Enter(r, p)
          \/ Reserve(r)
          \/ \E bytes \in 1..WorstCase : Shrink(r, bytes)
          \/ Timeout(r)
          \/ Leave(r)

Spec == Init /\ [][Next]_vars

\* A cancelled task leaves at its next await.  Nothing else makes a request
\* end: how long a client takes to read a closing response is not bounded.
Fairness ==
    /\ WF_vars(ShutdownReturns)
    /\ \A r \in Requests : WF_vars(r \in cancelled /\ Leave(r))

FairSpec == Spec /\ Fairness

-----------------------------------------------------------------------------
(***************************************************************************)
(* Properties                                                              *)
(***************************************************************************)

\* Each gate counts the requests inside it, also after refusals that took one
\* permit and found the other gate full.
PermitsBalanced ==
    /\ admitted = Cardinality(Admitted)
    /\ \A p \in Principals : shares[p] = Cardinality({r \in Admitted : identity[r] = p})

\* The budget is the sum of what the requests hold: a reservation that shrinks,
\* times out or is cancelled neither loses bytes nor gives them back twice.
BytesBalanced ==
    /\ active_bytes = FoldFunction(+, 0, held)
    /\ \A r \in Requests : held[r] > 0 => r \in Admitted

\* "Hold reservations until one complete outer response has finished": a
\* reservation is gone only with the request's permit.
HeldToTheEnd ==
    [][\A r \in Requests : held[r] > 0 /\ held'[r] = 0 => phase'[r] = "idle"]_vars

\* When shutdown has returned no request is active, and no permit or byte is
\* held: the session manager below may be closed.
QuietWhenStopped ==
    server = "stopped" =>
        /\ \A r \in Requests : phase[r] = "idle"
        /\ admitted = 0 /\ active_bytes = 0

\* shutdown returns, whatever the requests were doing when it was called.
ShutdownEnds == server = "stopping" ~> server = "stopped"
=============================================================================
