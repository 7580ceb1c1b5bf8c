# Formal models of the NPLG DSpace MCP server

TLA+ specifications of the concurrent and persistent parts of `nplg_mcp`, checked with TLC on small
instances and proved with TLAPS for every value of the constants. The code under `src/src/nplg_mcp`
is the reference: a definition is a translation of the lines that `PROJECT.json` names for it, and a
name in a module is the name in the source wherever TLA+ allows it.

## The system

The server gives MCP clients access to a DSpace repository: search and metadata, downloads of PDF
documents into a bounded cache, and rendered pages. One process runs an asyncio event loop;
blocking work goes to small thread pools, PDF and parser work to child processes.

| Part | State | Operations that change it | Hard behaviour |
|---|---|---|---|
| Upstream guard (`resilience.py`) | circuit, generation, permits, backoff | admit, complete an attempt, clock | late outcomes, cancellation inside admit, single probe |
| Artifact store (`storage.py`) | object directories, byte and reservation counters, leases, admission latch | begin, write, commit, convert, abort, lease, prune, restart | downloads interleave between lock sections; a step fails half way |
| Insertion order (`storage_lifecycle.py`) | sequence records, high-water record, their copy in memory | ensure, remove, initialize | crash between two file operations |
| Clock record (`storage_lifecycle.py`) | one JSON record, quarantine copies, flock | observe, recover a corrupt record | reboots, stepped clocks, several observers, crash while copying evidence |
| Bounded threads (`bounded_work.py`) | permits, queue, futures | run, run to completion, callbacks | a caller can be cancelled, its thread cannot |
| Request admission (`http_security.py`, `admission.py`, `resource_admission.py`, `app.py`) | gates, byte budget, active tasks | enter, reserve, shrink, time out, leave, start, shutdown | two gates and a budget under deadline, cancellation and shutdown |
| Render transactions (`storage.py`) | render trees, manifests, striped locks, transaction leases | begin, publish page, commit, replace, clean up | crash between page and manifest |
| Rate limiter (`rate_limit.py`) | next start | acquire | cancelled sleep under a lock |
| Download pipeline, repository, network | guard attempt, staged file, request transcript | request, redirect, scan | one deadline over all redirects |
| PDF and parser execution | slots, staging quota, child processes | execute, exchange, clean up | owned cleanup under cancellation |
| Application, tools, contracts, configuration | services, readiness | handlers | mostly composition and validation |

Interactions: a request passes request admission, runs a tool, which asks the repository client;
every upstream request passes the rate limiter and an attempt of the guard. A download reserves
space in the artifact store, streams through storage threads, and publishes; publication allocates
an eviction sequence; pruning by age needs a trusted clock. A resource read takes bytes from the
inline budget until its HTTP response is over.

## Modules

| Module | Models | Theorems in |
|---|---|---|
| `PermitPool` | abstract: at most `Capacity` clients hold a permit | |
| `EvictionOrder` | abstract: every sequence is given out at most once, in increasing order | |
| `UpstreamGuard` | `UpstreamGuard`, `AttemptPermit` | `UpstreamGuardProofs` |
| `ArtifactStore` | `ContentAddressedStore` for documents, as `Downloader` uses it | `ArtifactStoreProofs` |
| `InsertionOrder` | `PersistentInsertionOrder` on the disk | `InsertionOrderProofs` |
| `ClockHighWater` | `ClockHighWater` and its quarantine | `ClockHighWaterProofs` |
| `BoundedWork` | `BoundedThreadRunner`, `AdmissionGate` | `BoundedWorkProofs` |
| `RequestAdmission` | `McpSecurityMiddleware`, `PrincipalAdmission`, `InlineResourceAdmission`, the lifespan | |
| `MC…` | the instances TLC checks: constant values and, for safety runs, symmetry | |

Definitions named `Operation_something` directly before `Operation` are faulty variants of it: the
change a plausible mistake would make. Replacing the operation by the variant violates the property
it is listed with, which shows that the property depends on that line of the code.

### UpstreamGuard

The guard's fields are variables of the same names; `phase`, `probe`, `permit_gen` and `outcome`
stand for the permit object of an attempt. `Admit` is all of `admit` under the lock; `AdmitCancelled` is its
path when the transition observer raises a cancellation after the permit was taken. `Record` is the
permit's own outcome, `CompleteAttempt` the locked transition, and the two are separate because the
await lies between them. Time is the number of ticks until a probe may enter (`retry_in`); the open
interval is the set of values the exponential rule with jitter and cap can give. Clock and random
source are taken to work: the exceptions `_now` and `_open_interval` raise for an invalid reading or
sample, and the one for a retry deadline that is not in the future, are not modelled.

### ArtifactStore

One action per section that holds `_lock`. A download (`Publishers`) goes through reserve, write,
make the directory, publish, convert, release, and may stop between any two. `Prune` is the whole
maintenance call: selection in eviction order, removal, and the verdict that opens or closes the
admission latch, or an exception before the verdict. `PruneFails` is a removal that raises. What the
code samples is chosen freely: free bytes and inodes, whether the clock is trusted, I/O failures.
`Bytes` (size of a set of documents) and `Total` (sum of an amount per task) are constants with the
laws of a sum as named assumptions. The proofs use only those laws; TLC evaluates them for the real
sums of the runs.

Left out: a cleanup handler whose own `rmtree` or `unlink` also fails (double faults); the number of
inodes, part of the free headroom. `Restart` takes memory and records as equal; that they may
differ, and what initialization does then, is `InsertionOrder`. In deployments where renders are
written without `PublicationReservingPdfExecutor` (`full_runtime.py`) those writers do not reserve,
so `PromisesFit` speaks of the reserving writers only. `MaxBytes` is both the store's `max_bytes` and
the policy's `maximum_bytes`; the code also allows a store larger than its policy. Nothing in the
server prunes by itself; the action is the call an operator's maintenance makes.

### InsertionOrder

A record is old, new or absent, since each write is a rename. Each step of an operation (`op`) is
one file operation; it may raise before or after its effect, and the process may die after any step.
`NeedsSequence` says who calls `_allocate`; when the sequence space is used up `_allocate` raises
before it writes (`AllocateExhausted`), and then `initialize` refuses to start (`mode = "refused"`)
or the publication is cleaned up like any other failed one. A process that was refused ends, and
the next one is refused again as long as the directory without a record is there.
A crash is the death of the process; power loss, after which a rename that was not synced may be
lost, is not modelled (`_fsync_directory` ignores errors).

### ClockHighWater

`utc`, `monotonic` and `boot` are the clocks, the record is a TLA+ record with the fields of the
JSON object, and its digest is whether it is `valid`. A sample is taken before the lock and judged
under it. History variables follow the samples that reached the disk: an anomalous sample whose
write failed made `observe` raise and leaves no trace. Files are damaged only while nobody holds the
lock. A foreign file in the quarantine directory makes the recovery fail and appears as such. Moving
the residue of a crashed copy aside and writing the new copy are one step (`CompleteCopy`).

### BoundedWork

A call's operation is queued (FIFO), running, finished, released; the last two separate the done
callbacks, which run on the worker thread in the order of their registration. A caller waits for the
shielded future, and after a cancellation of `run_to_completion` drains. The FIFO queue matters: if
the executor took queued work in any order, a drained caller could wait for ever behind later calls.

### RequestAdmission

Everything between two awaits is one step. The SDK application is external: its handler is taken to
have ended when the application's call returns or raises, as in the repository's tests, and a
request carries one message. Authentication, header and body checks are the free choice of
`identity` and of how a request ends.

## Runs

State counts are distinct states; each run takes from a second to under three minutes.

| Run | Bounds | Shows |
|---|---|---|
| `guard` (9,592) | 3 attempts, capacity 2, threshold 2, intervals to 3, 6 generations | `PermitAccounting`, `ProbeOwnsHalfOpen`, `OpenLeavesRoom`, `OnlyTheProbeSettles`, `BackoffKept`; implements `PermitPool`; a half-open circuit settles, an open one becomes ready for a probe |
| `store_safety` (313,534) | 2 downloads, 1 reader, 2 documents, 5 bytes, 2 objects | counters against the disk, admitted downloads always fit, object budget, latch, eviction order |
| `store_prune` (59,042) | 3 documents on the disk over the limits, 2 readers | prune removes exactly what the limits require, oldest first, nothing leased |
| `store_liveness` (200,644) | 2 downloads, no reader | every reservation is given back |
| `store_directory` | as `store_safety`, two readers | violated: an object directory without a sequence is visible to other lock holders |
| `store_recheck` | 4 bytes | violated: the "exact" recheck counts another download's staged bytes twice |
| `insertion_crash` (26,394) | 3 objects, 5 sequences | a start refuses only when no sequence is left for the directory of an unfinished operation; places survive, no sequence twice |
| `insertion_durable` | 2 objects | violated: `ensure` may return a sequence that is no longer on the disk |
| `clock_trust` (2,291,896) | 2 observers, window 2, one fault, one reboot | trust only after a calm window; records written are accepted |
| `clock_recovery` (2,565,888) | 1 observer, slew 1, three faults | evidence is kept; no monotonic rollback without one |
| `threads` (11,172) | 4 calls, 2 kept, 2 threads | permits follow the work, kept callers outlive it, every caller leaves; implements `PermitPool` |
| `requests` (18,561) | 3 requests, 2 principals, limits 2 and 1, budget 3 bytes for reservations of 2 | gates and budget are exact, reservations last to the end, shutdown returns and leaves nothing held |

Why the bounds are enough to be interesting: every limit is smaller than the number of actors that
want it, so refusals, full gates and the latch occur; there are always two actors that may be between
two lock sections at once; sizes differ so that a byte budget and an object budget bind separately;
faults and reboots are few, but may fall between any two steps. The constants named as bounds
(`MaxGeneration`, `MaxUtc`, `MaxMonotonic`, `MaxBoot`, `MaxFaults`) appear in guards; `MaxSequence`
is the code's own end of the sequence space. The violation runs are disagreements between the code
and its own words; the findings in `PROJECT.json` quote them.

`store_prune` starts from `SpecStocked`, a cache filled under larger limits (the limits are
configuration), because a cache filled under its own limits never needs to shed objects for them.

### Fairness

- Guard: an admitted attempt records an outcome and completes (`AttemptPermit` does so on every
  exit), and time passes.
- Store: `WF(Proceed(p))`, a download takes its next step or fails. Each step is under
  `asyncio.timeout`, and storage calls run to completion.
- Threads: threads run, operations are finite, and a caller that was woken runs. Nothing is assumed
  of cancellations.
- Requests: only that a cancelled task leaves. A closing response is awaited outside the deadline,
  so that a request ends without a shutdown is not guaranteed and not claimed.
- Clock and insertion order: no liveness; nothing in the code makes an observation happen.

## Proofs

Each proof module states an inductive invariant `IInv`, proves that `Init` establishes it and that
every action keeps it, and derives the theorems listed in `PROJECT.json`.

- **UpstreamGuard**, any attempts, capacity and policy. `PermitAccounting` and `ProbeOwnsHalfOpen`
  need that no permit is from a future generation, and the backoff theorem that a closed circuit has
  none to forget.
- **ArtifactStore**, any tasks, documents and limits. `IInv` joins types and consistent tasks with
  `DiskCovered`, `StagingAccounted`, `ReservationsAccounted`, `PromisesFit`, `ObjectBudgetKept`,
  `LeasesCounted`, `LeasedStays` and `SequencesDistinct`. The quota follows: what tasks may still
  write is at most what they have reserved, and a reservation is granted only when everybody's full
  reservation fits. `QuotaKept` is protected twice in the code, by the reservation and by the check
  of each write.
- **InsertionOrder**, any objects. The high-water record is ahead of every record (`HighWaterAhead`)
  at every point of every operation (`OpSound`), hence a crash anywhere leaves records the next
  start accepts, and the disk implements `EvictionOrder`. What remains is the end of the sequence
  space: a start is refused only there, and only for a directory without a record, which is never
  that of a published object nobody began to remove (`MemorySound`, `RefusedOnlyWhenExhausted`).
- **ClockHighWater**, any observers and bounds. The lock makes what an observer read still true when
  it writes (`FoundHolds`); a valid record summarises the calm run of samples (`Summary`); therefore
  a trusted record proves a calm healthy window (`TrustEarned`). The slew allowance is per sample, so
  the total drift over a window is not bounded by it. After a reboot the record's UTC high-water mark
  restarts from the new sample and may be lower than before; no decision of the code reads it.
- **BoundedWork**, any calls and threads. Threads take queued work only (`QueueHolds`), and nobody is
  woken before the operation is over (`WokenAfterWork`).

Assumptions are the named `ASSUME`s on constants: finite sets of actors, positive limits, and the
laws of `Bytes` and `Total`. Refinements (`PoolImplemented`, `OrderImplemented`) are step simulations.

Only model-checked: all liveness; `PruneExact` (exactly one way to prune, and it stops in time); the
order of honest observers (`HonestMonotonic`); and `RequestAdmission`. Liveness under fairness and
induction over data are outside what the prover does.

## Not modelled, and the plan

Next, in this order:

1. `RenderTransactions`: striped locks, transaction leases, staged pages, completion manifests,
   commit and replacement, and the recovery of incomplete renders and orphaned staging files at
   start; abstract specification: a visible render is complete.
2. `RateLimiter` (starts are spaced, also after a cancelled sleep) and the repository's redirect loop
   within its deadline, composed with `UpstreamGuard`; the download pipeline composed with
   `ArtifactStore`.
3. PDF execution: publication reservation around a worker, its circuit breaker, slot leases and the
   staging quota, cleanup under cancellation; the parser executor with its owned process; the frame
   exchange of `pdf_ipc` and `parser_ipc`.
4. The network transcript, disconnect-aware streaming and the asset gate, readiness, continuation
   tokens, JSON preflight limits, tile grid: small state machines and pure operators against
   reference definitions.
5. Proofs: `RequestAdmission` (permits by cardinality, bytes by the laws of a sum),
   `RenderTransactions`, PDF slots.

Not planned: HTML parsing, schema and text formatting, TLS and sockets (data transformation and
I/O), PDF rasterization (library code), and the release and evidence scripts under `scripts/`, which
do not run in the server.
