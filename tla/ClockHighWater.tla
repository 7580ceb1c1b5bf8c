--------------------------- MODULE ClockHighWater ---------------------------
(***************************************************************************)
(* ClockHighWater (storage_lifecycle.py): may the wall clock be trusted to *)
(* delete by age?  A record on the disk summarises the samples applied so  *)
(* far, and one sample at a time is judged against it.                     *)
(*                                                                         *)
(* A sample is taken before the locks (reserve_publication and             *)
(* reconcile_lifecycle pass it in), so another observer may be judged      *)
(* first.  observe then holds the instance's lock and a flock on the state *)
(* directory while it reads the record, decides and writes; several        *)
(* instances may share the file.  A record that is not valid is copied     *)
(* aside before it is replaced, and the copy takes several steps.  The     *)
(* process may die, the machine reboot, or a call fail between any two     *)
(* steps; a rename is atomic.                                              *)
(*                                                                         *)
(* The wall clock may be set to anything at any time and the operator      *)
(* states whether it is synchronized, so both are free in every sample.    *)
(* The monotonic clock advances, and starts again with a new boot id.      *)
(***************************************************************************)
EXTENDS Integers

CONSTANTS
    Observers,      \* callers of observe, in this process or another
    NoOne,          \* not an observer
    HealthyWindow,  \* healthy_window_seconds
    MaxSlew,        \* maximum_forward_slew_seconds
    MaxUtc,         \* bound: the wall clock shows 0..MaxUtc
    MaxMonotonic,   \* bound: a boot lasts until then
    MaxBoot,        \* bound: the last boot
    MaxFaults       \* bound: failing calls, deaths and damaged files

ASSUME ObserversAssumption == NoOne \notin Observers
ASSUME IntervalsAssumption == HealthyWindow \in Nat /\ MaxSlew \in Nat
ASSUME BoundsAssumption ==
    MaxUtc \in Nat /\ MaxMonotonic \in Nat /\ MaxBoot \in Nat /\ MaxFaults \in Nat

VARIABLES
    monotonic, boot,    \* the machine
    state,              \* what is under the record's name
    record,             \* its fields, when it is valid
    pending,            \* the copy of a corrupt record that is being made
    quarantine,         \* whether the exact copy is under its final name
    lock,               \* who holds the flock
    pc,                 \* where each observer is
    sample,             \* what it sampled
    seen,               \* the record it read
    verdict,            \* the last ClockAssessment: "trusted", its blocker, or "raised"
    faults,
    \* history
    last,               \* the last sample a record was written for
    calm_since          \* monotonic time of the first of the samples that led to
                        \* it without an anomaly between two of them

clock_vars == <<monotonic, boot>>
disk_vars == <<state, record, pending, quarantine>>
history_vars == <<last, calm_since>>
vars == <<clock_vars, disk_vars, lock, pc, sample, seen, verdict, faults, history_vars>>

None == -1
Samples == [utc : Nat, monotonic : Nat, boot : Nat, synchronized : BOOLEAN]
\* _ClockHighWaterRecord: utc and monotonic are those of the last sample.
Records == [boot : Nat, high_water : Nat, utc : Nat, monotonic : Nat,
            healthy_since : Nat \cup {None}, trusted : BOOLEAN]
Blockers == {"missing_state", "corrupt_state", "unsynchronized", "boot_changed",
             "monotonic_rollback", "wall_rollback", "forward_step", "warming_up"}
\* "writing": a valid record was read; "baselining": there was none; "copying",
\* "published": a corrupt one was read and is being preserved;
\* "rebasing": it is unlinked.
Stages == {"idle", "sampled", "writing", "baselining", "copying",
           "published", "rebasing"}

TypeOK ==
    /\ monotonic \in Nat /\ boot \in Nat
    /\ state \in {"missing", "valid", "corrupt", "unsafe"}
    /\ record \in Records
    /\ pending \in {"none", "partial", "exact"}
    /\ quarantine \in {"none", "exact"}
    /\ lock \in Observers \cup {NoOne}
    /\ pc \in [Observers -> Stages]
    /\ sample \in [Observers -> Samples]
    /\ seen \in [Observers -> Records]
    /\ verdict \in Blockers \cup {"trusted", "raised", "none"}
    /\ faults \in Nat
    /\ last \in Samples
    /\ calm_since \in Nat \cup {None}

NoSample == [utc |-> 0, monotonic |-> 0, boot |-> 0, synchronized |-> FALSE]
NoRecord == [boot |-> 0, high_water |-> 0, utc |-> 0, monotonic |-> 0,
             healthy_since |-> None, trusted |-> FALSE]

\* A new cache root.
Init ==
    /\ monotonic = 0 /\ boot = 0
    /\ state = "missing" /\ record = NoRecord
    /\ pending = "none" /\ quarantine = "none"
    /\ lock = NoOne
    /\ pc = [o \in Observers |-> "idle"]
    /\ sample = [o \in Observers |-> NoSample]
    /\ seen = [o \in Observers |-> NoRecord]
    /\ verdict = "none"
    /\ faults = 0
    /\ last = NoSample /\ calm_since = None

-----------------------------------------------------------------------------
(***************************************************************************)
(* The decision                                                            *)
(***************************************************************************)

Later(m, n) == IF m < n THEN n ELSE m

\* Faulty variant: the healthy window of a new record is dated back.
Baseline_dated_back(s) ==
    [boot |-> s.boot, high_water |-> s.utc, utc |-> s.utc, monotonic |-> s.monotonic,
     healthy_since |-> IF s.synchronized THEN s.monotonic - HealthyWindow ELSE None,
     trusted |-> FALSE]

\* _baseline.
Baseline(s) ==
    [boot |-> s.boot, high_water |-> s.utc, utc |-> s.utc, monotonic |-> s.monotonic,
     healthy_since |-> IF s.synchronized THEN s.monotonic ELSE None, trusted |-> FALSE]

\* Faulty variant: an anomaly does not restart the healthy window.
Distrust_keeps_window(r, s, m) ==
    [boot |-> r.boot, high_water |-> Later(r.high_water, s.utc), utc |-> s.utc,
     monotonic |-> m, healthy_since |-> r.healthy_since, trusted |-> FALSE]

\* The record after an anomaly.
Distrust(r, s, m) ==
    [boot |-> r.boot, high_water |-> Later(r.high_water, s.utc), utc |-> s.utc,
     monotonic |-> m, healthy_since |-> None, trusted |-> FALSE]

\* The record after a sample that agrees with the one before.
Confirm(r, s) ==
    LET since == IF r.healthy_since = None THEN s.monotonic ELSE r.healthy_since
    IN [boot |-> r.boot, high_water |-> Later(r.high_water, s.utc), utc |-> s.utc,
        monotonic |-> s.monotonic, healthy_since |-> since,
        trusted |-> r.trusted \/ s.monotonic - since >= HealthyWindow]

\* Faulty variant: the boot is compared last.
Anomaly_boot_last(r, s) ==
    IF ~s.synchronized THEN "unsynchronized"
    ELSE IF s.monotonic < r.monotonic THEN "monotonic_rollback"
    ELSE IF s.utc < r.utc THEN "wall_rollback"
    ELSE IF s.utc - r.utc > (s.monotonic - r.monotonic) + MaxSlew THEN "forward_step"
    ELSE IF s.boot # r.boot THEN "boot_changed"
    ELSE "none"

\* What is wrong with a sample, in the order of the checks of _observe_locked.
Anomaly(r, s) ==
    IF ~s.synchronized THEN "unsynchronized"
    ELSE IF s.boot # r.boot THEN "boot_changed"
    ELSE IF s.monotonic < r.monotonic THEN "monotonic_rollback"
    ELSE IF s.utc < r.utc THEN "wall_rollback"
    ELSE IF s.utc - r.utc > (s.monotonic - r.monotonic) + MaxSlew THEN "forward_step"
    ELSE "none"

\* _observe_locked, the record it writes and the blocker it returns.
Observed(r, s) ==
    LET a == Anomaly(r, s)
    IN IF a = "none" THEN Confirm(r, s)
       ELSE IF a = "boot_changed" THEN Baseline(s)
       ELSE IF a = "unsynchronized" THEN Distrust(r, s, Later(r.monotonic, s.monotonic))
       ELSE Distrust(r, s, s.monotonic)
Assessment(r, s) ==
    LET a == Anomaly(r, s)
    IN IF a # "none" THEN a
       ELSE IF Confirm(r, s).trusted THEN "trusted" ELSE "warming_up"

-----------------------------------------------------------------------------
(***************************************************************************)
(* Observing                                                               *)
(***************************************************************************)

\* SystemRetentionClock.__call__.
Sample(o, utc, synchronized) ==
    /\ pc[o] = "idle"
    /\ sample' = [sample EXCEPT ![o] = [utc |-> utc, monotonic |-> monotonic,
                                        boot |-> boot, synchronized |-> synchronized]]
    /\ pc' = [pc EXCEPT ![o] = "sampled"]
    /\ UNCHANGED <<clock_vars, disk_vars, lock, seen, verdict, faults, history_vars>>

\* The observation is over: observe returns, or raises.
Return(o, assessment) ==
    /\ verdict' = assessment
    /\ lock' = NoOne
    /\ pc' = [pc EXCEPT ![o] = "idle"]
    /\ sample' = [sample EXCEPT ![o] = NoSample]
    /\ seen' = [seen EXCEPT ![o] = NoRecord]

\* Faulty variant: the directory is not locked.
Read_unlocked(o) ==
    /\ pc[o] = "sampled"
    /\ state = "valid"
    /\ seen' = [seen EXCEPT ![o] = record]
    /\ pc' = [pc EXCEPT ![o] = "writing"]
    /\ UNCHANGED <<clock_vars, disk_vars, lock, sample, verdict, faults, history_vars>>

\* _open_locked_state_directory and _read of a valid record.
Read(o) ==
    /\ pc[o] = "sampled"
    /\ lock = NoOne
    /\ state = "valid"
    /\ lock' = o
    /\ seen' = [seen EXCEPT ![o] = record]
    /\ pc' = [pc EXCEPT ![o] = "writing"]
    /\ UNCHANGED <<clock_vars, disk_vars, sample, verdict, faults, history_vars>>

\* _read of a missing or of a corrupt record.
ReadNone(o) ==
    /\ pc[o] = "sampled"
    /\ lock = NoOne
    /\ state \in {"missing", "corrupt"}
    /\ lock' = o
    /\ pc' = [pc EXCEPT ![o] = IF state = "missing" THEN "baselining" ELSE "copying"]
    /\ UNCHANGED <<clock_vars, disk_vars, sample, seen, verdict, faults, history_vars>>

\* A file with the wrong metadata or size is left alone.
ReadUnsafe(o) ==
    /\ pc[o] = "sampled"
    /\ lock = NoOne
    /\ state = "unsafe"
    /\ Return(o, "corrupt_state")
    /\ UNCHANGED <<clock_vars, disk_vars, faults, history_vars>>

\* Two samples with nothing wrong between them.
Calm(p, s) ==
    /\ p.synchronized /\ s.synchronized
    /\ p.boot = s.boot
    /\ p.monotonic <= s.monotonic
    /\ p.utc <= s.utc
    /\ s.utc - p.utc <= (s.monotonic - p.monotonic) + MaxSlew

\* _write: the record is renamed into place.
Put(o, new) ==
    LET s == sample[o] IN
    /\ state' = "valid"
    /\ record' = new
    /\ last' = s
    /\ calm_since' = IF ~s.synchronized THEN None
                     ELSE IF calm_since # None /\ Calm(last, s) THEN calm_since
                     ELSE s.monotonic
    /\ UNCHANGED <<pending, quarantine>>

Write(o) ==
    /\ pc[o] = "writing"
    /\ Put(o, Observed(seen[o], sample[o]))
    /\ Return(o, Assessment(seen[o], sample[o]))
    /\ UNCHANGED <<clock_vars, faults>>

\* _observe_absent_state.
WriteBaseline(o) ==
    /\ pc[o] \in {"baselining", "rebasing"}
    /\ state = "missing"
    /\ Put(o, Baseline(sample[o]))
    /\ Return(o, IF pc[o] = "baselining" THEN "missing_state" ELSE "corrupt_state")
    /\ UNCHANGED <<clock_vars, faults>>

-----------------------------------------------------------------------------
(***************************************************************************)
(* Preserving a corrupt record: _quarantine_corrupt_state                  *)
(***************************************************************************)

\* _ensure_quarantine_copy_at: unless the exact copy is already there, a copy is
\* begun under the pending name; a partial one, left by a crash, is moved aside.
CreateCopy(o) ==
    /\ pc[o] = "copying"
    /\ quarantine = "none" /\ pending = "none"
    /\ pending' = "partial"
    /\ UNCHANGED <<clock_vars, state, record, quarantine, lock, pc, sample, seen,
                   verdict, faults, history_vars>>

CompleteCopy(o) ==
    /\ pc[o] = "copying"
    /\ quarantine = "none" /\ pending = "partial"
    /\ pending' = "exact"
    /\ UNCHANGED <<clock_vars, state, record, quarantine, lock, pc, sample, seen,
                   verdict, faults, history_vars>>

\* Faulty variant: a copy found under the pending name is published as it is.
PublishCopy_unverified(o) ==
    /\ pc[o] = "copying"
    /\ quarantine = "none" /\ pending # "none"
    /\ quarantine' = IF pending = "exact" THEN "exact" ELSE "none"
    /\ pending' = "none"
    /\ pc' = [pc EXCEPT ![o] = "published"]
    /\ UNCHANGED <<clock_vars, state, record, lock, sample, seen, verdict, faults,
                   history_vars>>

\* The complete copy is renamed to its final name, or was found there.
PublishCopy(o) ==
    /\ pc[o] = "copying"
    /\ quarantine = "exact" \/ pending = "exact"
    /\ quarantine' = "exact"
    /\ pending' = IF quarantine = "exact" THEN pending ELSE "none"
    /\ pc' = [pc EXCEPT ![o] = "published"]
    /\ UNCHANGED <<clock_vars, state, record, lock, sample, seen, verdict, faults,
                   history_vars>>

\* _recover_corrupt_state_at unlinks what was copied.
UnlinkCorrupt(o) ==
    /\ pc[o] = "published"
    /\ state' = "missing"
    /\ pc' = [pc EXCEPT ![o] = "rebasing"]
    /\ UNCHANGED <<clock_vars, record, pending, quarantine, lock, sample, seen,
                   verdict, faults, history_vars>>

-----------------------------------------------------------------------------
(***************************************************************************)
(* Faults                                                                  *)
(***************************************************************************)

Fault == faults < MaxFaults /\ faults' = faults + 1

\* _write raises, before or after its rename.
WriteFails(o) ==
    /\ Fault
    /\ pc[o] \in {"writing", "baselining", "rebasing"}
    /\ \/ UNCHANGED <<disk_vars, history_vars>>
       \/ Put(o, IF pc[o] = "writing" THEN Observed(seen[o], sample[o])
                                      ELSE Baseline(sample[o]))
    /\ Return(o, "raised")
    /\ UNCHANGED clock_vars

\* A step of the quarantine fails: an incomplete copy of its own is unlinked,
\* the rest stays, and the corrupt record is reported.
QuarantineFails(o) ==
    /\ Fault
    /\ pc[o] \in {"copying", "published"}
    /\ pending' \in IF pending = "partial" THEN {"partial", "none"} ELSE {pending}
    /\ state' \in IF pc[o] = "published" THEN {state, "missing"} ELSE {state}
    /\ Return(o, "corrupt_state")
    /\ UNCHANGED <<clock_vars, record, quarantine, history_vars>>

\* The process of an observer dies; the kernel drops its flock.
Die(o) ==
    /\ Fault
    /\ pc[o] # "idle"
    /\ lock' = IF lock = o THEN NoOne ELSE lock
    /\ pc' = [pc EXCEPT ![o] = "idle"]
    /\ sample' = [sample EXCEPT ![o] = NoSample]
    /\ seen' = [seen EXCEPT ![o] = NoRecord]
    /\ UNCHANGED <<clock_vars, disk_vars, verdict, history_vars>>

\* The file is lost or damaged while nobody observes.  The names of the copies
\* are made from a digest of the damaged contents, so those are new.
Damage ==
    /\ Fault
    /\ lock = NoOne
    /\ state = "valid"
    /\ state' \in {"missing", "corrupt", "unsafe"}
    /\ pending' = "none" /\ quarantine' = "none"
    /\ UNCHANGED <<clock_vars, record, lock, pc, sample, seen, verdict, history_vars>>

-----------------------------------------------------------------------------
Tick ==
    /\ monotonic < MaxMonotonic
    /\ monotonic' = monotonic + 1
    /\ UNCHANGED <<boot, disk_vars, lock, pc, sample, seen, verdict, faults, history_vars>>

Reboot ==
    /\ boot < MaxBoot
    /\ boot' = boot + 1
    /\ monotonic' = 0
    /\ lock' = NoOne
    /\ pc' = [o \in Observers |-> "idle"]
    /\ sample' = [o \in Observers |-> NoSample]
    /\ seen' = [o \in Observers |-> NoRecord]
    /\ UNCHANGED <<disk_vars, verdict, faults, history_vars>>

Next ==
    \/ \E o \in Observers :
          \/ \E utc \in 0..MaxUtc, synchronized \in BOOLEAN : Sample(o, utc, synchronized)
          \/ Read(o) \/ ReadNone(o) \/ ReadUnsafe(o)
          \/ Write(o) \/ WriteBaseline(o)
          \/ CreateCopy(o) \/ CompleteCopy(o) \/ PublishCopy(o) \/ UnlinkCorrupt(o)
          \/ WriteFails(o) \/ QuarantineFails(o) \/ Die(o)
    \/ Damage
    \/ Tick
    \/ Reboot

Spec == Init /\ [][Next]_vars

-----------------------------------------------------------------------------
(***************************************************************************)
(* Properties                                                              *)
(***************************************************************************)

\* Age-based deletion is allowed only after a healthy window: whenever observe
\* says "trusted", the samples applied up to then include an unbroken run of
\* synchronized samples of one boot, with no rollback or step between two of
\* them, that spans HealthyWindow of monotonic time; whoever else observed,
\* failed or died meanwhile.
TrustEarned ==
    verdict = "trusted" =>
        /\ calm_since # None
        /\ last.monotonic - calm_since >= HealthyWindow

\* Every record that is written is one the next _read accepts
\* (_record_is_consistent_and_digest_bound), so observing never makes the state
\* corrupt by itself.
RecordAcceptable ==
    state = "valid" =>
        /\ record.healthy_since # None => record.healthy_since <= record.monotonic
        /\ record.trusted => record.healthy_since # None

\* A corrupt record leaves its name only when an exact copy of it is in
\* quarantine, wherever a process died before.
EvidenceKept ==
    [][state = "corrupt" /\ state' # "corrupt" => quarantine = "exact"]_vars

\* The monotonic clock of a boot does not go back, and observers that sample
\* and are judged one after the other are never told that it did, across
\* reboots, failed writes and lost records.
HonestMonotonic == verdict # "monotonic_rollback"
=============================================================================
