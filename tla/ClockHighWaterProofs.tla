------------------------ MODULE ClockHighWaterProofs ------------------------
(***************************************************************************)
(* Proofs about ClockHighWater, for every healthy window, slew, number of  *)
(* observers and every bound.                                              *)
(***************************************************************************)
EXTENDS ClockHighWater, TLAPS

\* Who is between the locks and the return holds the flock.
Working == {"writing", "baselining", "copying", "published", "rebasing"}
LockHeld == \A o \in Observers : pc[o] \in Working => lock = o

\* What the holder found on the disk is still there.
FoundHolds ==
    \A o \in Observers :
        /\ pc[o] = "writing" => state = "valid" /\ seen[o] = record
        /\ pc[o] \in {"baselining", "rebasing"} => state = "missing"
        /\ pc[o] \in {"copying", "published"} => state = "corrupt"
        /\ pc[o] = "published" => quarantine = "exact"

\* A calm run of samples, c the time of its first and l its last.
CalmBehind(l, c) == c # None => c <= l.monotonic

\* The record r summarises the samples up to l: its healthy window lies within
\* the calm run, and trust means that the window is long enough.
Summary(r, l, c) ==
    /\ r.healthy_since # None =>
          /\ l.synchronized /\ l.boot = r.boot /\ l.utc = r.utc
          /\ l.monotonic = r.monotonic
          /\ c # None /\ c <= r.healthy_since
          /\ r.healthy_since <= r.monotonic
    /\ r.trusted =>
          /\ r.healthy_since # None
          /\ r.monotonic - r.healthy_since >= HealthyWindow

IInv ==
    /\ TypeOK
    /\ LockHeld
    /\ FoundHolds
    /\ CalmBehind(last, calm_since)
    /\ state = "valid" => Summary(record, last, calm_since)
    /\ TrustEarned

-----------------------------------------------------------------------------
\* The calm run after the sample s.
NextCalm(l, c, s) ==
    IF ~s.synchronized THEN None
    ELSE IF c # None /\ Calm(l, s) THEN c
    ELSE s.monotonic

\* A run of samples begins no later than it ends.
LEMMA NextCalmSound ==
    ASSUME NEW l \in Samples, NEW c \in Nat \cup {None}, NEW s \in Samples,
           CalmBehind(l, c)
    PROVE  /\ NextCalm(l, c, s) \in Nat \cup {None}
           /\ CalmBehind(s, NextCalm(l, c, s))
           /\ s.synchronized => NextCalm(l, c, s) # None
  BY DEF NextCalm, CalmBehind, Calm, Samples, None

\* A new record claims no more than its own sample.
LEMMA BaselineSound ==
    ASSUME NEW l \in Samples, NEW c \in Nat \cup {None}, NEW s \in Samples,
           CalmBehind(l, c)
    PROVE  /\ Baseline(s) \in Records
           /\ Summary(Baseline(s), s, NextCalm(l, c, s))
  <1>1. Baseline(s) \in Records
    BY DEF Baseline, Records, Samples, None
  <1>2. Summary(Baseline(s), s, NextCalm(l, c, s))
    BY NextCalmSound DEF Summary, Baseline, CalmBehind, Samples, None
  <1> QED  BY <1>1, <1>2

\* A record after an anomaly claims nothing.
LEMMA DistrustSound ==
    ASSUME NEW r \in Records, NEW s \in Samples, NEW m \in Nat, NEW c
    PROVE  /\ Distrust(r, s, m) \in Records
           /\ Summary(Distrust(r, s, m), s, c)
  <1>1. Distrust(r, s, m) \in Records
    BY DEF Distrust, Later, Records, Samples, None
  <1>2. Summary(Distrust(r, s, m), s, c)
    BY DEF Summary, Distrust, None
  <1> QED  BY <1>1, <1>2

\* A sample without an anomaly continues the calm run, and a window that was
\* long enough stays so.
LEMMA ConfirmSound ==
    ASSUME NEW r \in Records, NEW l \in Samples, NEW c \in Nat \cup {None},
           NEW s \in Samples, CalmBehind(l, c), Summary(r, l, c),
           Anomaly(r, s) = "none"
    PROVE  /\ Confirm(r, s) \in Records
           /\ Summary(Confirm(r, s), s, NextCalm(l, c, s))
  <1> DEFINE since == IF r.healthy_since = None THEN s.monotonic ELSE r.healthy_since
  <1>1. /\ s.synchronized /\ s.boot = r.boot
        /\ s.monotonic >= r.monotonic /\ s.utc >= r.utc
        /\ s.utc - r.utc <= (s.monotonic - r.monotonic) + MaxSlew
    BY IntervalsAssumption DEF Anomaly, Records, Samples
  <1>2. /\ since \in Nat /\ since <= s.monotonic
        /\ r.trusted => s.monotonic - since >= HealthyWindow
    BY <1>1, IntervalsAssumption DEF Summary, Records, Samples, None
  <1>3. NextCalm(l, c, s) # None /\ NextCalm(l, c, s) <= since
    <2>1. CASE r.healthy_since = None
      BY <1>1, <2>1, NextCalmSound DEF CalmBehind
    <2>2. CASE r.healthy_since # None
      <3>1. c # None /\ c <= r.healthy_since /\ Calm(l, s)
        BY <1>1, <2>2 DEF Summary, Calm, Records, Samples
      <3> QED  BY <1>1, <2>2, <3>1 DEF NextCalm
    <2> QED  BY <2>1, <2>2
  <1>4. Confirm(r, s) = [boot |-> r.boot, high_water |-> Later(r.high_water, s.utc),
                         utc |-> s.utc, monotonic |-> s.monotonic, healthy_since |-> since,
                         trusted |-> r.trusted \/ s.monotonic - since >= HealthyWindow]
    BY DEF Confirm
  <1>5. Confirm(r, s) \in Records
    BY <1>2, <1>4 DEF Later, Records, Samples
  <1>6. Summary(Confirm(r, s), s, NextCalm(l, c, s))
    <2> DEFINE new == Confirm(r, s)
    <2>1. /\ new.boot = r.boot /\ new.utc = s.utc /\ new.monotonic = s.monotonic
          /\ new.healthy_since = since
      BY DEF Confirm
    <2>2. new.trusted = (r.trusted \/ s.monotonic - since >= HealthyWindow)
      BY DEF Confirm
    <2>3. since # None
      BY <1>2 DEF None
    <2> HIDE DEF since, new
    <2>4. Summary(new, s, NextCalm(l, c, s))
      BY <1>1, <1>2, <1>3, <2>1, <2>2, <2>3 DEF Summary
    <2> QED  BY <2>4 DEF new
  <1> QED  BY <1>5, <1>6

\* Whatever the sample, the new record summarises the samples up to it, and
\* trust is reported only with a record that says so.
LEMMA ObservedSound ==
    ASSUME NEW r \in Records, NEW l \in Samples, NEW c \in Nat \cup {None},
           NEW s \in Samples, CalmBehind(l, c), Summary(r, l, c)
    PROVE  /\ Observed(r, s) \in Records
           /\ Summary(Observed(r, s), s, NextCalm(l, c, s))
           /\ Assessment(r, s) \in Blockers \cup {"trusted"}
           /\ Assessment(r, s) = "trusted" => Observed(r, s).trusted
  <1>1. Later(r.monotonic, s.monotonic) \in Nat /\ s.monotonic \in Nat
    BY DEF Later, Records, Samples
  <1>2. Observed(r, s) \in Records /\ Summary(Observed(r, s), s, NextCalm(l, c, s))
    <2>1. CASE Anomaly(r, s) = "none"
      BY <2>1, ConfirmSound DEF Observed
    <2>2. CASE Anomaly(r, s) = "boot_changed"
      BY <2>2, BaselineSound DEF Observed
    <2>3. CASE Anomaly(r, s) = "unsynchronized"
      BY <2>3, <1>1, DistrustSound DEF Observed
    <2>4. CASE Anomaly(r, s) \notin {"none", "boot_changed", "unsynchronized"}
      BY <2>4, <1>1, DistrustSound DEF Observed
    <2> QED  BY <2>1, <2>2, <2>3, <2>4
  <1>3. Assessment(r, s) \in Blockers \cup {"trusted"}
    BY DEF Assessment, Anomaly, Blockers
  <1>4. Assessment(r, s) = "trusted" => Observed(r, s).trusted
    BY DEF Assessment, Anomaly, Observed
  <1> QED  BY <1>2, <1>3, <1>4

-----------------------------------------------------------------------------
\* An observer that returns leaves the lock and everything it found.
LEMMA ReturnSound ==
    ASSUME TypeOK, LockHeld, NEW o \in Observers, NEW a, Return(o, a),
           lock \in {o, NoOne}
    PROVE  /\ lock' \in Observers \cup {NoOne}
           /\ pc' \in [Observers -> Stages]
           /\ sample' \in [Observers -> Samples]
           /\ seen' \in [Observers -> Records]
           /\ \A p \in Observers : pc'[p] \notin Working
  <1>1. NoSample \in Samples /\ NoRecord \in Records /\ "idle" \in Stages
    BY DEF NoSample, NoRecord, Samples, Records, Stages, None
  <1>2. /\ lock' \in Observers \cup {NoOne}
        /\ pc' \in [Observers -> Stages]
        /\ sample' \in [Observers -> Samples]
        /\ seen' \in [Observers -> Records]
    BY <1>1 DEF TypeOK, Return
  <1>3. ASSUME NEW p \in Observers PROVE pc'[p] \notin Working
    <2>1. CASE p = o
      BY <2>1 DEF Return, TypeOK, Working
    <2>2. CASE p # o
      BY <2>2, ObserversAssumption DEF Return, TypeOK, LockHeld
    <2> QED  BY <2>1, <2>2
  <1> QED  BY <1>2, <1>3

\* A record is put in place for a sample.
LEMMA PutSound ==
    ASSUME IInv, NEW o \in Observers, NEW new,
           Put(o, new), new \in Records,
           Summary(new, sample[o], NextCalm(last, calm_since, sample[o]))
    PROVE  /\ state' = "valid" /\ record' = new
           /\ pending' = pending /\ quarantine' = quarantine
           /\ last' \in Samples /\ calm_since' \in Nat \cup {None}
           /\ CalmBehind(last', calm_since')
           /\ Summary(record', last', calm_since')
  <1>1. sample[o] \in Samples /\ last \in Samples /\ calm_since \in Nat \cup {None}
    BY DEF IInv, TypeOK
  <1>2. last' = sample[o] /\ calm_since' = NextCalm(last, calm_since, sample[o])
    BY DEF Put, NextCalm
  <1>3. CalmBehind(last, calm_since)
    BY DEF IInv
  <1>4. /\ last' \in Samples /\ calm_since' \in Nat \cup {None}
        /\ CalmBehind(last', calm_since')
    BY <1>1, <1>2, <1>3, NextCalmSound
  <1> QED  BY <1>2, <1>4 DEF Put

\* A trusted record means a calm run of a healthy window.
LEMMA TrustFollows ==
    ASSUME NEW r \in Records, NEW l \in Samples, NEW c \in Nat \cup {None},
           Summary(r, l, c), r.trusted
    PROVE  c # None /\ l.monotonic - c >= HealthyWindow
  BY IntervalsAssumption DEF Summary, Records, Samples, None

\* Judging a sample against the record.
LEMMA WriteKeeps ==
    ASSUME IInv, NEW o \in Observers, Write(o)
    PROVE  IInv'
  <1>1. /\ lock = o /\ state = "valid" /\ seen[o] = record
    BY DEF Write, IInv, LockHeld, FoundHolds, Working
  <1> DEFINE s == sample[o]
  <1>2. /\ s \in Samples /\ last \in Samples /\ calm_since \in Nat \cup {None}
        /\ record \in Records
        /\ CalmBehind(last, calm_since) /\ Summary(record, last, calm_since)
    BY <1>1 DEF IInv, TypeOK
  <1>3. /\ Observed(record, s) \in Records
        /\ Summary(Observed(record, s), s, NextCalm(last, calm_since, s))
        /\ Assessment(record, s) \in Blockers \cup {"trusted"}
        /\ Assessment(record, s) = "trusted" => Observed(record, s).trusted
    BY <1>2, ObservedSound
  <1>4. Put(o, Observed(record, s)) /\ Return(o, Assessment(record, s))
    BY <1>1 DEF Write
  <1> HIDE DEF s
  <1>5. /\ state' = "valid" /\ record' = Observed(record, s)
        /\ pending' = pending /\ quarantine' = quarantine
        /\ last' \in Samples /\ calm_since' \in Nat \cup {None}
        /\ CalmBehind(last', calm_since')
        /\ Summary(record', last', calm_since')
    BY <1>3, <1>4, PutSound DEF s
  <1>6. /\ lock' \in Observers \cup {NoOne}
        /\ pc' \in [Observers -> Stages]
        /\ sample' \in [Observers -> Samples]
        /\ seen' \in [Observers -> Records]
        /\ \A p \in Observers : pc'[p] \notin Working
    BY <1>1, <1>4, ReturnSound DEF IInv
  <1>7. verdict' = Assessment(record, s)
    BY <1>4 DEF Return
  <1>8. TypeOK'
    BY <1>3, <1>5, <1>6, <1>7 DEF TypeOK, IInv, Write, clock_vars
  <1>9. TrustEarned'
    BY <1>3, <1>5, <1>7, TrustFollows DEF TrustEarned
  <1>10. LockHeld' /\ FoundHolds'
    BY <1>6 DEF LockHeld, FoundHolds, Working
  <1> QED  BY <1>5, <1>8, <1>9, <1>10 DEF IInv

\* Writing the first record, or the one after a corrupt one.
LEMMA BaselineKeeps ==
    ASSUME IInv, NEW o \in Observers, WriteBaseline(o)
    PROVE  IInv'
  <1> DEFINE s == sample[o]
  <1>1. lock = o
    BY DEF WriteBaseline, IInv, LockHeld, Working
  <1>2. /\ s \in Samples /\ last \in Samples /\ calm_since \in Nat \cup {None}
        /\ CalmBehind(last, calm_since)
    BY DEF IInv, TypeOK
  <1>3. /\ Baseline(s) \in Records
        /\ Summary(Baseline(s), s, NextCalm(last, calm_since, s))
    BY <1>2, BaselineSound
  <1>4. Put(o, Baseline(s)) /\ \E a \in {"missing_state", "corrupt_state"} : Return(o, a)
    BY DEF WriteBaseline
  <1> HIDE DEF s
  <1>5. /\ state' = "valid" /\ record' = Baseline(s)
        /\ pending' = pending /\ quarantine' = quarantine
        /\ last' \in Samples /\ calm_since' \in Nat \cup {None}
        /\ CalmBehind(last', calm_since')
        /\ Summary(record', last', calm_since')
    BY <1>3, <1>4, PutSound DEF s
  <1>6. /\ lock' \in Observers \cup {NoOne}
        /\ pc' \in [Observers -> Stages]
        /\ sample' \in [Observers -> Samples]
        /\ seen' \in [Observers -> Records]
        /\ \A p \in Observers : pc'[p] \notin Working
    BY <1>1, <1>4, ReturnSound DEF IInv
  <1>7. verdict' \in {"missing_state", "corrupt_state"}
    BY <1>4 DEF Return
  <1>8. TypeOK'
    BY <1>3, <1>5, <1>6, <1>7 DEF TypeOK, IInv, WriteBaseline, clock_vars, Blockers
  <1>9. TrustEarned'
    BY <1>7 DEF TrustEarned
  <1>10. LockHeld' /\ FoundHolds'
    BY <1>6 DEF LockHeld, FoundHolds, Working
  <1> QED  BY <1>5, <1>8, <1>9, <1>10 DEF IInv

\* A write that raises, with the new record in place or not.
LEMMA FailedWriteKeeps ==
    ASSUME IInv, NEW o \in Observers, WriteFails(o)
    PROVE  IInv'
  <1> DEFINE s == sample[o]
             new == IF pc[o] = "writing" THEN Observed(seen[o], s) ELSE Baseline(s)
  <1>1. lock = o /\ (pc[o] = "writing" => state = "valid" /\ seen[o] = record)
    BY DEF WriteFails, IInv, LockHeld, FoundHolds, Working
  <1>2. /\ s \in Samples /\ last \in Samples /\ calm_since \in Nat \cup {None}
        /\ record \in Records /\ faults \in Nat
        /\ CalmBehind(last, calm_since)
        /\ state = "valid" => Summary(record, last, calm_since)
    BY DEF IInv, TypeOK
  <1>3. new \in Records /\ Summary(new, s, NextCalm(last, calm_since, s))
    <2>1. CASE pc[o] = "writing"
      BY <1>1, <1>2, <2>1, ObservedSound
    <2>2. CASE pc[o] # "writing"
      BY <1>2, <2>2, BaselineSound
    <2> QED  BY <2>1, <2>2
  <1>4. UNCHANGED <<disk_vars, history_vars>> \/ Put(o, new)
    BY DEF WriteFails
  <1>5. Return(o, "raised")
    BY DEF WriteFails
  <1> HIDE DEF s, new
  <1>6. /\ state' \in {state, "valid"} /\ record' \in Records
        /\ pending' = pending /\ quarantine' = quarantine
        /\ last' \in Samples /\ calm_since' \in Nat \cup {None}
        /\ CalmBehind(last', calm_since')
        /\ state' = "valid" => Summary(record', last', calm_since')
    <2>1. CASE UNCHANGED <<disk_vars, history_vars>>
      BY <1>2, <2>1 DEF disk_vars, history_vars
    <2>2. CASE Put(o, new)
      BY <1>3, <2>2, PutSound DEF s
    <2> QED  BY <1>4, <2>1, <2>2
  <1>7. /\ lock' \in Observers \cup {NoOne}
        /\ pc' \in [Observers -> Stages]
        /\ sample' \in [Observers -> Samples]
        /\ seen' \in [Observers -> Records]
        /\ \A p \in Observers : pc'[p] \notin Working
    BY <1>1, <1>5, ReturnSound DEF IInv
  <1>8. verdict' = "raised"
    BY <1>5 DEF Return
  <1>9. faults' \in Nat /\ monotonic' = monotonic /\ boot' = boot
    BY <1>2 DEF WriteFails, Fault, clock_vars
  <1>10. TypeOK'
    BY <1>6, <1>7, <1>8, <1>9 DEF TypeOK, IInv
  <1>11. TrustEarned'
    BY <1>8 DEF TrustEarned
  <1>12. LockHeld' /\ FoundHolds'
    BY <1>7 DEF LockHeld, FoundHolds, Working
  <1> QED  BY <1>6, <1>10, <1>11, <1>12 DEF IInv

-----------------------------------------------------------------------------
\* The steps that write no record keep what it summarises.
SummaryKept ==
    /\ CalmBehind(last, calm_since)
    /\ state = "valid" => Summary(record, last, calm_since)

\* Without a write the record keeps summarising the same samples.
LEMMA NoRecordWritten ==
    ASSUME SummaryKept, UNCHANGED <<record, history_vars>>,
           state' = "valid" => state = "valid"
    PROVE  SummaryKept'
  BY DEF SummaryKept, history_vars

\* observe ends without a record of its own.
LEMMA RefusalKeeps ==
    ASSUME IInv, NEW o \in Observers, ReadUnsafe(o) \/ QuarantineFails(o)
    PROVE  IInv'
  <1>1. Return(o, "corrupt_state") /\ lock \in {o, NoOne}
    BY DEF ReadUnsafe, QuarantineFails, IInv, LockHeld, Working
  <1>2. /\ lock' \in Observers \cup {NoOne}
        /\ pc' \in [Observers -> Stages]
        /\ sample' \in [Observers -> Samples]
        /\ seen' \in [Observers -> Records]
        /\ \A p \in Observers : pc'[p] \notin Working
    BY <1>1, ReturnSound DEF IInv
  <1>3. verdict' = "corrupt_state"
    BY <1>1 DEF Return
  <1>4. /\ state' \in {state, "missing"} /\ pending' \in {pending, "none"}
        /\ UNCHANGED <<record, quarantine, clock_vars, history_vars>>
        /\ faults' \in {faults, faults + 1}
    BY DEF ReadUnsafe, QuarantineFails, Fault, disk_vars
  <1>5. TypeOK'
    BY <1>2, <1>3, <1>4 DEF TypeOK, IInv, Blockers, clock_vars, history_vars
  <1>6. SummaryKept'
    BY <1>4, NoRecordWritten DEF IInv, SummaryKept
  <1>7. LockHeld' /\ FoundHolds' /\ TrustEarned'
    BY <1>2, <1>3 DEF LockHeld, FoundHolds, TrustEarned, Working
  <1> QED  BY <1>5, <1>6, <1>7 DEF IInv, SummaryKept

\* Taking a sample, and taking the lock.
LEMMA ReadKeeps ==
    ASSUME IInv, NEW o \in Observers,
           \/ \E utc \in 0..MaxUtc, synchronized \in BOOLEAN : Sample(o, utc, synchronized)
           \/ Read(o)
           \/ ReadNone(o)
    PROVE  IInv'
  <1>1. UNCHANGED <<clock_vars, disk_vars, verdict, faults, history_vars>>
    BY DEF Sample, Read, ReadNone
  <1>2. SummaryKept' /\ TrustEarned'
    BY <1>1, NoRecordWritten DEF IInv, SummaryKept, TrustEarned, disk_vars, history_vars
  <1>3. TypeOK'
    <2>1. \/ /\ lock' = lock /\ seen' = seen
             /\ \E v \in Samples : sample' = [sample EXCEPT ![o] = v]
          \/ /\ lock' = o /\ sample' = sample
             /\ seen' = seen \/ seen' = [seen EXCEPT ![o] = record]
      BY BoundsAssumption DEF Sample, Read, ReadNone, Samples, IInv, TypeOK
    <2>2. \E v \in Stages : pc' = [pc EXCEPT ![o] = v]
      BY DEF Sample, Read, ReadNone, Stages
    <2> QED  BY <1>1, <2>1, <2>2 DEF IInv, TypeOK, clock_vars, disk_vars, history_vars
  <1>4. LockHeld' /\ FoundHolds'
    <2> SUFFICES ASSUME NEW p \in Observers
                 PROVE  /\ pc'[p] \in Working => lock' = p
                        /\ pc'[p] = "writing" => state' = "valid" /\ seen'[p] = record'
                        /\ pc'[p] \in {"baselining", "rebasing"} => state' = "missing"
                        /\ pc'[p] \in {"copying", "published"} => state' = "corrupt"
                        /\ pc'[p] = "published" => quarantine' = "exact"
      BY DEF LockHeld, FoundHolds
    <2>1. CASE p = o
      BY <1>1, <2>1 DEF Sample, Read, ReadNone, Working, IInv, TypeOK, disk_vars
    <2>2. CASE p # o /\ pc[p] \notin Working
      BY <2>2 DEF Sample, Read, ReadNone, Working, IInv, TypeOK
    <2>3. CASE p # o /\ pc[p] \in Working
      <3>1. lock = p /\ lock # NoOne
        BY <2>3, ObserversAssumption DEF IInv, LockHeld
      <3>2. /\ \E v \in Stages : pc' = [pc EXCEPT ![o] = v]
            /\ lock' = lock /\ seen' = seen
        BY <3>1 DEF Sample, Read, ReadNone, Stages
      <3> QED  BY <1>1, <2>3, <3>1, <3>2 DEF IInv, TypeOK, FoundHolds, disk_vars
    <2> QED  BY <2>1, <2>2, <2>3
  <1> QED  BY <1>2, <1>3, <1>4 DEF IInv, SummaryKept

\* The holder preserves a corrupt record.
LEMMA CopyKeeps ==
    ASSUME IInv, NEW o \in Observers,
           CreateCopy(o) \/ CompleteCopy(o) \/ PublishCopy(o) \/ UnlinkCorrupt(o)
    PROVE  IInv'
  <1>1. lock = o /\ state = "corrupt"
    BY DEF CreateCopy, CompleteCopy, PublishCopy, UnlinkCorrupt, IInv, LockHeld,
           FoundHolds, Working
  <1>2. /\ UNCHANGED <<clock_vars, record, lock, sample, seen, verdict, faults, history_vars>>
        /\ state' \in {"corrupt", "missing"}
    BY <1>1 DEF CreateCopy, CompleteCopy, PublishCopy, UnlinkCorrupt
  <1>3. SummaryKept' /\ TrustEarned'
    BY <1>2, NoRecordWritten DEF IInv, SummaryKept, TrustEarned, history_vars
  <1>4. TypeOK'
    <2>1. /\ pending' \in {"none", "partial", "exact"} /\ quarantine' \in {"none", "exact"}
          /\ pc' = pc \/ \E v \in Stages : pc' = [pc EXCEPT ![o] = v]
      BY DEF CreateCopy, CompleteCopy, PublishCopy, UnlinkCorrupt, Stages, IInv, TypeOK
    <2> QED  BY <1>2, <2>1 DEF IInv, TypeOK, clock_vars, history_vars
  <1>5. \A p \in Observers : p # o => pc'[p] \notin Working
    BY <1>1 DEF CreateCopy, CompleteCopy, PublishCopy, UnlinkCorrupt, IInv, TypeOK, LockHeld
  <1>6. \/ pc'[o] = "copying" /\ state' = "corrupt"
        \/ pc'[o] = "published" /\ state' = "corrupt" /\ quarantine' = "exact"
        \/ pc'[o] = "rebasing" /\ state' = "missing"
    BY <1>1 DEF CreateCopy, CompleteCopy, PublishCopy, UnlinkCorrupt, IInv, TypeOK
  <1>7. LockHeld' /\ FoundHolds'
    BY <1>1, <1>2, <1>5, <1>6 DEF LockHeld, FoundHolds, Working
  <1> QED  BY <1>3, <1>4, <1>7 DEF IInv, SummaryKept

\* Death, damage, time and reboots.
LEMMA WorldKeeps ==
    ASSUME IInv, Damage \/ Tick \/ Reboot \/ \E o \in Observers : Die(o)
    PROVE  IInv'
  <1>1. NoSample \in Samples /\ NoRecord \in Records /\ "idle" \in Stages
    BY DEF NoSample, NoRecord, Samples, Records, Stages, None
  <1>2. /\ UNCHANGED <<record, verdict, history_vars>>
        /\ state' = "valid" => state = "valid"
    BY DEF Damage, Tick, Reboot, Die, disk_vars
  <1>3. SummaryKept' /\ TrustEarned'
    BY <1>2, NoRecordWritten DEF IInv, SummaryKept, TrustEarned, history_vars
  <1>4. TypeOK' /\ LockHeld' /\ FoundHolds'
    <2>1. CASE Damage
      <3>1. \A p \in Observers : pc[p] \notin Working
        BY <2>1, ObserversAssumption DEF Damage, IInv, LockHeld
      <3> QED  BY <2>1, <3>1 DEF Damage, Fault, IInv, TypeOK, LockHeld, FoundHolds,
                  Working, clock_vars, history_vars
    <2>2. CASE Tick
      BY <2>2 DEF Tick, IInv, TypeOK, LockHeld, FoundHolds, disk_vars, history_vars
    <2>3. CASE Reboot
      BY <2>3, <1>1 DEF Reboot, IInv, TypeOK, LockHeld, FoundHolds, Working, disk_vars,
                     history_vars
    <2>4. ASSUME NEW o \in Observers, Die(o) PROVE TypeOK' /\ LockHeld' /\ FoundHolds'
      <3>1. /\ pc' = [pc EXCEPT ![o] = "idle"] /\ seen' = [seen EXCEPT ![o] = NoRecord]
            /\ sample' = [sample EXCEPT ![o] = NoSample]
            /\ lock' = (IF lock = o THEN NoOne ELSE lock)
            /\ UNCHANGED <<monotonic, boot, state, record, pending, quarantine, verdict,
                           last, calm_since>>
            /\ faults' = faults + 1
        BY <2>4 DEF Die, Fault, clock_vars, disk_vars, history_vars
      <3>2. TypeOK'
        BY <1>1, <3>1 DEF IInv, TypeOK
      <3>3. LockHeld' /\ FoundHolds'
        BY <3>1 DEF IInv, TypeOK, LockHeld, FoundHolds, Working
      <3> QED  BY <3>2, <3>3
    <2> QED  BY <2>1, <2>2, <2>3, <2>4
  <1> QED  BY <1>3, <1>4 DEF IInv, SummaryKept

-----------------------------------------------------------------------------
\* A new cache root satisfies the invariant.
LEMMA InitSound == Init => IInv
  <1> SUFFICES ASSUME Init PROVE IInv
    OBVIOUS
  <1>1. NoSample \in Samples /\ NoRecord \in Records /\ "idle" \in Stages
    BY DEF NoSample, NoRecord, Samples, Records, Stages, None
  <1>2. TypeOK
    BY <1>1 DEF Init, TypeOK
  <1> QED  BY <1>2 DEF Init, IInv, LockHeld, FoundHolds, Working, CalmBehind, TrustEarned

\* Every step keeps the invariant.
LEMMA NextSound == IInv /\ [Next]_vars => IInv'
  <1> SUFFICES ASSUME IInv, [Next]_vars PROVE IInv'
    OBVIOUS
  <1>1. CASE UNCHANGED vars
    BY <1>1 DEF vars, clock_vars, disk_vars, history_vars, IInv, TypeOK, LockHeld,
                FoundHolds, TrustEarned
  <1>2. CASE Next
    BY <1>2, ReadKeeps, RefusalKeeps, WriteKeeps, BaselineKeeps, FailedWriteKeeps,
       CopyKeeps, WorldKeeps DEF Next
  <1> QED  BY <1>1, <1>2

\* IInv holds in every state of every behaviour.
THEOREM Invariance == Spec => []IInv
  BY InitSound, NextSound, PTL DEF Spec

\* Every variable keeps its type.
THEOREM TypeCorrect == Spec => []TypeOK
  <1>1. IInv => TypeOK
    BY DEF IInv
  <1> QED  BY Invariance, <1>1, PTL

\* observe never trusts the clock before a healthy window has passed, for every
\* window and slew and any number of observers.
THEOREM TrustIsEarned == Spec => []TrustEarned
  <1>1. IInv => TrustEarned
    BY DEF IInv
  <1> QED  BY Invariance, <1>1, PTL

\* Every record written passes the validation of the next read.
THEOREM RecordsReadable == Spec => []RecordAcceptable
  <1>1. IInv => RecordAcceptable
    BY DEF IInv, RecordAcceptable, Summary
  <1> QED  BY Invariance, <1>1, PTL

\* A corrupt record is never lost: it is unlinked only after its exact copy is
\* under the quarantine name.
THEOREM EvidencePreserved == Spec => EvidenceKept
  <1>1. ASSUME IInv, [Next]_vars, state = "corrupt", state' # "corrupt"
        PROVE  quarantine = "exact"
    <2>1. \A o \in Observers : pc[o] \notin {"writing", "baselining", "rebasing"}
      BY <1>1 DEF IInv, FoundHolds
    <2>2. state' # state
      BY <1>1
    <2>3. PICK o \in Observers : UnlinkCorrupt(o) \/ QuarantineFails(o)
      BY <1>1, <2>1, <2>2 DEF Next, vars, Sample, Read, ReadNone, ReadUnsafe, Write,
         WriteBaseline, CreateCopy, CompleteCopy, PublishCopy, WriteFails, Die, Damage,
         Tick, Reboot, disk_vars
    <2>4. pc[o] = "published"
      BY <2>2, <2>3 DEF UnlinkCorrupt, QuarantineFails
    <2> QED  BY <1>1, <2>4 DEF IInv, FoundHolds
  <1>2. IInv /\ [Next]_vars
          => [state = "corrupt" /\ state' # "corrupt" => quarantine = "exact"]_vars
    BY <1>1
  <1> QED  BY Invariance, <1>2, PTL DEF Spec, EvidenceKept
=============================================================================
