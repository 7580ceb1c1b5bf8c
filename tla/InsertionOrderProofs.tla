------------------------ MODULE InsertionOrderProofs ------------------------
(***************************************************************************)
(* The eviction order on the disk is refused only when no sequence is      *)
(* left, never given out twice and never changed behind a published        *)
(* object, for any set of objects.                                         *)
(*                                                                         *)
(* The argument: the high-water record is written before the record it     *)
(* makes room for, so every record is below the first sequence that may    *)
(* still be given out (RecordsBelow), which is not above the high-water    *)
(* record (HighWaterAhead).  Which objects memory knows, and which one the *)
(* lock holder works on, decides whose record may change (OpSound,         *)
(* MemorySound).                                                           *)
(***************************************************************************)
EXTENDS InsertionOrder, TLAPS

Running == mode \in {"loading", "up"}

\* What the lock holder has established about its object.
OpSound ==
    /\ op # Idle => Running /\ op.object \in dirs
    /\ op.kind = "allocating" => /\ next_sequence > 1
                                 /\ sequences[op.object] = 0
                                 /\ mode = "loading" => record[op.object] = 0
    /\ op.kind = "publishing" => mode = "up" /\ sequences[op.object] # 0
    /\ op.kind = "removing" => mode = "up" /\ op.object \in doomed

\* Records are distinct and below the first sequence not given out.
RecordsBelow ==
    /\ \A o \in Objects : record[o] # 0 => o \in dirs /\ record[o] < Fresh
    /\ \A o, e \in Objects : record[o] = record[e] /\ record[o] # 0 => o = e

\* Memory is never ahead of the high-water record.
HighWaterAhead == Running => next_sequence <= high_water

\* What memory knows is what was recorded, until a removal is begun; a running
\* store has forgotten a published object only to remove it.
MemorySound ==
    /\ mode = "down" => \A o \in Objects : sequences[o] = 0
    /\ mode = "loading" => \A o \in Objects : sequences[o] # 0 => sequences[o] = record[o]
    /\ \A o \in Objects : sequences[o] # 0 /\ record[o] = 0 => o \in doomed
    /\ \A o \in contents : record[o] = 0 => o \in doomed
    /\ mode = "up" => \A o \in contents : sequences[o] = 0 => o \in doomed

IInv ==
    /\ TypeOK
    /\ RefusedOnlyWhenExhausted
    /\ OpSound
    /\ RecordsBelow
    /\ HighWaterAhead
    /\ MemorySound

USE MaxSequenceAssumption

\* The sequences in play are positive, and Fresh is one of them.
LEMMA Numbers ==
    ASSUME IInv
    PROVE  /\ next_sequence \in Nat /\ next_sequence >= 1
           /\ high_water \in Nat
           /\ Running => next_sequence <= high_water
           /\ op.kind = "allocating" => Running /\ next_sequence > 1
           /\ Fresh \in Nat /\ Fresh >= 1
  <1>1. next_sequence \in 1..MaxSequence /\ high_water \in 0..MaxSequence
    BY DEF IInv, TypeOK
  <1>2. op.kind = "allocating" => Running /\ next_sequence > 1
    BY DEF IInv, OpSound, Idle
  <1>3. Running => next_sequence <= high_water
    BY DEF IInv, HighWaterAhead
  <1> QED
    BY <1>1, <1>2, <1>3 DEF Fresh, Running

\* A new cache root satisfies the invariant.
LEMMA InitInv == Init => IInv
  BY DEF Init, IInv, TypeOK, RefusedOnlyWhenExhausted, OpSound, RecordsBelow, HighWaterAhead,
         MemorySound, Running, Fresh, Idle, Kinds

\* A start after a crash: the high-water record is read.
LEMMA StartInv == ASSUME IInv, Start PROVE IInv'
  <1>1. ~(high_water = 0 /\ \E o \in dirs : record[o] # 0)
    BY DEF IInv, TypeOK, RecordsBelow, Fresh, Start
  <1>2. /\ mode' = "loading" /\ mode = "down"
        /\ high_water' = IF high_water = 0 THEN 1 ELSE high_water
        /\ next_sequence' = high_water'
        /\ UNCHANGED <<dirs, contents, record, sequences, op, doomed>>
    BY <1>1 DEF Start
  <1>3. op = Idle
    BY <1>2 DEF IInv, OpSound, Running
  <1>4. TypeOK' /\ RefusedOnlyWhenExhausted' /\ OpSound' /\ HighWaterAhead'
    BY <1>2, <1>3 DEF IInv, TypeOK, RefusedOnlyWhenExhausted, OpSound, HighWaterAhead, Running, Idle
  <1>5. Fresh' = Fresh
    BY <1>2, <1>3 DEF Fresh, Idle
  <1>6. RecordsBelow' /\ MemorySound'
    BY <1>2, <1>5 DEF IInv, RecordsBelow, MemorySound, Running
  <1> QED
    BY <1>4, <1>6 DEF IInv

\* The record of one object is loaded.
LEMMA LoadInv == ASSUME IInv, NEW o \in Objects, LoadRecord(o) PROVE IInv'
  <1>1. Acceptable(o)
    BY DEF IInv, TypeOK, RecordsBelow, MemorySound, Fresh, LoadRecord, Acceptable, Idle
  <1>2. /\ sequences' = [sequences EXCEPT ![o] = record[o]]
        /\ mode = "loading" /\ op = Idle /\ record[o] # 0
        /\ UNCHANGED <<mode, disk_vars, next_sequence, op, doomed>>
    BY <1>1 DEF LoadRecord
  <1>3. TypeOK' /\ RefusedOnlyWhenExhausted' /\ HighWaterAhead' /\ RecordsBelow'
    BY <1>2 DEF IInv, TypeOK, RefusedOnlyWhenExhausted, HighWaterAhead, RecordsBelow, Running, Fresh,
                disk_vars
  <1>4. OpSound'
    BY <1>2 DEF IInv, OpSound, Running, Idle, disk_vars
  <1>5. MemorySound'
    BY <1>2 DEF IInv, TypeOK, MemorySound, Running, disk_vars
  <1> QED
    BY <1>3, <1>4, <1>5 DEF IInv

\* Every record is loaded and the store opens.
LEMMA LoadedInv == ASSUME IInv, Loaded PROVE IInv'
  <1>1. TypeOK' /\ RefusedOnlyWhenExhausted' /\ HighWaterAhead' /\ RecordsBelow' /\ OpSound'
    BY DEF IInv, TypeOK, RefusedOnlyWhenExhausted, HighWaterAhead, RecordsBelow, OpSound, Running, Fresh,
           Loaded, disk_vars, Idle
  <1>2. MemorySound'
    BY DEF IInv, TypeOK, MemorySound, Running, Loaded, disk_vars
  <1> QED
    BY <1>1, <1>2 DEF IInv

\* A crash loses the memory and keeps the disk.
LEMMA CrashInv == ASSUME IInv, Crash PROVE IInv'
  <1>1. TypeOK' /\ RefusedOnlyWhenExhausted' /\ HighWaterAhead' /\ OpSound'
    BY DEF IInv, TypeOK, RefusedOnlyWhenExhausted, HighWaterAhead, OpSound, Running, Crash, disk_vars,
           Done, Idle
  <1>4. MemorySound'
    <2>1. /\ mode' = "down" /\ UNCHANGED <<contents, record, doomed>>
          /\ \A o \in Objects : sequences'[o] = 0
      BY DEF Crash, disk_vars
    <2>2. contents \in SUBSET Objects
      BY DEF IInv, TypeOK
    <2> QED
      BY <2>1, <2>2 DEF IInv, MemorySound, Running
  <1>2. Fresh' >= Fresh
    BY Numbers DEF Running, Fresh, Crash, disk_vars
  <1>3. RecordsBelow'
    <2>1. Fresh' \in Nat /\ Fresh \in Nat
      BY Numbers DEF Fresh, Crash, disk_vars
    <2> QED
      BY <1>2, <2>1 DEF IInv, TypeOK, RecordsBelow, Crash, disk_vars
  <1> QED
    BY <1>1, <1>3, <1>4 DEF IInv

\* Making a directory, and the steps that only move the lock holder on.
LEMMA QuietInv ==
    ASSUME IInv, NEW o \in Objects,
           MakeDirectory(o) \/ FindSequence(o) \/ Publish(o) \/ BeginRemoval(o) \/ RemovalFails(o)
    PROVE  IInv'
  <1>1. UNCHANGED <<record, high_water, mode, sequences, next_sequence>>
    BY DEF MakeDirectory, FindSequence, Publish, BeginRemoval, RemovalFails, disk_vars
  <1>2. dirs \subseteq dirs' /\ doomed \subseteq doomed' /\ doomed' \in SUBSET dirs'
        /\ dirs' \in SUBSET Objects
    BY DEF MakeDirectory, FindSequence, Publish, BeginRemoval, RemovalFails, disk_vars, IInv,
           TypeOK
  <1>3. /\ op' \in [kind : Kinds, object : Objects] \cup {Idle}
        /\ \/ op.kind # "allocating" /\ op'.kind # "allocating"
           \/ op' = op
    BY DEF MakeDirectory, FindSequence, Publish, BeginRemoval, RemovalFails, Doing, Begin,
           Done, Idle, Kinds, IInv, TypeOK
  <1>4. contents' \in SUBSET dirs'
        /\ \A e \in contents' \ contents : mode = "up" /\ sequences[e] # 0
    BY DEF MakeDirectory, FindSequence, Publish, BeginRemoval, RemovalFails, Doing, disk_vars,
           IInv, TypeOK, OpSound, Idle, Kinds
  <1>5. TypeOK' /\ RefusedOnlyWhenExhausted' /\ HighWaterAhead'
    <2>1. mode # "refused"
      BY DEF MakeDirectory, FindSequence, Publish, BeginRemoval, RemovalFails, Doing, IInv,
             OpSound, Running, Idle
    <2> QED
      BY <1>1, <1>2, <1>3, <1>4, <2>1
         DEF IInv, TypeOK, RefusedOnlyWhenExhausted, HighWaterAhead, Running
  <1>6. RecordsBelow'
    <2>1. Fresh' = Fresh
      BY <1>1, <1>3 DEF Fresh
    <2> QED
      BY <1>1, <1>2, <2>1 DEF IInv, RecordsBelow
  <1>7. OpSound'
    <2>1. CASE MakeDirectory(o)
      BY <2>1, <1>1, <1>2 DEF IInv, OpSound, MakeDirectory, Running
    <2>2. CASE FindSequence(o)
      BY <2>2, <1>1 DEF IInv, OpSound, FindSequence, Begin, Running, Idle, disk_vars
    <2>3. CASE Publish(o) \/ RemovalFails(o)
      BY <2>3, <1>1 DEF IInv, OpSound, Publish, RemovalFails, Done, Running, Idle
    <2>4. CASE BeginRemoval(o)
      BY <2>4, <1>1 DEF IInv, OpSound, BeginRemoval, Begin, Running, Idle, disk_vars
    <2> QED
      BY <2>1, <2>2, <2>3, <2>4
  <1>8. MemorySound'
    BY <1>1, <1>2, <1>4 DEF IInv, TypeOK, MemorySound, Running
  <1> QED
    BY <1>5, <1>6, <1>7, <1>8 DEF IInv

\* The high-water record moves before the sequence is used.
LEMMA WriteHighWaterInv == ASSUME IInv, NEW o \in Objects, WriteHighWater(o) PROVE IInv'
  <1>1. /\ op = Idle /\ op' = [kind |-> "allocating", object |-> o]
        /\ high_water' = next_sequence + 1 /\ next_sequence' = next_sequence + 1
        /\ next_sequence < MaxSequence /\ Running /\ o \in dirs /\ sequences[o] = 0
        /\ mode = "loading" => record[o] = 0
        /\ UNCHANGED <<dirs, contents, record, mode, sequences, doomed>>
    BY DEF WriteHighWater, NeedsSequence, SequencesLeft, Begin, Running
  <1>2. TypeOK' /\ RefusedOnlyWhenExhausted' /\ HighWaterAhead'
    BY <1>1 DEF IInv, TypeOK, RefusedOnlyWhenExhausted, HighWaterAhead, Running, Kinds
  <1>3. OpSound'
    BY <1>1 DEF IInv, TypeOK, OpSound, Running, Idle
  <1>4. Fresh' = Fresh
    BY <1>1 DEF IInv, TypeOK, Fresh, Running, Idle
  <1>5. RecordsBelow' /\ MemorySound'
    BY <1>1, <1>4 DEF IInv, RecordsBelow, MemorySound, Running
  <1> QED
    BY <1>2, <1>3, <1>5 DEF IInv

\* The record is written, for an allocation that goes on or for one that fails.
LEMMA WriteRecordInv ==
    ASSUME IInv, NEW o \in Objects, WriteRecord(o)
    PROVE  IInv'
  <1>1. /\ op.kind = "allocating" /\ op.object = o /\ op # Idle
        /\ op' = IF mode = "up" THEN [kind |-> "publishing", object |-> o] ELSE Idle
        /\ record' = [record EXCEPT ![o] = next_sequence - 1]
        /\ sequences' = [sequences EXCEPT ![o] = next_sequence - 1]
        /\ UNCHANGED <<dirs, contents, high_water, mode, next_sequence, doomed>>
    BY DEF WriteRecord, Doing, Begin, Done, Idle
  <1>2. Running /\ o \in dirs /\ next_sequence > 1
    BY <1>1 DEF IInv, OpSound
  <1>3. next_sequence - 1 \in 1..MaxSequence
    BY <1>2 DEF IInv, TypeOK
  <1>4. TypeOK' /\ RefusedOnlyWhenExhausted' /\ HighWaterAhead'
    BY <1>1, <1>2, <1>3 DEF IInv, TypeOK, RefusedOnlyWhenExhausted, HighWaterAhead, Running, Kinds
  <1>5. OpSound'
    BY <1>1, <1>2, <1>3 DEF IInv, TypeOK, OpSound, Running, Idle
  <1>6. Fresh = next_sequence - 1 /\ Fresh' = next_sequence
    BY <1>1, <1>2 DEF Fresh, Running, Idle
  <1>7. RecordsBelow'
    BY <1>1, <1>2, <1>3, <1>6 DEF IInv, TypeOK, RecordsBelow
  <1>8. MemorySound'
    BY <1>1, <1>2, <1>3 DEF IInv, TypeOK, MemorySound, Running
  <1> QED
    BY <1>4, <1>5, <1>7, <1>8 DEF IInv

\* No sequence is left: initialize refuses to start, and nothing is written.
LEMMA RefusalInv ==
    ASSUME IInv, NEW o \in Objects, AllocateExhausted(o), mode = "loading"
    PROVE  IInv'
  <1>1. /\ o \in dirs /\ record[o] = 0 /\ op = Idle /\ ~(next_sequence < MaxSequence)
        /\ mode' = "refused"
        /\ UNCHANGED <<disk_vars, sequences, next_sequence, op, doomed>>
    BY DEF AllocateExhausted, NeedsSequence, SequencesLeft, CleanUp
  <1>2. high_water = MaxSequence /\ next_sequence = MaxSequence
    BY <1>1 DEF IInv, TypeOK, HighWaterAhead, Running
  <1>3. RefusedOnlyWhenExhausted'
    BY <1>1, <1>2 DEF IInv, MemorySound, RefusedOnlyWhenExhausted, disk_vars
  <1>4. TypeOK' /\ OpSound' /\ HighWaterAhead'
    BY <1>1 DEF IInv, TypeOK, OpSound, HighWaterAhead, Running, Idle, disk_vars
  <1>5. Fresh' = Fresh
    BY <1>1, <1>2 DEF Fresh, Idle, disk_vars
  <1>6. RecordsBelow' /\ MemorySound'
    BY <1>1, <1>5 DEF IInv, RecordsBelow, MemorySound, disk_vars
  <1> QED
    BY <1>3, <1>4, <1>6 DEF IInv

\* A failing allocation, write or publication turns into a removal.
LEMMA FailureInv ==
    ASSUME IInv, NEW o \in Objects,
           \/ AllocateExhausted(o) /\ mode # "loading"
           \/ HighWaterFails(o) \/ RecordFails(o) \/ PublishFails(o)
    PROVE  IInv'
  <1>1. /\ mode = "up" /\ sequences' = [sequences EXCEPT ![o] = 0]
        /\ op' = [kind |-> "removing", object |-> o] /\ doomed' = doomed \cup {o}
        /\ UNCHANGED <<dirs, contents, mode, next_sequence>>
    BY DEF AllocateExhausted, HighWaterFails, RecordFails, PublishFails, CleanUp, Begin, disk_vars
  <1>2. o \in dirs
    BY DEF AllocateExhausted, HighWaterFails, RecordFails, PublishFails, NeedsSequence, Doing,
           IInv, OpSound, Idle
  <1>3. \/ record' = record /\ (op.kind # "allocating" \/ next_sequence > 1)
        \/ /\ record' = [record EXCEPT ![o] = next_sequence - 1]
           /\ op.kind = "allocating" /\ next_sequence > 1
    BY DEF AllocateExhausted, HighWaterFails, RecordFails, PublishFails, Doing, IInv, OpSound,
           disk_vars
  <1>4. high_water' \in 1..MaxSequence /\ next_sequence <= high_water'
    BY <1>1 DEF AllocateExhausted, HighWaterFails, RecordFails, PublishFails, SequencesLeft,
                IInv, TypeOK, HighWaterAhead, Running, disk_vars
  <1>5. TypeOK'
    BY <1>1, <1>2, <1>3, <1>4 DEF IInv, TypeOK, Kinds
  <1>6. RefusedOnlyWhenExhausted' /\ HighWaterAhead' /\ OpSound'
    BY <1>1, <1>2, <1>4 DEF RefusedOnlyWhenExhausted, HighWaterAhead, OpSound, Running, Idle
  <1>7. Fresh' = next_sequence
        /\ Fresh = IF op.kind = "allocating" THEN next_sequence - 1 ELSE next_sequence
    BY <1>1 DEF Fresh
  <1>8. RecordsBelow'
    BY <1>1, <1>2, <1>3, <1>7 DEF IInv, TypeOK, RecordsBelow
  <1>9. MemorySound'
    BY <1>1, <1>3 DEF IInv, TypeOK, MemorySound, Running
  <1> QED
    BY <1>5, <1>6, <1>8, <1>9 DEF IInv

\* A removal, one unlink at a time.
LEMMA RemovalInv ==
    ASSUME IInv, NEW o \in Objects, UnlinkRecord(o) \/ UnlinkContent(o) \/ RemoveDirectory(o)
    PROVE  IInv'
  <1>1. op = [kind |-> "removing", object |-> o] /\ mode = "up" /\ o \in doomed
    BY DEF IInv, OpSound, UnlinkRecord, UnlinkContent, RemoveDirectory, Doing
  <1>2. UNCHANGED <<high_water, mode, next_sequence>>
    BY DEF UnlinkRecord, UnlinkContent, RemoveDirectory
  <1>3. /\ record' = record \/ record' = [record EXCEPT ![o] = 0]
        /\ sequences' = sequences \/ sequences' = [sequences EXCEPT ![o] = 0]
        /\ contents' \in SUBSET contents
    BY DEF UnlinkRecord, UnlinkContent, RemoveDirectory
  <1>4. \/ dirs' = dirs /\ doomed' = doomed /\ op' = op
        \/ /\ dirs' = dirs \ {o} /\ doomed' = doomed \ {o} /\ op' = Idle
           /\ record' = record /\ record[o] = 0 /\ o \notin contents'
           /\ sequences' = [sequences EXCEPT ![o] = 0]
    BY DEF UnlinkRecord, UnlinkContent, RemoveDirectory, Done
  <1>5. TypeOK'
    <2>1. contents' \in SUBSET dirs' /\ dirs' \in SUBSET Objects /\ doomed' \in SUBSET dirs'
      BY <1>3, <1>4 DEF IInv, TypeOK
    <2>2. record' \in [Objects -> 0..MaxSequence] /\ sequences' \in [Objects -> 0..MaxSequence]
      <3>1. 0 \in 0..MaxSequence
        OBVIOUS
      <3> QED
        BY <1>3, <3>1 DEF IInv, TypeOK
    <2> QED
      BY <1>2, <1>4, <2>1, <2>2 DEF IInv, TypeOK
  <1>6. RefusedOnlyWhenExhausted' /\ HighWaterAhead'
    BY <1>1, <1>2 DEF IInv, RefusedOnlyWhenExhausted, HighWaterAhead, Running
  <1>7. OpSound'
    BY <1>1, <1>2, <1>4 DEF IInv, OpSound, Running, Idle
  <1>8. RecordsBelow'
    <2>1. Fresh' = Fresh
      BY <1>1, <1>2, <1>4 DEF Fresh, Idle
    <2> QED
      BY <1>3, <1>4, <2>1 DEF IInv, TypeOK, RecordsBelow
  <1>9. MemorySound'
    BY <1>1, <1>2, <1>3, <1>4 DEF IInv, TypeOK, MemorySound, Running
  <1> QED
    BY <1>5, <1>6, <1>7, <1>8, <1>9 DEF IInv

\* Every step keeps the invariant.
LEMMA StepInv == IInv /\ [Next]_vars => IInv'
  <1> SUFFICES ASSUME IInv, [Next]_vars PROVE IInv'
    OBVIOUS
  <1>1. CASE UNCHANGED vars
    BY <1>1 DEF vars, disk_vars, IInv, TypeOK, RefusedOnlyWhenExhausted, OpSound, RecordsBelow,
                HighWaterAhead, MemorySound, Running, Fresh
  <1> QED
    BY <1>1, StartInv, LoadInv, LoadedInv, CrashInv, QuietInv, WriteHighWaterInv,
       WriteRecordInv, RefusalInv, FailureInv, RemovalInv DEF Next

\* The inductive invariant of PersistentInsertionOrder with its disk.
THEOREM Invariance == Spec => []IInv
  BY InitInv, StepInv, PTL DEF Spec

\* Type correctness, for any set of objects and any sequence bound.
THEOREM TypeCorrect == Spec => []TypeOK
  <1>1. IInv => TypeOK
    BY DEF IInv
  <1> QED
    BY <1>1, Invariance, PTL

\* initialize accepts the records that any crash or failing write left on the
\* disk; it refuses to start only when a directory that an unfinished
\* publication or removal left behind needs a sequence and none is left.
THEOREM StartsUnlessExhausted == Spec => []RefusedOnlyWhenExhausted
  <1>1. IInv => RefusedOnlyWhenExhausted
    BY DEF IInv
  <1> QED
    BY <1>1, Invariance, PTL

\* The record of a published object changes only after a removal of it was begun.
THEOREM PlaceSurvives == Spec => OrderSurvives
  <1>1. ASSUME IInv, [Next]_vars, NEW o \in contents, record'[o] # record[o]
        PROVE  o \in doomed
    <2>1. o \in Objects /\ record \in [Objects -> 0..MaxSequence]
      BY <1>1 DEF IInv, TypeOK
    <2>2. CASE \E e \in Objects : WriteRecord(e) \/ RecordFails(e)
      <3>1. PICK e \in Objects : WriteRecord(e) \/ RecordFails(e)
        BY <2>2
      <3>2. op.kind = "allocating" /\ op.object = e /\ op # Idle
        BY <3>1 DEF WriteRecord, RecordFails, Doing, Idle
      <3>3. o = e
        BY <1>1, <2>1, <3>1 DEF WriteRecord, RecordFails
      <3> QED
        BY <1>1, <3>2, <3>3 DEF IInv, OpSound, MemorySound, Running
    <2>3. CASE \E e \in Objects : UnlinkRecord(e)
      BY <1>1, <2>1, <2>3 DEF UnlinkRecord, Doing, IInv, OpSound
    <2>4. CASE UNCHANGED record
      BY <1>1, <2>4
    <2> QED
      BY <1>1, <2>2, <2>3, <2>4 DEF Next, vars, disk_vars, Start, Loaded, Crash, LoadRecord,
         MakeDirectory, WriteHighWater, FindSequence, Publish, AllocateExhausted,
         HighWaterFails, PublishFails, BeginRemoval, UnlinkContent, RemoveDirectory, RemovalFails
  <1>2. IInv /\ [Next]_vars => [\A o \in contents : record'[o] # record[o] => o \in doomed]_vars
    BY <1>1
  <1> QED
    BY <1>2, Invariance, PTL DEF Spec, OrderSurvives

\* The first sequence not given out never goes down.
LEMMA FreshGrows == ASSUME IInv, [Next]_vars PROVE Fresh' \in Nat /\ Fresh' >= Fresh
  <1>1. /\ Fresh \in Nat /\ next_sequence \in Nat /\ next_sequence >= 1 /\ high_water \in Nat
        /\ Running => next_sequence <= high_water
        /\ op.kind = "allocating" => Running /\ next_sequence > 1
    BY Numbers
  <1>2. CASE UNCHANGED <<high_water, mode, next_sequence>> /\ op'.kind # "allocating"
    BY <1>1, <1>2 DEF Fresh, Running
  <1>3. CASE UNCHANGED <<high_water, mode, next_sequence, op>>
    BY <1>1, <1>3 DEF Fresh
  <1>4. CASE Start
    <2>1. /\ mode = "down" /\ op' = op
          /\ \/ mode' = "refused" /\ high_water' = high_water
             \/ /\ mode' = "loading" /\ next_sequence' = high_water'
                /\ high_water' = IF high_water = 0 THEN 1 ELSE high_water
      BY <1>4 DEF Start
    <2>2. op.kind # "allocating"
      BY <1>1, <2>1 DEF Running
    <2> QED
      BY <1>1, <2>1, <2>2 DEF Fresh
  <1>5. CASE Crash
    BY <1>1, <1>5 DEF Crash, Fresh, Running, disk_vars
  <1>6. CASE Loaded
    BY <1>1, <1>6 DEF Loaded, Fresh, disk_vars
  <1>7. ASSUME NEW o \in Objects, LoadRecord(o)
        PROVE  Fresh' \in Nat /\ Fresh' >= Fresh
    <2>1. mode' = "loading" /\ mode = "loading"
      BY <1>7 DEF LoadRecord, Acceptable, IInv, TypeOK, RecordsBelow, MemorySound, Fresh, Idle
    <2> QED
      BY <1>1, <1>7, <2>1 DEF LoadRecord, Fresh, disk_vars
  <1>8. ASSUME NEW o \in Objects, WriteHighWater(o) \/ HighWaterFails(o)
        PROVE  Fresh' \in Nat /\ Fresh' >= Fresh
    <2>1. /\ op = Idle /\ mode \in {"loading", "up"} /\ mode' = mode
          /\ \/ op'.kind = "allocating" /\ next_sequence' = next_sequence + 1
             \/ op'.kind = "removing" /\ next_sequence' = next_sequence
      BY <1>8 DEF WriteHighWater, HighWaterFails, CleanUp, NeedsSequence, Begin
    <2> QED
      BY <1>1, <2>1 DEF Fresh, Idle
  <1>9. ASSUME NEW o \in Objects, AllocateExhausted(o)
        PROVE  Fresh' \in Nat /\ Fresh' >= Fresh
    <2>1. /\ op = Idle /\ mode \in {"loading", "up"} /\ next_sequence <= high_water
          /\ UNCHANGED <<high_water, next_sequence>>
          /\ \/ mode' = "refused"
             \/ mode' = mode /\ op'.kind = "removing"
      BY <1>1, <1>9 DEF AllocateExhausted, CleanUp, NeedsSequence, Begin, Running, disk_vars
    <2> QED
      BY <1>1, <2>1 DEF Fresh, Idle
  <1> QED
    BY <1>2, <1>3, <1>4, <1>5, <1>6, <1>7, <1>8, <1>9 DEF Next, vars, disk_vars, MakeDirectory,
       WriteRecord, FindSequence, Publish, RecordFails, PublishFails, BeginRemoval,
       UnlinkRecord, UnlinkContent, RemoveDirectory, RemovalFails, CleanUp, Begin, Done, Idle

\* A record is kept, unlinked, or new; a new one is the first not given out.
LEMMA RecordsFresh ==
    ASSUME IInv, [Next]_vars, NEW o \in Objects
    PROVE  record'[o] \in {0, record[o]} \/ record'[o] >= Fresh
  <1>1. record \in [Objects -> 0..MaxSequence]
    BY DEF IInv, TypeOK
  <1>2. CASE \E e \in Objects : WriteRecord(e) \/ RecordFails(e)
    <2>1. PICK e \in Objects : WriteRecord(e) \/ RecordFails(e)
      BY <1>2
    <2>2. op.kind = "allocating" /\ op # Idle
      BY <2>1 DEF WriteRecord, RecordFails, Doing, Idle
    <2>3. Fresh = next_sequence - 1 /\ Fresh \in Nat
      BY <2>2, Numbers DEF Fresh, Running
    <2> QED
      BY <1>1, <2>1, <2>3 DEF WriteRecord, RecordFails
  <1>3. CASE \E e \in Objects : UnlinkRecord(e)
    BY <1>1, <1>3 DEF UnlinkRecord
  <1>4. CASE UNCHANGED record
    BY <1>4
  <1> QED
    BY <1>2, <1>3, <1>4 DEF Next, vars, disk_vars, Start, Loaded, Crash, LoadRecord,
       MakeDirectory, WriteHighWater, FindSequence, Publish, AllocateExhausted,
       HighWaterFails, PublishFails, BeginRemoval, UnlinkContent, RemoveDirectory, RemovalFails

\* The records implement the abstract eviction order: every sequence is given
\* to one object, once, and later objects get larger ones, across crashes.
THEOREM OrderImplemented == Spec => ImplementsEvictionOrder
  <1>1. Init => Order!Init
    BY DEF Init, Order!Init, Fresh
  <1>2. ASSUME IInv, [Next]_vars, IInv' PROVE [Order!Advance]_<<record, Fresh>>
    <2>1. record' \in [Objects -> 0..(Fresh' - 1)]
      <3>1. Fresh' \in Nat /\ Fresh' >= 1
        BY <1>2, FreshGrows, Numbers
      <3>2. record' \in [Objects -> 0..MaxSequence]
        BY <1>2 DEF IInv, TypeOK
      <3>3. \A o \in Objects : record'[o] \in 0..(Fresh' - 1)
        BY <1>2, <3>1, <3>2 DEF IInv, RecordsBelow
      <3> QED
        BY <3>2, <3>3
    <2>2. \A o, e \in Objects : record'[o] = record'[e] /\ record'[o] # 0 => o = e
      BY <1>2 DEF IInv, RecordsBelow
    <2> QED
      <3>1. Fresh' >= Fresh
        BY <1>2, FreshGrows
      <3>2. \A o \in Objects : record'[o] \in {0, record[o]} \/ record'[o] >= Fresh
        BY <1>2, RecordsFresh
      <3> QED
        BY <2>1, <2>2, <3>1, <3>2 DEF Order!Advance
  <1> QED
    BY <1>1, <1>2, Invariance, PTL DEF Spec, ImplementsEvictionOrder, Order!Spec
=============================================================================
