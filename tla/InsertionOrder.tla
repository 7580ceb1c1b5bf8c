--------------------------- MODULE InsertionOrder ---------------------------
(***************************************************************************)
(* PersistentInsertionOrder (storage_lifecycle.py) on the disk: the        *)
(* eviction sequence of an object is a record in its directory, and the    *)
(* next sequence is a high-water record in the cache root.  Every write    *)
(* goes to a temporary file that is renamed, so a record is old or new,    *)
(* never torn; but an operation writes or unlinks several files, and the   *)
(* process may die, or a call fail, between any two of them.               *)
(*                                                                         *)
(* Operations of a running store hold ContentAddressedStore._lock, so one  *)
(* is under way at a time (`op`); only the object directory is made        *)
(* outside the lock.  A write may also fail after its rename, when the     *)
(* directory cannot be synced.  A crash here is the death of the process:  *)
(* what was renamed or unlinked before it stays so.                        *)
(***************************************************************************)
EXTENDS Integers, FiniteSets

CONSTANTS
    Objects,        \* keys of artifact objects
    MaxSequence     \* _MAX_FILESYSTEM_COUNT: no sequence is allocated from here on

ASSUME ObjectsAssumption == IsFiniteSet(Objects)
ASSUME MaxSequenceAssumption == MaxSequence \in Nat \ {0}

VARIABLES
    \* the disk
    dirs,           \* object directories
    contents,       \* objects whose artifact file is in place
    record,         \* the sequence recorded in each directory, 0 when there is none
    high_water,     \* the recorded next sequence, 0 when the file is missing
    \* the process
    mode,           \* "down", "loading" (initialize), "up", "refused" (initialize raised)
    sequences,      \* _sequences, 0 when absent
    next_sequence,  \* _next_sequence
    op,             \* what the lock holder is doing, and to which object
    \* history
    doomed          \* directories whose removal was begun

disk_vars == <<dirs, contents, record, high_water>>
vars == <<disk_vars, mode, sequences, next_sequence, op, doomed>>

Kinds == {"allocating", "publishing", "removing"}
Idle == [kind |-> "idle", object |-> "none"]
Doing(kind, o) == op = [kind |-> kind, object |-> o]
Begin(kind, o) == op' = [kind |-> kind, object |-> o]
Done == op' = Idle

TypeOK ==
    /\ dirs \in SUBSET Objects
    /\ contents \in SUBSET dirs
    /\ record \in [Objects -> 0..MaxSequence]
    /\ high_water \in 0..MaxSequence
    /\ mode \in {"down", "loading", "up", "refused"}
    /\ sequences \in [Objects -> 0..MaxSequence]
    /\ next_sequence \in 1..MaxSequence
    /\ op \in [kind : Kinds, object : Objects] \cup {Idle}
    /\ doomed \in SUBSET dirs

\* An empty cache root.
Init ==
    /\ dirs = {} /\ contents = {}
    /\ record = [o \in Objects |-> 0]
    /\ high_water = 0
    /\ mode = "down"
    /\ sequences = [o \in Objects |-> 0]
    /\ next_sequence = 1
    /\ op = Idle
    /\ doomed = {}

-----------------------------------------------------------------------------
(***************************************************************************)
(* Starting: initialize                                                    *)
(***************************************************************************)

\* Faulty variant: the next sequence is derived from the records found.
Start_from_the_records ==
    /\ mode = "down"
    /\ high_water' = IF high_water = 0 THEN 1 ELSE high_water
    /\ mode' = "loading"
    /\ next_sequence' \in 1..MaxSequence
    /\ \A o \in dirs : record[o] < next_sequence'
    /\ next_sequence' > 1 => \E o \in dirs : record[o] = next_sequence' - 1
    /\ UNCHANGED <<dirs, contents, record, sequences, op, doomed>>

\* The high-water record is read, or written for the first time; it must not
\* be missing when there are records.
Start ==
    /\ mode = "down"
    /\ IF high_water = 0 /\ \E o \in dirs : record[o] # 0
       THEN mode' = "refused" /\ UNCHANGED <<high_water, next_sequence>>
       ELSE /\ mode' = "loading"
            /\ high_water' = IF high_water = 0 THEN 1 ELSE high_water
            /\ next_sequence' = high_water'
    /\ UNCHANGED <<dirs, contents, record, sequences, op, doomed>>

\* The checks of _load_object_sequence and of initialize.
Acceptable(o) ==
    /\ record[o] < next_sequence
    /\ \A e \in Objects : sequences[e] # record[o]

LoadRecord(o) ==
    /\ mode = "loading" /\ op = Idle
    /\ o \in dirs /\ record[o] # 0 /\ sequences[o] = 0
    /\ IF Acceptable(o)
       THEN sequences' = [sequences EXCEPT ![o] = record[o]] /\ UNCHANGED mode
       ELSE mode' = "refused" /\ UNCHANGED sequences
    /\ UNCHANGED <<disk_vars, next_sequence, op, doomed>>

Loaded ==
    /\ mode = "loading" /\ op = Idle
    /\ \A o \in dirs : sequences[o] # 0
    /\ mode' = "up"
    /\ UNCHANGED <<disk_vars, sequences, next_sequence, op, doomed>>

-----------------------------------------------------------------------------
(***************************************************************************)
(* Allocating a sequence and publishing                                    *)
(***************************************************************************)

\* A download makes the object directory before it takes the lock.
MakeDirectory(o) ==
    /\ mode = "up"
    /\ o \notin dirs
    /\ dirs' = dirs \cup {o}
    /\ UNCHANGED <<contents, record, high_water, mode, sequences, next_sequence, op, doomed>>

\* Faulty variant: initialize gives every object a new sequence.
NeedsSequence_ignores_record(o) ==
    /\ op = Idle
    /\ o \in dirs /\ sequences[o] = 0
    /\ mode \in {"up", "loading"}

\* Who calls _allocate: initialize for a directory without a record, ensure
\* for one that memory does not know.
NeedsSequence(o) ==
    /\ op = Idle
    /\ o \in dirs /\ sequences[o] = 0
    /\ mode = "up" \/ (mode = "loading" /\ record[o] = 0)

\* Faulty variant: the last sequence number is given out too.
SequencesLeft_one_more == next_sequence <= MaxSequence

\* The bound that _allocate checks before it writes anything.
SequencesLeft == next_sequence < MaxSequence

\* Faulty variant: the record is written before the high-water mark.
WriteHighWater_after_the_record(o) ==
    /\ NeedsSequence(o) /\ SequencesLeft
    /\ record' = [record EXCEPT ![o] = next_sequence]
    /\ next_sequence' = next_sequence + 1
    /\ Begin("allocating", o)
    /\ UNCHANGED <<dirs, contents, high_water, mode, sequences, doomed>>

\* _allocate, first half: _write_high_water.
WriteHighWater(o) ==
    /\ NeedsSequence(o) /\ SequencesLeft
    /\ high_water' = next_sequence + 1
    /\ next_sequence' = next_sequence + 1
    /\ Begin("allocating", o)
    /\ UNCHANGED <<dirs, contents, record, mode, sequences, doomed>>

\* _allocate, second half: the record in the directory.
WriteRecord(o) ==
    /\ Doing("allocating", o)
    /\ record' = [record EXCEPT ![o] = next_sequence - 1]
    /\ sequences' = [sequences EXCEPT ![o] = next_sequence - 1]
    /\ IF mode = "up" THEN Begin("publishing", o) ELSE Done
    /\ UNCHANGED <<dirs, contents, high_water, mode, next_sequence, doomed>>

\* _publish_new_document_locked finds the sequence in memory.
FindSequence(o) ==
    /\ mode = "up" /\ op = Idle
    /\ o \in dirs \ contents /\ sequences[o] # 0
    /\ Begin("publishing", o)
    /\ UNCHANGED <<disk_vars, mode, sequences, next_sequence, doomed>>

\* The staged file is renamed into the directory.
Publish(o) ==
    /\ Doing("publishing", o)
    /\ contents' = contents \cup {o}
    /\ Done
    /\ UNCHANGED <<dirs, record, high_water, mode, sequences, next_sequence, doomed>>

-----------------------------------------------------------------------------
(***************************************************************************)
(* Failing and removing                                                    *)
(***************************************************************************)

\* The handler of _publish_new_document_locked: the object is forgotten, then
\* its directory removed.
CleanUp(o) ==
    /\ mode = "up"
    /\ sequences' = [sequences EXCEPT ![o] = 0]
    /\ Begin("removing", o)
    /\ doomed' = doomed \cup {o}

\* _allocate finds no sequence left and raises before it writes anything:
\* initialize refuses to start, and a publication goes to its handler.
AllocateExhausted(o) ==
    /\ NeedsSequence(o) /\ ~SequencesLeft
    /\ \/ /\ mode = "loading"
          /\ mode' = "refused"
          /\ UNCHANGED <<sequences, op, doomed>>
       \/ CleanUp(o) /\ UNCHANGED mode
    /\ UNCHANGED <<disk_vars, next_sequence>>

\* _write_high_water raises, before or after the rename; memory keeps the old
\* next sequence.  (A write that raises during initialize ends the process.)
HighWaterFails(o) ==
    /\ NeedsSequence(o) /\ SequencesLeft
    /\ high_water' \in {high_water, next_sequence + 1}
    /\ CleanUp(o)
    /\ UNCHANGED <<dirs, contents, record, mode, next_sequence>>

\* Writing the record raises, before or after the rename; the sequence is spent.
RecordFails(o) ==
    /\ Doing("allocating", o)
    /\ record' \in {record, [record EXCEPT ![o] = next_sequence - 1]}
    /\ CleanUp(o)
    /\ UNCHANGED <<dirs, contents, high_water, mode, next_sequence>>

\* The rename of the artifact, or the check of its identity, raises.
PublishFails(o) ==
    /\ Doing("publishing", o)
    /\ CleanUp(o)
    /\ UNCHANGED <<disk_vars, mode, next_sequence>>

\* prune removes an object once the inventory is complete.
BeginRemoval(o) ==
    /\ mode = "up" /\ op = Idle
    /\ o \in dirs
    /\ \A e \in dirs : sequences[e] # 0
    /\ Begin("removing", o)
    /\ doomed' = doomed \cup {o}
    /\ UNCHANGED <<disk_vars, mode, sequences, next_sequence>>

\* shutil.rmtree unlinks the files of a directory in no particular order.
UnlinkRecord(o) ==
    /\ Doing("removing", o)
    /\ record[o] # 0
    /\ record' = [record EXCEPT ![o] = 0]
    /\ UNCHANGED <<dirs, contents, high_water, mode, sequences, next_sequence, op, doomed>>

UnlinkContent(o) ==
    /\ Doing("removing", o)
    /\ o \in contents
    /\ contents' = contents \ {o}
    /\ UNCHANGED <<dirs, record, high_water, mode, sequences, next_sequence, op, doomed>>

\* The empty directory goes, and remove forgets the object.
RemoveDirectory(o) ==
    /\ Doing("removing", o)
    /\ record[o] = 0 /\ o \notin contents
    /\ dirs' = dirs \ {o}
    /\ doomed' = doomed \ {o}
    /\ sequences' = [sequences EXCEPT ![o] = 0]
    /\ Done
    /\ UNCHANGED <<contents, record, high_water, mode, next_sequence>>

\* rmtree raises with the rest of the directory in place; the operation ends.
RemovalFails(o) ==
    /\ Doing("removing", o)
    /\ Done
    /\ UNCHANGED <<disk_vars, mode, sequences, next_sequence, doomed>>

\* The process dies, or ends because initialize raised.
Crash ==
    /\ mode # "down"
    /\ mode' = "down"
    /\ sequences' = [o \in Objects |-> 0]
    /\ next_sequence' = 1
    /\ Done
    /\ UNCHANGED <<disk_vars, doomed>>

-----------------------------------------------------------------------------
Next ==
    \/ Start
    \/ Loaded
    \/ Crash
    \/ \E o \in Objects :
          \/ LoadRecord(o)
          \/ MakeDirectory(o) \/ WriteHighWater(o) \/ WriteRecord(o)
          \/ FindSequence(o) \/ Publish(o)
          \/ AllocateExhausted(o) \/ HighWaterFails(o)
          \/ RecordFails(o) \/ PublishFails(o)
          \/ BeginRemoval(o) \/ UnlinkRecord(o) \/ UnlinkContent(o)
          \/ RemoveDirectory(o) \/ RemovalFails(o)

Spec == Init /\ [][Next]_vars

-----------------------------------------------------------------------------
(***************************************************************************)
(* Properties                                                              *)
(***************************************************************************)

\* Wherever a process died or a write failed, the next start accepts the
\* records on the disk: initialize finds a high-water record if there is any
\* record, every record below it, and no two records equal.  It refuses to
\* start only for want of a sequence: the high-water record is at the end of
\* the sequence space, and a directory has no record because a publication or
\* a removal of it did not finish, never because a published object lost its
\* place.
RefusedOnlyWhenExhausted ==
    mode = "refused" =>
        /\ high_water = MaxSequence
        /\ \E o \in dirs : record[o] = 0 /\ (o \in contents => o \in doomed)

\* The place of a published object in the eviction order survives failures and
\* restarts: its record never changes unless a removal of it was begun.
OrderSurvives == [][\A o \in contents : record'[o] # record[o] => o \in doomed]_vars

\* The first sequence that no record has had: what is allocated but not
\* recorded counts as not given out.
Fresh ==
    IF mode \in {"loading", "up"}
    THEN IF op.kind = "allocating" THEN next_sequence - 1 ELSE next_sequence
    ELSE IF high_water = 0 THEN 1 ELSE high_water

Order == INSTANCE EvictionOrder WITH order <- record, fresh <- Fresh

\* The records on the disk implement the eviction order: a sequence is recorded
\* once, whatever crashes, and a record is larger than all before it.
ImplementsEvictionOrder == Order!Spec

\* "Return an existing sequence or durably allocate the next one"
\* (storage_lifecycle.py:1836): when an artifact is published, the sequence
\* that ensure returned for it is on the disk.
PublishedDurably ==
    [][\A o \in contents' \ contents : record'[o] = sequences'[o]]_vars
=============================================================================
