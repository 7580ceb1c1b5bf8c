--------------------------- MODULE ArtifactStore ----------------------------
(***************************************************************************)
(* The document side of the artifact cache: ContentAddressedStore          *)
(* (storage.py) with its retention lifecycle, as Downloader.download uses  *)
(* it.  A download reserves its worst case (reserve_publication), streams  *)
(* the body into a staged file, makes the object directory, moves the file *)
(* into it, and converts the reservation.  Readers lease documents while   *)
(* they stream them, and an operator prunes the cache.                     *)
(*                                                                         *)
(* Every method that holds ContentAddressedStore._lock is one action; the  *)
(* steps of a download between two lock sections are actions of their own, *)
(* since other downloads, readers and the operator may run there.  In      *)
(* particular _commit_staged_file makes the object directory before it     *)
(* takes the lock.  Writes and commits run to completion once started      *)
(* (bounded_work.py), so a cancelled download only leaves between actions. *)
(*                                                                         *)
(* Inputs the store samples but does not control are chosen freely: the    *)
(* free bytes and inodes of the filesystem, whether ClockHighWater trusts  *)
(* the clock, and failures of the filesystem.  A document is its content:  *)
(* the digest names the object and the object holds one file, source.pdf.  *)
(***************************************************************************)
EXTENDS Integers, FiniteSets

CONSTANTS
    Documents,      \* contents a download may produce
    Publishers,     \* tasks running Downloader.download
    Readers,        \* tasks streaming an artifact under an asset lease
    NoDocument,     \* not a document
    Bytes,          \* the bytes of a set of stored documents
    Total,          \* the sum of an amount held by every publisher
    MaxDownload,    \* Downloader.max_bytes, the bytes a download reserves
    MaxBytes,       \* ContentAddressedStore.max_bytes = RetentionPolicy.maximum_bytes
    MaxObjects,     \* RetentionPolicy.maximum_objects
    MaxSequence     \* _MAX_FILESYSTEM_COUNT, the end of the sequence space

Amounts == [Publishers -> 0..MaxDownload]

ASSUME ActorsAssumption ==
    IsFiniteSet(Documents) /\ IsFiniteSet(Publishers) /\ IsFiniteSet(Readers)
ASSUME NoDocumentAssumption == NoDocument \notin Documents
\* AppConfig keeps every one of these limits positive.
ASSUME LimitsAssumption ==
    /\ MaxDownload \in Nat \ {0} /\ MaxBytes \in Nat \ {0}
    /\ MaxObjects \in Nat \ {0} /\ MaxSequence \in Nat \ {0}
\* A tree of documents weighs what its parts weigh.  A stored document is
\* not empty and no download is longer than max_bytes.
ASSUME BytesAssumption ==
    /\ Bytes \in [SUBSET Documents -> Nat]
    /\ \A S, T \in SUBSET Documents :
          S \cap T = {} => Bytes[S \cup T] = Bytes[S] + Bytes[T]
    /\ \A d \in Documents : Bytes[{d}] \in 1..MaxDownload
\* What it is to be a sum over the publishers.
ASSUME TotalAssumption ==
    /\ Total \in [Amounts -> Nat]
    /\ Total[[p \in Publishers |-> 0]] = 0
    /\ \A f \in Amounts, p \in Publishers, n \in 0..MaxDownload :
          Total[[f EXCEPT ![p] = n]] = Total[f] - f[p] + n
    /\ \A f, g \in Amounts : (\A p \in Publishers : f[p] <= g[p]) => Total[f] <= Total[g]

VARIABLES
    \* the disk
    dirs,           \* object directories under documents/
    files,          \* documents whose source.pdf is in its directory
    aged,           \* directories older than RetentionPolicy.maximum_age_seconds
    \* the process
    sequences,      \* PersistentInsertionOrder._sequences, 0 when absent
    next_sequence,  \* PersistentInsertionOrder._next_sequence
    used_bytes,     \* _used_bytes
    reserved_bytes, \* _reserved_bytes: bytes in staged files
    publication_reserved_bytes,     \* _publication_reserved_bytes
    publication_reserved_objects,   \* _publication_reserved_objects
    admission,      \* _admission_closed_blocker, or "open"
    asset_leases,   \* _asset_leases
    \* the tasks
    phase,          \* where each download is
    document,       \* what it downloads
    staged,         \* _staging_reservations[path] of its staged file
    baseline,       \* used bytes and objects when its reservation was activated
    reading         \* the document each reader has leased

disk_vars == <<dirs, files, aged>>
order_vars == <<sequences, next_sequence>>
quota_vars == <<used_bytes, reserved_bytes>>
reservation_vars == <<publication_reserved_bytes, publication_reserved_objects>>
lease_vars == <<asset_leases, reading>>
task_vars == <<phase, document, staged, baseline>>
vars == <<disk_vars, order_vars, quota_vars, reservation_vars, admission,
          lease_vars, task_vars>>

Blockers == {"byte_budget", "object_budget", "byte_headroom", "inode_headroom",
             "clock_anomaly"}
\* "staging": reservation active, staged file open; "committing": between the
\* directory and the lock; "failed": the commit raised; "published": the file is
\* in place; "unwinding": the staged file is gone, the reservation is not.
Phases == {"idle", "staging", "committing", "failed", "published", "unwinding"}

TypeOK ==
    /\ dirs \in SUBSET Documents
    /\ files \in SUBSET dirs
    /\ aged \in SUBSET dirs
    /\ sequences \in [Documents -> 0..MaxSequence]
    /\ next_sequence \in 1..MaxSequence
    /\ used_bytes \in Nat
    /\ reserved_bytes \in Nat
    /\ publication_reserved_bytes \in Nat
    /\ publication_reserved_objects \in Nat
    /\ admission \in Blockers \cup {"open"}
    /\ asset_leases \in [Documents -> Nat]
    /\ phase \in [Publishers -> Phases]
    /\ document \in [Publishers -> Documents \cup {NoDocument}]
    /\ staged \in [Publishers -> 0..MaxDownload]
    /\ baseline \in [Publishers -> [used : Nat, objects : Nat]]
    /\ reading \in [Readers -> Documents \cup {NoDocument}]

NoBaseline == [used |-> 0, objects |-> 0]

\* _build_runtime_state on an empty cache root.
Init ==
    /\ dirs = {} /\ files = {} /\ aged = {}
    /\ sequences = [d \in Documents |-> 0]
    /\ next_sequence = 1
    /\ used_bytes = 0
    /\ reserved_bytes = 0
    /\ publication_reserved_bytes = 0
    /\ publication_reserved_objects = 0
    /\ admission = "open"
    /\ asset_leases = [d \in Documents |-> 0]
    /\ phase = [p \in Publishers |-> "idle"]
    /\ document = [p \in Publishers |-> NoDocument]
    /\ staged = [p \in Publishers |-> 0]
    /\ baseline = [p \in Publishers |-> NoBaseline]
    /\ reading = [r \in Readers |-> NoDocument]

-----------------------------------------------------------------------------
(***************************************************************************)
(* Inventory and admission                                                 *)
(***************************************************************************)

\* _stored_objects raises unless every object directory has a sequence.
Unsequenced == {d \in dirs : sequences[d] = 0}
InventoryKnown == Unsequenced = {}

\* The budget checks of _activate_publication_reservation_locked.
BeginFitsBytes_others_ignored ==
    used_bytes + reserved_bytes + MaxDownload <= MaxBytes
BeginFitsBytes ==
    used_bytes + reserved_bytes + publication_reserved_bytes + MaxDownload <= MaxBytes
BeginFitsObjects_others_ignored == Cardinality(dirs) + 1 <= MaxObjects
BeginFitsObjects ==
    Cardinality(dirs) + publication_reserved_objects + 1 <= MaxObjects

\* The blocker an operation that found the budgets so may be denied with, in
\* the order of the checks: the clock is read before the inventory, and the
\* free space of the filesystem is compared last.
Denials(fits_bytes, fits_objects) ==
    {"clock_anomaly"} \cup
    (IF ~InventoryKnown THEN {}
     ELSE IF ~fits_bytes THEN {"byte_budget"}
     ELSE IF ~fits_objects THEN {"object_budget"}
     ELSE {"byte_headroom", "inode_headroom"})

\* _close_admission: the first blocker stays.
CloseAdmission_last_wins(blocker) == admission' = blocker
CloseAdmission(blocker) ==
    admission' = IF admission = "open" THEN blocker ELSE admission

\* _PublicationReservationContext.__aenter__, and the empty staged file.
Begin(p, d) ==
    /\ phase[p] = "idle"
    /\ admission = "open"
    /\ InventoryKnown
    /\ BeginFitsBytes
    /\ BeginFitsObjects
    /\ phase' = [phase EXCEPT ![p] = "staging"]
    /\ document' = [document EXCEPT ![p] = d]
    /\ baseline' = [baseline EXCEPT ![p] =
                      [used |-> used_bytes, objects |-> Cardinality(dirs)]]
    /\ publication_reserved_bytes' = publication_reserved_bytes + MaxDownload
    /\ publication_reserved_objects' = publication_reserved_objects + 1
    /\ UNCHANGED <<disk_vars, order_vars, quota_vars, admission, lease_vars, staged>>

\* A denied activation leaves only the latch behind.  (An unknown inventory
\* or a closed latch raises and changes nothing.)
BeginDenied(p) ==
    /\ phase[p] = "idle"
    /\ admission = "open"
    /\ \E blocker \in Denials(BeginFitsBytes, BeginFitsObjects) : CloseAdmission(blocker)
    /\ UNCHANGED <<disk_vars, order_vars, quota_vars, reservation_vars, lease_vars,
                   task_vars>>

-----------------------------------------------------------------------------
(***************************************************************************)
(* Staging and publishing one document                                     *)
(***************************************************************************)

\* _reserve_staging_bytes.
WriteFits(n) == used_bytes + reserved_bytes + n <= MaxBytes

\* One chunk of the body: _StagedWriter.write.  A refused chunk (CACHE_FULL)
\* raises, which is Discard.
Write(p, n) ==
    /\ phase[p] = "staging"
    /\ staged[p] + n <= Bytes[{document[p]}]
    /\ WriteFits(n)
    /\ staged' = [staged EXCEPT ![p] = @ + n]
    /\ reserved_bytes' = reserved_bytes + n
    /\ UNCHANGED <<disk_vars, order_vars, used_bytes, reservation_vars, admission,
                   lease_vars, phase, document, baseline>>

\* The body is complete and scanned; _commit_staged_file makes the object
\* directory and goes for the lock.
MakeDirectory(p) ==
    /\ phase[p] = "staging"
    /\ staged[p] = Bytes[{document[p]}]
    /\ dirs' = dirs \cup {document[p]}
    /\ phase' = [phase EXCEPT ![p] = "committing"]
    /\ UNCHANGED <<files, aged, order_vars, quota_vars, reservation_vars, admission,
                   lease_vars, document, staged, baseline>>

\* PersistentInsertionOrder.ensure: the sequence a new object gets.
CanEnsure(d) == d \in dirs /\ (sequences[d] # 0 \/ next_sequence < MaxSequence)
Ensure_same_again(d) ==
    /\ sequences' = [sequences EXCEPT ![d] = next_sequence]
    /\ UNCHANGED next_sequence
Ensure(d) ==
    \/ /\ sequences[d] # 0
       /\ UNCHANGED order_vars
    \/ /\ sequences[d] = 0
       /\ sequences' = [sequences EXCEPT ![d] = next_sequence]
       /\ next_sequence' = next_sequence + 1

\* A new record in a directory without a file makes the oldest timestamp of
\* the object new (_tree_stats).
Refreshed(ensured) == aged \ {d \in ensured : sequences[d] = 0 /\ d \notin files}

\* _release_staged_reservation_locked.
ReleaseStaged(p) ==
    /\ staged' = [staged EXCEPT ![p] = 0]
    /\ reserved_bytes' = reserved_bytes - staged[p]

\* Faulty variant: the bytes of the new document are not counted.
PublishNew_uncounted(p) ==
    /\ phase[p] = "committing"
    /\ document[p] \notin files
    /\ CanEnsure(document[p])
    /\ Ensure(document[p])
    /\ files' = files \cup {document[p]}
    /\ aged' = Refreshed({document[p]})
    /\ ReleaseStaged(p)
    /\ phase' = [phase EXCEPT ![p] = "published"]
    /\ UNCHANGED <<dirs, used_bytes, reservation_vars, admission, lease_vars,
                   document, baseline>>

\* _publish_new_document_locked.
PublishNew(p) ==
    /\ phase[p] = "committing"
    /\ document[p] \notin files
    /\ CanEnsure(document[p])
    /\ Ensure(document[p])
    /\ files' = files \cup {document[p]}
    /\ aged' = Refreshed({document[p]})
    /\ ReleaseStaged(p)
    /\ used_bytes' = used_bytes + Bytes[{document[p]}]
    /\ phase' = [phase EXCEPT ![p] = "published"]
    /\ UNCHANGED <<dirs, reservation_vars, admission, lease_vars, document, baseline>>

\* _publish_new_document_locked, a step of it failing: the directory and the
\* sequence are removed, and a sequence allocated for it is spent.
PublishFails(p) ==
    LET d == document[p] IN
    /\ phase[p] = "committing"
    /\ d \notin files
    /\ \/ UNCHANGED next_sequence
       \/ CanEnsure(d) /\ sequences[d] = 0 /\ next_sequence' = next_sequence + 1
    /\ sequences' = [sequences EXCEPT ![d] = 0]
    /\ dirs' = dirs \ {d}
    /\ aged' = aged \ {d}
    /\ phase' = [phase EXCEPT ![p] = "failed"]
    /\ UNCHANGED <<files, quota_vars, reservation_vars, admission, lease_vars,
                   document, staged, baseline>>

\* _consume_existing_document_locked: the same content was published before.
Deduplicate(p) ==
    /\ phase[p] = "committing"
    /\ document[p] \in files
    /\ CanEnsure(document[p])
    /\ Ensure(document[p])
    /\ ReleaseStaged(p)
    /\ phase' = [phase EXCEPT ![p] = "published"]
    /\ UNCHANGED <<disk_vars, used_bytes, reservation_vars, admission, lease_vars,
                   document, baseline>>

\* _validate_staged_identity refuses a staged file that changed since its
\* snapshot; the directory stays.
CommitRejected(p) ==
    /\ phase[p] = "committing"
    /\ phase' = [phase EXCEPT ![p] = "failed"]
    /\ UNCHANGED <<disk_vars, order_vars, quota_vars, reservation_vars, admission,
                   lease_vars, document, staged, baseline>>

\* _StagedWriter.__exit__ after an error, a refused chunk, a cancellation or
\* the deadline: _discard_staged_file.
Discard_leaks(p) ==
    /\ phase[p] \in {"staging", "failed"}
    /\ staged' = [staged EXCEPT ![p] = 0]
    /\ phase' = [phase EXCEPT ![p] = "unwinding"]
    /\ UNCHANGED <<disk_vars, order_vars, quota_vars, reservation_vars, admission,
                   lease_vars, document, baseline>>
Discard_only_while_streaming(p) ==
    /\ phase[p] = "staging"
    /\ ReleaseStaged(p)
    /\ phase' = [phase EXCEPT ![p] = "unwinding"]
    /\ UNCHANGED <<disk_vars, order_vars, used_bytes, reservation_vars, admission,
                   lease_vars, document, baseline>>
Discard(p) ==
    /\ phase[p] \in {"staging", "failed"}
    /\ ReleaseStaged(p)
    /\ phase' = [phase EXCEPT ![p] = "unwinding"]
    /\ UNCHANGED <<disk_vars, order_vars, used_bytes, reservation_vars, admission,
                   lease_vars, document, baseline>>

-----------------------------------------------------------------------------
(***************************************************************************)
(* Converting or aborting the reservation                                  *)
(***************************************************************************)

AtLeastZero(n) == IF n > 0 THEN n ELSE 0

\* The budget checks of _commit_publication_reservation_locked: what of this
\* download has not shown up in the store since its reservation, on top of
\* what the others still hold.
CommitFitsBytes(p) ==
    LET observed == AtLeastZero(used_bytes - baseline[p].used)
        remaining == AtLeastZero(Bytes[{document[p]}] - observed)
    IN used_bytes + reserved_bytes + (publication_reserved_bytes - MaxDownload)
         + remaining <= MaxBytes
CommitFitsObjects(p) ==
    LET observed == AtLeastZero(Cardinality(dirs) - baseline[p].objects)
        remaining == AtLeastZero(1 - observed)
    IN Cardinality(dirs) + (publication_reserved_objects - 1) + remaining <= MaxObjects

\* _release_publication_reservation_locked; the task is over.
ReleaseReservation_twice(p) ==
    /\ publication_reserved_bytes' = publication_reserved_bytes - 2 * MaxDownload
    /\ publication_reserved_objects' = publication_reserved_objects - 2
    /\ phase' = [phase EXCEPT ![p] = "idle"]
    /\ document' = [document EXCEPT ![p] = NoDocument]
    /\ baseline' = [baseline EXCEPT ![p] = NoBaseline]
    /\ UNCHANGED staged
ReleaseReservation(p) ==
    /\ publication_reserved_bytes' = publication_reserved_bytes - MaxDownload
    /\ publication_reserved_objects' = publication_reserved_objects - 1
    /\ phase' = [phase EXCEPT ![p] = "idle"]
    /\ document' = [document EXCEPT ![p] = NoDocument]
    /\ baseline' = [baseline EXCEPT ![p] = NoBaseline]
    /\ UNCHANGED staged

Commit(p) ==
    /\ phase[p] = "published"
    /\ InventoryKnown
    /\ CommitFitsBytes(p)
    /\ CommitFitsObjects(p)
    /\ ReleaseReservation(p)
    /\ UNCHANGED <<disk_vars, order_vars, quota_vars, admission, lease_vars>>

\* A denial latches admission and raises; the document stays published.
CommitDenied(p) ==
    /\ phase[p] = "published"
    /\ \E blocker \in Denials(CommitFitsBytes(p), CommitFitsObjects(p)) :
          CloseAdmission(blocker)
    /\ phase' = [phase EXCEPT ![p] = "unwinding"]
    /\ UNCHANGED <<disk_vars, order_vars, quota_vars, reservation_vars, lease_vars,
                   document, staged, baseline>>

\* The download leaves between publication and conversion: it is cancelled,
\* its deadline passes, or the inventory cannot be read.
Cancel(p) ==
    /\ phase[p] = "published"
    /\ phase' = [phase EXCEPT ![p] = "unwinding"]
    /\ UNCHANGED <<disk_vars, order_vars, quota_vars, reservation_vars, admission,
                   lease_vars, document, staged, baseline>>

\* _PublicationReservationContext.__aexit__.
Abort(p) ==
    /\ phase[p] = "unwinding"
    /\ ReleaseReservation(p)
    /\ UNCHANGED <<disk_vars, order_vars, quota_vars, admission, lease_vars>>

-----------------------------------------------------------------------------
(***************************************************************************)
(* Readers                                                                 *)
(***************************************************************************)

\* acquire_asset_lease: resolve_asset refuses a missing file.
AcquireLease(r, d) ==
    /\ reading[r] = NoDocument
    /\ d \in files
    /\ reading' = [reading EXCEPT ![r] = d]
    /\ asset_leases' = [asset_leases EXCEPT ![d] = @ + 1]
    /\ UNCHANGED <<disk_vars, order_vars, quota_vars, reservation_vars, admission, task_vars>>

\* release_asset_lease: the last reader deletes the entry.
ReleaseLease_drops_all(r) ==
    /\ reading[r] # NoDocument
    /\ asset_leases' = [asset_leases EXCEPT ![reading[r]] = 0]
    /\ reading' = [reading EXCEPT ![r] = NoDocument]
    /\ UNCHANGED <<disk_vars, order_vars, quota_vars, reservation_vars, admission, task_vars>>
ReleaseLease(r) ==
    /\ reading[r] # NoDocument
    /\ asset_leases' = [asset_leases EXCEPT ![reading[r]] = @ - 1]
    /\ reading' = [reading EXCEPT ![r] = NoDocument]
    /\ UNCHANGED <<disk_vars, order_vars, quota_vars, reservation_vars, admission, task_vars>>

-----------------------------------------------------------------------------
(***************************************************************************)
(* Pruning                                                                 *)
(***************************************************************************)

\* _prune_pressure, with `left` the objects not yet removed.  The free space
\* was sampled before the first removal and is not sampled again: `low`.
Pressure_at_the_limit(left, low) ==
    \/ low
    \/ Bytes[left \cap files] >= MaxBytes
    \/ Cardinality(left) >= MaxObjects
Pressure(left, low) ==
    \/ low
    \/ Bytes[left \cap files] > MaxBytes
    \/ Cardinality(left) > MaxObjects

\* _prune_unleased visits the objects in insertion order.  `removed` is what
\* it removes: at its turn a removed object was unleased, and it was expired
\* or the objects then left were too many.
IsPruned_youngest_first(removed, trusted, low) ==
    \A d \in dirs :
        d \in removed <=>
            /\ asset_leases[d] = 0
            /\ \/ trusted /\ d \in aged
               \/ Pressure(dirs \ {e \in removed : sequences[e] > sequences[d]}, low)
IsPruned(removed, trusted, low) ==
    \A d \in dirs :
        d \in removed <=>
            /\ asset_leases[d] = 0
            /\ \/ trusted /\ d \in aged
               \/ Pressure(dirs \ {e \in removed : sequences[e] < sequences[d]}, low)

\* Remove objects from the disk and from the insertion order.
RemoveObjects(removed) ==
    /\ dirs' = dirs \ removed
    /\ aged' = aged \ removed
    /\ sequences' = [d \in Documents |-> IF d \in removed THEN 0 ELSE sequences[d]]
    /\ UNCHANGED next_sequence

\* _finish_prune_locked: the blocker _record_unsatisfied_prune chooses, or
\* "open" for a satisfied prune.
PruneVerdict(left, trusted, low_bytes, low_inodes) ==
    LET over == Bytes[left \cap files] > MaxBytes \/ Cardinality(left) > MaxObjects
        leased == \E d \in left : asset_leases[d] > 0
    IN IF ~trusted THEN "clock_anomaly"
       ELSE IF low_inodes THEN "inode_headroom"
       ELSE IF low_bytes \/ (over /\ ~leased) THEN "byte_headroom"
       ELSE IF over THEN "object_budget" ELSE "open"

\* prune.  A clock untrusted only for a file from the future is trusted again
\* once that file is gone.  A satisfied prune reopens admission.  Sampling the
\* free space again, or a directory made meanwhile, may make prune raise before
\* it has a verdict.
Prune ==
    /\ InventoryKnown
    /\ \E trusted, trusted_after, low \in BOOLEAN, removed \in SUBSET dirs :
          /\ trusted => trusted_after
          /\ removed = {} => trusted = trusted_after
          /\ IsPruned(removed, trusted, low)
          /\ RemoveObjects(removed)
          /\ files' = files \ removed
          /\ used_bytes' = Bytes[files \ removed]
          /\ \/ UNCHANGED admission
             \/ \E low_bytes, low_inodes \in BOOLEAN :
                  LET verdict == PruneVerdict(dirs \ removed, trusted_after,
                                              low_bytes, low_inodes)
                  IN IF verdict = "open" THEN admission' = "open" ELSE CloseAdmission(verdict)
    /\ UNCHANGED <<reserved_bytes, reservation_vars, lease_vars, task_vars>>

\* prune, a removal raising: the objects before it are gone, its own file may
\* be, and _used_bytes is not rescanned.
PruneFails ==
    /\ InventoryKnown
    /\ \E trusted, low \in BOOLEAN, removed \in SUBSET dirs, last \in dirs :
          /\ last \in removed
          /\ IsPruned(removed, trusted, low)
          /\ LET done == {d \in removed : sequences[d] < sequences[last]}
             IN /\ RemoveObjects(done)
                /\ \E gone \in {done, done \cup {last}} : files' = files \ gone
    /\ UNCHANGED <<quota_vars, reservation_vars, admission, lease_vars, task_vars>>

\* Time passes: an object directory gets older than the maximum age.
Age(d) ==
    /\ d \in dirs \ aged
    /\ aged' = aged \cup {d}
    /\ UNCHANGED <<dirs, files, order_vars, quota_vars, reservation_vars, admission,
                   lease_vars, task_vars>>

-----------------------------------------------------------------------------
(***************************************************************************)
(* The process dies and starts again                                       *)
(***************************************************************************)

\* PersistentInsertionOrder.initialize keeps the recorded sequences and gives
\* the directories without one the next sequences, in the order of their keys.
Initialize ==
    /\ next_sequence' = next_sequence + Cardinality(Unsequenced)
    /\ next_sequence' <= MaxSequence
    /\ sequences' \in [Documents -> 0..MaxSequence]
    /\ \A d \in Documents :
          IF d \in Unsequenced THEN sequences'[d] \in next_sequence..(next_sequence' - 1)
                               ELSE sequences'[d] = sequences[d]
    /\ \A d, e \in Unsequenced : d # e => sequences'[d] # sequences'[e]

\* ContentAddressedStore.__init__: staged files are deleted, the bytes are
\* rescanned, and reservations, leases and the latch start empty.
Restart ==
    /\ Initialize
    /\ used_bytes' = Bytes[files]
    /\ reserved_bytes' = 0
    /\ publication_reserved_bytes' = 0
    /\ publication_reserved_objects' = 0
    /\ admission' = "open"
    /\ asset_leases' = [d \in Documents |-> 0]
    /\ reading' = [r \in Readers |-> NoDocument]
    /\ phase' = [p \in Publishers |-> "idle"]
    /\ document' = [p \in Publishers |-> NoDocument]
    /\ staged' = [p \in Publishers |-> 0]
    /\ baseline' = [p \in Publishers |-> NoBaseline]
    /\ aged' = Refreshed(dirs)
    /\ UNCHANGED <<dirs, files>>

\* The sequence space is used up and initialize raises: the process stays down.
Exhausted ==
    /\ next_sequence + Cardinality(Unsequenced) > MaxSequence
    /\ UNCHANGED vars

-----------------------------------------------------------------------------
\* The steps of one download after its reservation was activated.
Proceed(p) ==
    \/ \E n \in 1..MaxDownload : Write(p, n)
    \/ MakeDirectory(p)
    \/ PublishNew(p)
    \/ PublishFails(p)
    \/ Deduplicate(p)
    \/ CommitRejected(p)
    \/ Discard(p)
    \/ Commit(p)
    \/ CommitDenied(p)
    \/ Cancel(p)
    \/ Abort(p)

Next ==
    \/ \E p \in Publishers :
          \/ \E d \in Documents : Begin(p, d)
          \/ BeginDenied(p)
          \/ Proceed(p)
    \/ \E r \in Readers : (\E d \in Documents : AcquireLease(r, d)) \/ ReleaseLease(r)
    \/ Prune
    \/ PruneFails
    \/ \E d \in Documents : Age(d)
    \/ Restart
    \/ Exhausted

Spec == Init /\ [][Next]_vars

\* A start on a cache that was filled under larger limits.
InitStocked ==
    /\ dirs = Documents /\ files = Documents /\ aged = {}
    /\ sequences \in [Documents -> 1..Cardinality(Documents)]
    /\ \A d, e \in Documents : d # e => sequences[d] # sequences[e]
    /\ next_sequence = Cardinality(Documents) + 1
    /\ used_bytes = Bytes[Documents]
    /\ reserved_bytes = 0
    /\ publication_reserved_bytes = 0
    /\ publication_reserved_objects = 0
    /\ admission = "open"
    /\ asset_leases = [d \in Documents |-> 0]
    /\ phase = [p \in Publishers |-> "idle"]
    /\ document = [p \in Publishers |-> NoDocument]
    /\ staged = [p \in Publishers |-> 0]
    /\ baseline = [p \in Publishers |-> NoBaseline]
    /\ reading = [r \in Readers |-> NoDocument]

SpecStocked == InitStocked /\ [][Next]_vars

\* A download runs under asyncio.timeout and every storage call it waits for
\* runs to completion, so it always goes on to its next step.
Fairness == \A p \in Publishers : WF_vars(Proceed(p))

FairSpec == Spec /\ Fairness

-----------------------------------------------------------------------------
(***************************************************************************)
(* Properties                                                              *)
(***************************************************************************)

\* The configured capacity bounds what is stored and what is staged together,
\* whatever mix of downloads, deduplication, pruning, failures and restarts
\* led here (_reserve_staging_bytes, _publish_new_document_locked, prune).
QuotaKept == used_bytes + reserved_bytes <= MaxBytes

\* _used_bytes never counts less than the documents on the disk: a failed
\* publication or a prune that raised half way may leave it too high until the
\* next scan, never too low.
DiskCovered == Bytes[files] <= used_bytes

\* _reserved_bytes is what the staged files hold: every way out of a download
\* returns exactly the bytes it staged.
StagingAccounted == reserved_bytes = Total[staged]

\* What a download may still write.
Remaining == [p \in Publishers |-> IF phase[p] = "staging" THEN MaxDownload - staged[p] ELSE 0]

\* An active reservation is worth its bytes: no chunk of an admitted download
\* is ever refused with CACHE_FULL, because the bytes every admitted download
\* may still write fit at once.
PromisesFit == used_bytes + reserved_bytes + Total[Remaining] <= MaxBytes

\* The directories and the directories admitted downloads may still make stay
\* within the object budget, although a directory is made outside the lock
\* and long after its reservation was checked.
Unmade == {p \in Publishers : phase[p] = "staging"}
ObjectBudgetKept == Cardinality(dirs) + Cardinality(Unmade) <= MaxObjects

\* A reader keeps its document until it releases the lease, whatever is pruned
\* or fails to publish meanwhile.
LeasedStays == \A r \in Readers : reading[r] # NoDocument => reading[r] \in files

\* Sequences are what eviction order is made of: distinct, and below the next
\* one, across failed publications and restarts.
SequencesDistinct ==
    \A d \in Documents : sequences[d] # 0 =>
        /\ d \in dirs
        /\ sequences[d] < next_sequence
        /\ \A e \in Documents \ {d} : sequences[e] # sequences[d]

Order == INSTANCE EvictionOrder WITH
            Objects <- Documents, order <- sequences, fresh <- next_sequence

\* The sequences the store prunes by implement the abstract eviction order: no
\* failed publication, prune or restart makes a sequence come back.
ImplementsEvictionOrder == Order!Spec

\* Among the ways to prune for the budgets alone exactly one is in insertion
\* order; it leaves the cache within them unless only leased objects are left,
\* and it does not go on once they hold: with the youngest removed object back
\* the cache would be over them (_prune_unleased).
PruneExact ==
    LET Over(left) == Pressure(left, FALSE)
        Results == {removed \in SUBSET dirs : IsPruned(removed, FALSE, FALSE)}
    IN InventoryKnown =>
        /\ Cardinality(Results) = 1
        /\ \A removed \in Results :
              /\ Over(dirs \ removed) => \A d \in dirs \ removed : asset_leases[d] > 0
              /\ \A d \in removed :
                    (\A e \in removed : sequences[e] <= sequences[d])
                        => Bytes[files \cap ((dirs \ removed) \cup {d})] > MaxBytes
                           \/ Cardinality(dirs \ removed) + 1 > MaxObjects

\* A prune evicts a stored document before an older one only because that one
\* is expired or the older one is leased.
EvictsOldestFirst ==
    [][\A d \in files \ files', e \in dirs' :
          sequences[e] < sequences[d] => d \in aged \/ asset_leases[e] > 0]_vars

\* Once admission is closed no reservation is activated and the blocker does
\* not change until a satisfied prune or a restart opens it again, and then
\* the bytes in use have just been rescanned.
LatchHolds ==
    [][admission # "open" =>
          /\ \A p \in Publishers : phase[p] = "idle" => phase'[p] = "idle"
          /\ admission' \in {admission, "open"}
          /\ admission' = "open" => used_bytes' = Bytes[files']]_vars

\* "Return the initialized sequence for one current object"
\* (storage_lifecycle.py:1844): whoever takes the lock finds every object
\* directory in the insertion order.
EveryObjectSequenced == InventoryKnown

\* "Convert the reservation after an exact aggregate recheck"
\* (storage_lifecycle.py:619): a download whose bytes fit beside what the
\* others have stored, staged and may still write passes the byte check.
ExactRecheck ==
    \A p \in Publishers :
        phase[p] = "published" /\ PromisesFit => CommitFitsBytes(p)

\* A download that reserved always gives its reservation back.
ReservationsReturn == \A p \in Publishers : phase[p] # "idle" ~> phase[p] = "idle"

=============================================================================
