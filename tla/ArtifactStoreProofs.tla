------------------------ MODULE ArtifactStoreProofs -------------------------
(***************************************************************************)
(* The safety of ArtifactStore for any documents, publishers, readers and  *)
(* limits.                                                                 *)
(*                                                                         *)
(* That no admitted download is refused a chunk (PromisesFit) rests on the *)
(* reservation counters covering what every download may still write, so   *)
(* the counters are tied to the tasks (ReservationsAccounted), and on a    *)
(* task never holding staged bytes it does not own (TasksConsistent).  That*)
(* a leased document stays rests on the lease count (LeasesCounted).       *)
(***************************************************************************)
EXTENDS ArtifactStore, FiniteSetTheorems, TLAPS

\* A task has a document while it is busy, and staged bytes only until they
\* are published or discarded; all of them are there when it commits.
TasksConsistent ==
    \A p \in Publishers :
        /\ phase[p] # "idle" => document[p] \in Documents
        /\ phase[p] \in {"idle", "published", "unwinding"} => staged[p] = 0
        /\ phase[p] = "committing" => staged[p] = Bytes[{document[p]}]

\* The reservation counters are what the busy tasks reserved.
Held == [p \in Publishers |-> IF phase[p] # "idle" THEN MaxDownload ELSE 0]
Busy == {p \in Publishers : phase[p] # "idle"}
ReservationsAccounted ==
    /\ publication_reserved_bytes = Total[Held]
    /\ publication_reserved_objects = Cardinality(Busy)

\* The lease count of a document is the number of its readers.
ReadersOf(d) == {r \in Readers : reading[r] = d}
LeasesCounted == \A d \in Documents : asset_leases[d] = Cardinality(ReadersOf(d))

IInv ==
    /\ TypeOK
    /\ TasksConsistent
    /\ DiskCovered
    /\ StagingAccounted
    /\ ReservationsAccounted
    /\ PromisesFit
    /\ ObjectBudgetKept
    /\ LeasesCounted
    /\ LeasedStays
    /\ SequencesDistinct

USE DEF Phases, Blockers

-----------------------------------------------------------------------------
\* Removing documents does not add bytes; adding one adds its own.
LEMMA BytesOfPart ==
    ASSUME NEW S \in SUBSET Documents, NEW T \in SUBSET Documents
    PROVE  Bytes[S \ T] \in Nat /\ Bytes[S] \in Nat /\ Bytes[S \ T] <= Bytes[S]
  <1>1. S = (S \ T) \cup (S \cap T) /\ (S \ T) \cap (S \cap T) = {}
    OBVIOUS
  <1>2. S \ T \in SUBSET Documents /\ S \cap T \in SUBSET Documents
    OBVIOUS
  <1>3. Bytes[S] = Bytes[S \ T] + Bytes[S \cap T]
    BY <1>1, <1>2, BytesAssumption
  <1>4. Bytes[S] \in Nat /\ Bytes[S \ T] \in Nat /\ Bytes[S \cap T] \in Nat
    BY <1>2, BytesAssumption
  <1> QED
    BY <1>3, <1>4

\* One more published document weighs what it weighs alone.
LEMMA BytesOfMore ==
    ASSUME NEW S \in SUBSET Documents, NEW d \in Documents \ S
    PROVE  Bytes[S \cup {d}] = Bytes[S] + Bytes[{d}]
  <1>1. S \cap {d} = {} /\ {d} \in SUBSET Documents
    OBVIOUS
  <1> QED
    BY <1>1, BytesAssumption

\* A document is not empty, and no download is larger than the limit.
LEMMA BytesOfOne ==
    ASSUME NEW d \in Documents
    PROVE  Bytes[{d}] \in Nat /\ 0 < Bytes[{d}] /\ Bytes[{d}] <= MaxDownload
  <1>1. Bytes[{d}] \in 1..MaxDownload
    BY BytesAssumption
  <1> QED
    BY <1>1, LimitsAssumption

\* An empty cache holds no bytes.
LEMMA BytesOfEmpty ==
    Bytes[{}] = 0
  <1>1. {} \cup {} = {} /\ {} \cap {} = {} /\ {} \in SUBSET Documents
    OBVIOUS
  <1>2. \A S, T \in SUBSET Documents :
          S \cap T = {} => Bytes[S \cup T] = Bytes[S] + Bytes[T]
    BY BytesAssumption
  <1>3. Bytes[{} \cup {}] = Bytes[{}] + Bytes[{}]
    BY <1>1, <1>2, Zenon
  <1>4. Bytes[{}] \in Nat
    BY <1>1, BytesAssumption
  <1>5. Bytes[{}] = Bytes[{}] + Bytes[{}]
    BY <1>1, <1>3, Zenon
  <1>6. \A n \in Nat : n = n + n => n = 0
    OBVIOUS
  <1> QED
    BY <1>4, <1>5, <1>6, Zenon

\* The amounts of a total after one publisher's amount changed.
LEMMA TotalAfter ==
    ASSUME NEW f \in Amounts, NEW p \in Publishers, NEW n \in 0..MaxDownload
    PROVE  /\ [f EXCEPT ![p] = n] \in Amounts
           /\ Total[[f EXCEPT ![p] = n]] = Total[f] - f[p] + n
           /\ Total[f] \in Nat
           /\ Total[[f EXCEPT ![p] = n]] \in Nat
           /\ f[p] <= Total[f]
  <1>1. f \in [Publishers -> 0..MaxDownload] /\ 0 \in 0..MaxDownload
    BY LimitsAssumption DEF Amounts
  <1>2. [f EXCEPT ![p] = n] \in Amounts /\ [f EXCEPT ![p] = 0] \in Amounts
    BY <1>1 DEF Amounts
  <1>3. /\ Total[[f EXCEPT ![p] = n]] = Total[f] - f[p] + n
        /\ Total[[f EXCEPT ![p] = 0]] = Total[f] - f[p] + 0
    BY <1>1, TotalAssumption
  <1>4. /\ Total[f] \in Nat /\ Total[[f EXCEPT ![p] = n]] \in Nat
        /\ Total[[f EXCEPT ![p] = 0]] \in Nat
    BY <1>2, TotalAssumption
  <1> QED
    BY <1>1, <1>2, <1>3, <1>4

-----------------------------------------------------------------------------
\* What a task or a reader holds is part of the counters it is counted in.
LEMMA StagedCovered ==
    ASSUME TypeOK, StagingAccounted, NEW p \in Publishers
    PROVE  staged[p] \in 0..MaxDownload /\ staged[p] <= reserved_bytes
  <1>1. staged \in Amounts /\ 0 \in 0..MaxDownload
    BY LimitsAssumption DEF TypeOK, Amounts
  <1> QED
    BY <1>1, TotalAfter DEF StagingAccounted, Amounts

\* What the tasks have reserved can be totalled.
LEMMA HeldIsAmount ==
    ASSUME TypeOK
    PROVE  /\ Held \in Amounts
           /\ IsFiniteSet(Busy) /\ Cardinality(Busy) \in Nat
  <1>1. Held \in Amounts
    BY LimitsAssumption DEF Held, Amounts
  <1>2. IsFiniteSet(Busy)
    BY ActorsAssumption, FS_Subset DEF Busy
  <1> QED
    BY <1>1, <1>2, FS_CardinalityType

\* The reservation of a task under way is part of the two counters.
LEMMA HeldCovered ==
    ASSUME TypeOK, ReservationsAccounted, NEW p \in Publishers, phase[p] # "idle"
    PROVE  MaxDownload <= publication_reserved_bytes /\ 1 <= publication_reserved_objects
  <1>1. Held[p] = MaxDownload /\ 0 \in 0..MaxDownload
    BY LimitsAssumption DEF Held
  <1>2. Held[p] <= Total[Held]
    BY <1>1, HeldIsAmount, TotalAfter
  <1>3. Cardinality(Busy) # 0
    BY HeldIsAmount, FS_EmptySet DEF Busy
  <1> QED
    BY <1>1, <1>2, <1>3, HeldIsAmount DEF ReservationsAccounted

\* The readers of a document can be counted.
LEMMA ReadersFinite ==
    ASSUME NEW d
    PROVE  IsFiniteSet(ReadersOf(d)) /\ Cardinality(ReadersOf(d)) \in Nat
  <1>1. IsFiniteSet(ReadersOf(d))
    BY ActorsAssumption, FS_Subset DEF ReadersOf
  <1> QED
    BY <1>1, FS_CardinalityType

\* A reader under way is counted in the leases of its document.
LEMMA LeaseCovered ==
    ASSUME TypeOK, LeasesCounted, NEW r \in Readers, reading[r] # NoDocument
    PROVE  reading[r] \in Documents /\ 1 <= asset_leases[reading[r]]
  <1>1. reading[r] \in Documents
    BY DEF TypeOK
  <1>2. r \in ReadersOf(reading[r])
    BY DEF ReadersOf
  <1>3. Cardinality(ReadersOf(reading[r])) # 0
    BY <1>2, ReadersFinite, FS_EmptySet
  <1> QED
    BY <1>1, <1>3, ReadersFinite DEF LeasesCounted

-----------------------------------------------------------------------------
USE DEF disk_vars, order_vars, quota_vars, reservation_vars, lease_vars, task_vars

\* A prune that raises half way has removed unleased files only, and leaves the
\* counters and the leases alone.
LEMMA PruneFailsRemoves ==
    ASSUME PruneFails
    PROVE  /\ UNCHANGED <<used_bytes, lease_vars>>
           /\ \E gone \in SUBSET dirs :
                 files' = files \ gone /\ \A d \in gone : asset_leases[d] = 0
  <1>1. PICK trusted \in BOOLEAN, low \in BOOLEAN, removed \in SUBSET dirs, last \in dirs :
           /\ last \in removed
           /\ IsPruned(removed, trusted, low)
           /\ LET done == {d \in removed : sequences[d] < sequences[last]}
              IN \E gone \in {done, done \cup {last}} : files' = files \ gone
    BY DEF PruneFails
  <1>2. \A d \in removed : asset_leases[d] = 0
    BY <1>1 DEF IsPruned
  <1>3. \E gone \in SUBSET removed : files' = files \ gone
    BY <1>1
  <1>4. UNCHANGED <<used_bytes, lease_vars>>
    BY DEF PruneFails
  <1> QED
    BY <1>2, <1>3, <1>4

\* Every step keeps the types.
LEMMA TypePreserved ==
    ASSUME TypeOK, TasksConsistent, StagingAccounted, ReservationsAccounted,
           LeasesCounted, [Next]_vars
    PROVE  TypeOK'
  <1> USE DEF TypeOK
  <1>1. ASSUME NEW p \in Publishers, NEW d \in Documents, Begin(p, d)
        PROVE  TypeOK'
    <2>1. Cardinality(dirs) \in Nat
      BY ActorsAssumption, FS_Subset, FS_CardinalityType
    <2> QED
      BY <1>1, <2>1, LimitsAssumption DEF Begin
  <1>2. ASSUME NEW p \in Publishers, BeginDenied(p)
        PROVE  TypeOK'
    BY <1>2 DEF BeginDenied, Denials, CloseAdmission
  <1>3. ASSUME NEW p \in Publishers, NEW n \in 1..MaxDownload, Write(p, n)
        PROVE  TypeOK'
    <2>1. document[p] \in Documents
      BY <1>3 DEF Write, TasksConsistent
    <2>2. staged[p] + n \in 0..MaxDownload
      BY <1>3, <2>1, BytesOfOne, LimitsAssumption DEF Write
    <2> QED
      BY <1>3, <2>2 DEF Write
  <1>4. ASSUME NEW p \in Publishers, MakeDirectory(p)
        PROVE  TypeOK'
    BY <1>4 DEF MakeDirectory, TasksConsistent
  <1>5. ASSUME NEW p \in Publishers, PublishNew(p)
        PROVE  TypeOK'
    <2>1. document[p] \in Documents
      BY <1>5 DEF PublishNew, TasksConsistent
    <2>4. Bytes[{document[p]}] \in Nat
      BY <2>1, BytesOfOne
    <2>2. reserved_bytes' \in Nat /\ staged' \in [Publishers -> 0..MaxDownload]
      BY <1>5, StagedCovered, LimitsAssumption DEF PublishNew, ReleaseStaged
    <2>3. sequences' \in [Documents -> 0..MaxSequence] /\ next_sequence' \in 1..MaxSequence
      BY <1>5, <2>1, LimitsAssumption DEF PublishNew, Ensure, CanEnsure
    <2>5. used_bytes' \in Nat /\ phase' \in [Publishers -> Phases]
      BY <1>5, <2>4 DEF PublishNew
    <2>6. files' \in SUBSET dirs' /\ dirs' = dirs /\ aged' \in SUBSET dirs'
      BY <1>5 DEF PublishNew, CanEnsure, Refreshed
    <2> QED
      BY <1>5, <2>2, <2>3, <2>5, <2>6 DEF PublishNew
  <1>6. ASSUME NEW p \in Publishers, PublishFails(p)
        PROVE  TypeOK'
    <2>1. /\ sequences' = [sequences EXCEPT ![document[p]] = 0]
          /\ dirs' = dirs \ {document[p]} /\ aged' = aged \ {document[p]}
          /\ document[p] \notin files
          /\ phase' = [phase EXCEPT ![p] = "failed"]
      BY <1>6 DEF PublishFails
    <2>2. next_sequence' \in 1..MaxSequence
      BY <1>6, LimitsAssumption DEF PublishFails, CanEnsure
    <2>3. sequences' \in [Documents -> 0..MaxSequence]
      <3>1. 0 \in 0..MaxSequence
        BY LimitsAssumption
      <3> QED
        BY <2>1, <3>1
    <2>4. phase' \in [Publishers -> Phases]
      BY <2>1
    <2> QED
      BY <1>6, <2>1, <2>2, <2>3, <2>4 DEF PublishFails
  <1>7. ASSUME NEW p \in Publishers, Deduplicate(p)
        PROVE  TypeOK'
    <2>1. reserved_bytes' \in Nat /\ staged' \in [Publishers -> 0..MaxDownload]
      BY <1>7, StagedCovered, LimitsAssumption DEF Deduplicate, ReleaseStaged
    <2>2. sequences' \in [Documents -> 0..MaxSequence] /\ next_sequence' \in 1..MaxSequence
      BY <1>7, LimitsAssumption DEF Deduplicate, Ensure, CanEnsure
    <2> QED
      BY <1>7, <2>1, <2>2 DEF Deduplicate
  <1>8. ASSUME NEW p \in Publishers, CommitRejected(p)
        PROVE  TypeOK'
    BY <1>8 DEF CommitRejected
  <1>9. ASSUME NEW p \in Publishers, Discard(p)
        PROVE  TypeOK'
    BY <1>9, StagedCovered, LimitsAssumption DEF Discard, ReleaseStaged
  <1>10. ASSUME NEW p \in Publishers, Commit(p) \/ Abort(p)
         PROVE  TypeOK'
    <2>1. ReleaseReservation(p) /\ phase[p] # "idle"
      BY <1>10 DEF Commit, Abort
    <2>2. publication_reserved_bytes' \in Nat /\ publication_reserved_objects' \in Nat
      BY <2>1, HeldCovered, LimitsAssumption DEF ReleaseReservation
    <2> QED
      BY <1>10, <2>1, <2>2 DEF Commit, Abort, ReleaseReservation, NoBaseline
  <1>11. ASSUME NEW p \in Publishers, CommitDenied(p)
         PROVE  TypeOK'
    BY <1>11 DEF CommitDenied, Denials, CloseAdmission
  <1>12. ASSUME NEW p \in Publishers, Cancel(p)
         PROVE  TypeOK'
    BY <1>12 DEF Cancel
  <1>13. ASSUME NEW r \in Readers, NEW d \in Documents, AcquireLease(r, d)
         PROVE  TypeOK'
    BY <1>13 DEF AcquireLease
  <1>14. ASSUME NEW r \in Readers, ReleaseLease(r)
         PROVE  TypeOK'
    <2>1. reading[r] \in Documents /\ asset_leases[reading[r]] - 1 \in Nat
      BY <1>14, LeaseCovered DEF ReleaseLease
    <2> QED
      BY <1>14, <2>1 DEF ReleaseLease
  <1>15. ASSUME Prune
         PROVE  TypeOK'
    <2>1. PICK removed \in SUBSET dirs :
             /\ RemoveObjects(removed)
             /\ files' = files \ removed
             /\ used_bytes' = Bytes[files \ removed]
      BY <1>15 DEF Prune
    <2>2. Bytes[files \ removed] \in Nat
      BY BytesOfPart
    <2>3. admission' \in Blockers \cup {"open"}
      BY <1>15 DEF Prune, PruneVerdict, CloseAdmission
    <2> QED
      BY <1>15, <2>1, <2>2, <2>3, LimitsAssumption DEF Prune, RemoveObjects
  <1>16. ASSUME PruneFails
         PROVE  TypeOK'
    <2>1. PICK done \in SUBSET dirs, gone \in SUBSET dirs :
             RemoveObjects(done) /\ done \subseteq gone /\ files' = files \ gone
      BY <1>16 DEF PruneFails
    <2> QED
      BY <1>16, <2>1, LimitsAssumption DEF PruneFails, RemoveObjects
  <1>17. ASSUME NEW d \in Documents, Age(d)
         PROVE  TypeOK'
    BY <1>17 DEF Age
  <1>18. ASSUME Restart
         PROVE  TypeOK'
    <2>1. Cardinality(Unsequenced) \in Nat
      BY ActorsAssumption, FS_Subset, FS_CardinalityType DEF Unsequenced
    <2>2. Bytes[files] \in Nat
      BY BytesAssumption
    <2>3. dirs' = dirs /\ files' = files /\ aged' \in SUBSET dirs'
      BY <1>18 DEF Restart, Refreshed
    <2> QED
      BY <1>18, <2>1, <2>2, <2>3, LimitsAssumption DEF Restart, Initialize, NoBaseline
  <1>19. CASE UNCHANGED vars
    BY <1>19 DEF vars
  <1> QED
    BY <1>1, <1>2, <1>3, <1>4, <1>5, <1>6, <1>7, <1>8, <1>9, <1>10, <1>11, <1>12, <1>13,
       <1>14, <1>15, <1>16, <1>17, <1>18, <1>19 DEF Next, Proceed, Exhausted

\* The steps, sorted by what they do to the tasks and the quota.
TaskStep ==
    \E p \in Publishers :
        \/ (\E d \in Documents : Begin(p, d)) \/ (\E n \in 1..MaxDownload : Write(p, n))
        \/ MakeDirectory(p) \/ PublishNew(p) \/ PublishFails(p) \/ Deduplicate(p)
        \/ CommitRejected(p) \/ Discard(p) \/ Commit(p) \/ CommitDenied(p)
        \/ Cancel(p) \/ Abort(p)

\* What a step is, for the invariants about tasks, bytes and reservations.
LEMMA StepKinds ==
    ASSUME [Next]_vars
    PROVE  \/ TaskStep
           \/ Prune \/ PruneFails \/ Restart
           \/ UNCHANGED <<dirs, files, order_vars, quota_vars, reservation_vars, task_vars>>
  BY DEF Next, Proceed, TaskStep, vars, BeginDenied, AcquireLease, ReleaseLease, Age, Exhausted

\* Every step keeps the tasks consistent with what they have on the disk.
LEMMA TasksPreserved ==
    ASSUME TypeOK, TasksConsistent, [Next]_vars
    PROVE  TasksConsistent'
  <1> USE DEF TypeOK, TasksConsistent
  <1>1. ASSUME TaskStep
        PROVE  TasksConsistent'
    <2>0. PICK p \in Publishers :
        \/ (\E d \in Documents : Begin(p, d)) \/ (\E n \in 1..MaxDownload : Write(p, n))
        \/ MakeDirectory(p) \/ PublishNew(p) \/ PublishFails(p) \/ Deduplicate(p)
        \/ CommitRejected(p) \/ Discard(p) \/ Commit(p) \/ CommitDenied(p)
        \/ Cancel(p) \/ Abort(p)
      BY <1>1 DEF TaskStep
    <2>1. CASE \E d \in Documents : Begin(p, d)
      BY <2>1 DEF Begin
    <2>2. CASE \E n \in 1..MaxDownload : Write(p, n)
      BY <2>2 DEF Write
    <2>3. CASE MakeDirectory(p)
      BY <2>3 DEF MakeDirectory
    <2>4. CASE PublishNew(p)
      BY <2>4 DEF PublishNew, ReleaseStaged
    <2>5. CASE PublishFails(p)
      BY <2>5 DEF PublishFails
    <2>6. CASE Deduplicate(p)
      BY <2>6 DEF Deduplicate, ReleaseStaged
    <2>7. CASE CommitRejected(p)
      BY <2>7 DEF CommitRejected
    <2>8. CASE Discard(p)
      BY <2>8 DEF Discard, ReleaseStaged
    <2>9. CASE Commit(p) \/ Abort(p)
      BY <2>9 DEF Commit, Abort, ReleaseReservation
    <2>10. CASE CommitDenied(p) \/ Cancel(p)
      BY <2>10 DEF CommitDenied, Cancel
    <2> QED
      BY <2>0, <2>1, <2>2, <2>3, <2>4, <2>5, <2>6, <2>7, <2>8, <2>9, <2>10
  <1>2. CASE Prune \/ PruneFails
    BY <1>2 DEF Prune, PruneFails
  <1>3. CASE Restart
    BY <1>3 DEF Restart
  <1> QED
    BY <1>1, <1>2, <1>3, StepKinds

\* used_bytes keeps covering the published bytes.
LEMMA DiskPreserved ==
    ASSUME TypeOK, TasksConsistent, DiskCovered, [Next]_vars
    PROVE  DiskCovered'
  <1> USE DEF TypeOK, DiskCovered
  <1>1. ASSUME NEW p \in Publishers, PublishNew(p)
        PROVE  DiskCovered'
    <2>1. document[p] \in Documents \ files
      BY <1>1 DEF PublishNew, TasksConsistent
    <2>2. Bytes[files'] = Bytes[files] + Bytes[{document[p]}]
      BY <1>1, <2>1, BytesOfMore DEF PublishNew
    <2>3. Bytes[files] \in Nat /\ Bytes[{document[p]}] \in Nat
      BY <2>1, BytesOfPart, BytesOfOne
    <2> QED
      BY <1>1, <2>2, <2>3 DEF PublishNew
  <1>2. ASSUME Prune
        PROVE  DiskCovered'
    <2>1. used_bytes' = Bytes[files']
      BY <1>2 DEF Prune
    <2>2. files' \in SUBSET Documents
      BY <1>2 DEF Prune
    <2>3. Bytes[files'] \in Nat
      BY <2>2, BytesAssumption
    <2> QED
      BY <2>1, <2>3
  <1>3. ASSUME PruneFails
        PROVE  DiskCovered'
    <2>1. PICK gone \in SUBSET dirs : files' = files \ gone /\ used_bytes' = used_bytes
      BY <1>3, PruneFailsRemoves
    <2>2. Bytes[files \ gone] <= Bytes[files] /\ Bytes[files \ gone] \in Nat /\ Bytes[files] \in Nat
      BY BytesOfPart
    <2> QED
      BY <2>1, <2>2
  <1>4. CASE Restart
    <2>1. used_bytes' = Bytes[files] /\ files' = files /\ Bytes[files] \in Nat
      BY <1>4, BytesOfPart DEF Restart
    <2> QED
      BY <2>1
  <1>5. ASSUME TaskStep, ~\E p \in Publishers : PublishNew(p)
        PROVE  files' = files /\ used_bytes' = used_bytes
    BY <1>5 DEF TaskStep, Begin, Write, MakeDirectory, PublishFails, Deduplicate, CommitRejected,
                Discard, Commit, CommitDenied, Cancel, Abort
  <1> QED
    BY <1>1, <1>2, <1>3, <1>4, <1>5, StepKinds

\* staged_bytes stays the total of what the tasks have written.
LEMMA StagingPreserved ==
    ASSUME TypeOK, TasksConsistent, StagingAccounted, [Next]_vars
    PROVE  StagingAccounted'
  <1> USE DEF TypeOK, StagingAccounted
  <1>0. staged \in Amounts /\ 0 \in 0..MaxDownload
    BY LimitsAssumption DEF Amounts
  <1>1. ASSUME NEW p \in Publishers, NEW n \in 1..MaxDownload, Write(p, n)
        PROVE  StagingAccounted'
    <2>1. document[p] \in Documents
      BY <1>1 DEF Write, TasksConsistent
    <2>2. staged[p] + n \in 0..MaxDownload
      BY <1>1, <2>1, BytesOfOne, LimitsAssumption DEF Write
    <2>3. Total[[staged EXCEPT ![p] = staged[p] + n]] = Total[staged] - staged[p] + (staged[p] + n)
      BY <1>0, <2>2, TotalAfter
    <2>4. Total[staged] \in Nat /\ staged[p] \in Nat
      BY <1>0, TotalAfter
    <2>5. /\ staged' = [staged EXCEPT ![p] = staged[p] + n]
          /\ reserved_bytes' = reserved_bytes + n
      BY <1>1 DEF Write
    <2> HIDE DEF TypeOK
    <2> QED
      BY <2>3, <2>4, <2>5
  <1>2. ASSUME NEW p \in Publishers, ReleaseStaged(p)
        PROVE  StagingAccounted'
    <2>1. Total[[staged EXCEPT ![p] = 0]] = Total[staged] - staged[p] + 0
      BY <1>0, TotalAfter
    <2>2. Total[staged] \in Nat
      BY <1>0, TotalAfter
    <2> QED
      BY <1>2, <2>1, <2>2 DEF ReleaseStaged
  <1>3. CASE Restart
    BY <1>3, TotalAssumption DEF Restart
  <1>4. ASSUME TaskStep, ~\E p \in Publishers : ReleaseStaged(p),
               ~\E p \in Publishers, n \in 1..MaxDownload : Write(p, n)
        PROVE  staged' = staged /\ reserved_bytes' = reserved_bytes
    BY <1>4 DEF TaskStep, Begin, MakeDirectory, PublishNew, PublishFails, Deduplicate,
                CommitRejected, Discard, Commit, CommitDenied, Cancel, Abort, ReleaseReservation
  <1>5. CASE Prune \/ PruneFails
    BY <1>5 DEF Prune, PruneFails
  <1> QED
    BY <1>1, <1>2, <1>3, <1>4, <1>5, StepKinds

\* What the busy tasks hold after one of them starts or ends.
LEMMA HeldAfter ==
    ASSUME TypeOK, NEW p \in Publishers, NEW ph \in Phases,
           phase' = [phase EXCEPT ![p] = ph]
    PROVE  Held' = [Held EXCEPT ![p] = IF ph # "idle" THEN MaxDownload ELSE 0]
  BY DEF Held, TypeOK

\* One more task is under way.
LEMMA BusyAfterBegin ==
    ASSUME TypeOK, NEW p \in Publishers, phase[p] = "idle",
           phase' = [phase EXCEPT ![p] = "staging"]
    PROVE  Cardinality(Busy') = Cardinality(Busy) + 1
  <1>1. Busy' = Busy \cup {p} /\ p \notin Busy
    BY DEF Busy, TypeOK
  <1> QED
    BY <1>1, HeldIsAmount, FS_AddElement

\* One task fewer is under way.
LEMMA BusyAfterEnd ==
    ASSUME TypeOK, NEW p \in Publishers, phase[p] # "idle",
           phase' = [phase EXCEPT ![p] = "idle"]
    PROVE  Cardinality(Busy') = Cardinality(Busy) - 1
  <1>1. Busy' = Busy \ {p} /\ p \in Busy
    BY DEF Busy, TypeOK
  <1> QED
    BY <1>1, HeldIsAmount, FS_RemoveElement

\* A step that keeps the busy tasks busy and starts none.
LEMMA BusyStays ==
    ASSUME TypeOK, NEW p \in Publishers, NEW ph \in Phases \ {"idle"}, phase[p] # "idle",
           phase' = [phase EXCEPT ![p] = ph]
    PROVE  Held' = Held /\ Busy' = Busy
  BY DEF Held, Busy, TypeOK

\* The reservation counters stay the totals of the tasks under way.
LEMMA ReservationsPreserved ==
    ASSUME TypeOK, ReservationsAccounted, [Next]_vars
    PROVE  ReservationsAccounted'
  <1>0. Total[Held] \in Nat /\ MaxDownload \in 0..MaxDownload /\ 0 \in 0..MaxDownload
        /\ MaxDownload \in Nat
    BY HeldIsAmount, TotalAssumption, LimitsAssumption
  <1>1. ASSUME NEW p \in Publishers, NEW d \in Documents, Begin(p, d)
        PROVE  ReservationsAccounted'
    <2>1. Held' = [Held EXCEPT ![p] = MaxDownload] /\ Held[p] = 0
      BY <1>1, HeldAfter DEF Begin, Held
    <2>2. Total[Held'] = Total[Held] - 0 + MaxDownload
      BY <1>0, <2>1, HeldIsAmount, TotalAfter
    <2>3. Cardinality(Busy') = Cardinality(Busy) + 1
      BY <1>1, BusyAfterBegin DEF Begin
    <2> QED
      BY <1>0, <1>1, <2>2, <2>3 DEF Begin, ReservationsAccounted
  <1>2. ASSUME NEW p \in Publishers, phase[p] # "idle", ReleaseReservation(p)
        PROVE  ReservationsAccounted'
    <2>1. Held' = [Held EXCEPT ![p] = 0] /\ Held[p] = MaxDownload
      BY <1>2, HeldAfter DEF ReleaseReservation, Held
    <2>2. Total[Held'] = Total[Held] - MaxDownload + 0
      BY <1>0, <2>1, HeldIsAmount, TotalAfter
    <2>3. Cardinality(Busy') = Cardinality(Busy) - 1
      BY <1>2, BusyAfterEnd DEF ReleaseReservation
    <2> QED
      BY <1>0, <1>2, <2>2, <2>3 DEF ReleaseReservation, ReservationsAccounted
  <1>3. CASE Restart
    <2>1. Held' = [p \in Publishers |-> 0] /\ Busy' = {}
      BY <1>3 DEF Restart, Held, Busy
    <2> QED
      BY <1>3, <2>1, TotalAssumption, FS_EmptySet DEF Restart, ReservationsAccounted
  <1>4. CASE Prune \/ PruneFails
    BY <1>4 DEF Prune, PruneFails, ReservationsAccounted, Held, Busy
  <1>5. ASSUME TaskStep,
               ~\E p \in Publishers : phase[p] # "idle" /\ ReleaseReservation(p),
               ~\E p \in Publishers, d \in Documents : Begin(p, d)
        PROVE  ReservationsAccounted'
    <2>1. /\ UNCHANGED reservation_vars
          /\ \/ phase' = phase
             \/ \E p \in Publishers, ph \in Phases \ {"idle"} :
                  phase[p] # "idle" /\ phase' = [phase EXCEPT ![p] = ph]
      BY <1>5 DEF TaskStep, Write, MakeDirectory, PublishNew, PublishFails, Deduplicate,
                  CommitRejected, Discard, Commit, CommitDenied, Cancel, Abort
    <2>2. Held' = Held /\ Busy' = Busy
      BY <2>1, BusyStays DEF Held, Busy
    <2> QED
      BY <2>1, <2>2 DEF ReservationsAccounted
  <1>6. CASE UNCHANGED <<dirs, files, order_vars, quota_vars, reservation_vars, task_vars>>
    BY <1>6 DEF ReservationsAccounted, Held, Busy
  <1> QED
    BY <1>1, <1>2, <1>3, <1>4, <1>5, <1>6, StepKinds

\* What the tasks may still write can be totalled.
LEMMA RemainingIsAmount ==
    ASSUME TypeOK
    PROVE  Remaining \in Amounts /\ Total[Remaining] \in Nat
  <1>1. Remaining \in Amounts
    BY LimitsAssumption DEF Remaining, Amounts, TypeOK
  <1> QED
    BY <1>1, TotalAssumption

\* A task is promised no more than it reserved.
LEMMA RemainingIsReserved ==
    ASSUME TypeOK, ReservationsAccounted
    PROVE  Total[Remaining] <= publication_reserved_bytes
  <1>1. \A p \in Publishers : Remaining[p] <= Held[p]
    BY LimitsAssumption DEF Remaining, Held, TypeOK
  <1>2. Total[Remaining] <= Total[Held]
    BY <1>1, RemainingIsAmount, HeldIsAmount, TotalAssumption
  <1> QED
    BY <1>2 DEF ReservationsAccounted

\* A task that stops streaming gives up what it may still write.
LEMMA RemainingAfterStreaming ==
    ASSUME TypeOK, NEW p \in Publishers, NEW ph \in Phases \ {"staging"},
           phase' = [phase EXCEPT ![p] = ph], NEW n \in 0..MaxDownload,
           staged' = [staged EXCEPT ![p] = n]
    PROVE  Total[Remaining'] \in Nat /\ Total[Remaining'] <= Total[Remaining]
  <1>0. 0 \in 0..MaxDownload
    BY LimitsAssumption
  <1>1. Remaining' = [Remaining EXCEPT ![p] = 0]
    BY DEF Remaining, TypeOK
  <1>2. Total[[Remaining EXCEPT ![p] = 0]] = Total[Remaining] - Remaining[p] + 0
    BY <1>0, RemainingIsAmount, TotalAfter
  <1>3. Remaining[p] \in 0..MaxDownload
    BY RemainingIsAmount DEF Amounts
  <1>4. Total[[Remaining EXCEPT ![p] = 0]] \in Nat
    BY <1>0, RemainingIsAmount, TotalAfter
  <1> QED
    BY <1>1, <1>2, <1>3, <1>4, RemainingIsAmount, LimitsAssumption

\* What the tasks may still write keeps fitting into the quota.
LEMMA PromisesPreserved ==
    ASSUME TypeOK, TasksConsistent, DiskCovered, StagingAccounted, ReservationsAccounted,
           PromisesFit, [Next]_vars
    PROVE  PromisesFit'
  <1> USE DEF TypeOK, PromisesFit
  <1>0. /\ Total[Remaining] \in Nat /\ MaxDownload \in Nat /\ MaxBytes \in Nat
        /\ MaxDownload \in 0..MaxDownload /\ 0 \in 0..MaxDownload
    BY RemainingIsAmount, LimitsAssumption
  <1>1. ASSUME NEW p \in Publishers, NEW d \in Documents, Begin(p, d)
        PROVE  PromisesFit'
    <2>1. staged[p] = 0 /\ staged' = staged
      BY <1>1 DEF Begin, TasksConsistent
    <2>2. Remaining' = [Remaining EXCEPT ![p] = MaxDownload] /\ Remaining[p] = 0
      <3>1. phase[p] = "idle" /\ phase' = [phase EXCEPT ![p] = "staging"]
        BY <1>1 DEF Begin
      <3>2. phase \in [Publishers -> Phases] /\ staged \in [Publishers -> 0..MaxDownload]
        OBVIOUS
      <3> HIDE DEF TypeOK, PromisesFit
      <3>3. \A q \in Publishers :
               Remaining'[q] = IF q = p THEN MaxDownload ELSE Remaining[q]
        BY <1>0, <2>1, <3>1, <3>2 DEF Remaining
      <3> QED
        BY <3>1, <3>3 DEF Remaining
    <2>3. Total[Remaining'] = Total[Remaining] - 0 + MaxDownload
      BY <1>0, <2>2, RemainingIsAmount, TotalAfter
    <2>4. used_bytes + reserved_bytes + publication_reserved_bytes + MaxDownload <= MaxBytes
      BY <1>1 DEF Begin, BeginFitsBytes
    <2>5. UNCHANGED <<used_bytes, reserved_bytes>>
      BY <1>1 DEF Begin
    <2>6. Total[Remaining] <= publication_reserved_bytes
      BY RemainingIsReserved
    <2>7. {used_bytes, reserved_bytes, publication_reserved_bytes} \subseteq Nat
      OBVIOUS
    <2> HIDE DEF TypeOK
    <2> QED
      BY <1>0, <2>3, <2>4, <2>5, <2>6, <2>7
  <1>2. ASSUME NEW p \in Publishers, NEW n \in 1..MaxDownload, Write(p, n)
        PROVE  PromisesFit'
    <2>1. document[p] \in Documents
      BY <1>2 DEF Write, TasksConsistent
    <2>2. staged[p] + n \in 0..MaxDownload
      BY <1>2, <2>1, BytesOfOne, LimitsAssumption DEF Write
    <2>3. PICK m \in 0..MaxDownload : m = MaxDownload - (staged[p] + n)
      BY <1>0, <2>2
    <2>4. /\ Remaining' = [Remaining EXCEPT ![p] = m]
          /\ Remaining[p] = MaxDownload - staged[p]
      BY <1>2, <2>3 DEF Write, Remaining
    <2>5. Total[Remaining'] = Total[Remaining] - Remaining[p] + m
      BY <2>4, RemainingIsAmount, TotalAfter
    <2> QED
      BY <1>0, <1>2, <2>2, <2>3, <2>4, <2>5 DEF Write
  <1>3. ASSUME NEW p \in Publishers, MakeDirectory(p)
        PROVE  PromisesFit'
    <2>1. staged' = [staged EXCEPT ![p] = staged[p]]
      BY <1>3 DEF MakeDirectory
    <2>2. Total[Remaining'] \in Nat /\ Total[Remaining'] <= Total[Remaining]
      BY <1>3, <2>1, RemainingAfterStreaming DEF MakeDirectory
    <2> QED
      BY <1>0, <1>3, <2>2 DEF MakeDirectory
  <1>4. ASSUME NEW p \in Publishers, PublishNew(p)
        PROVE  PromisesFit'
    <2>1. document[p] \in Documents /\ staged[p] = Bytes[{document[p]}]
      BY <1>4 DEF PublishNew, TasksConsistent
    <2>2. Total[Remaining'] \in Nat /\ Total[Remaining'] <= Total[Remaining]
      BY <1>0, <1>4, RemainingAfterStreaming DEF PublishNew, ReleaseStaged
    <2>3. used_bytes' = used_bytes + staged[p] /\ reserved_bytes' = reserved_bytes - staged[p]
      BY <1>4, <2>1 DEF PublishNew, ReleaseStaged
    <2> QED
      BY <1>0, <2>2, <2>3
  <1>5. ASSUME NEW p \in Publishers, Deduplicate(p) \/ Discard(p)
        PROVE  PromisesFit'
    <2>1. /\ ReleaseStaged(p) /\ used_bytes' = used_bytes
          /\ \E ph \in Phases \ {"staging"} : phase' = [phase EXCEPT ![p] = ph]
      BY <1>5 DEF Deduplicate, Discard
    <2>2. Total[Remaining'] \in Nat /\ Total[Remaining'] <= Total[Remaining]
      BY <1>0, <2>1, RemainingAfterStreaming DEF ReleaseStaged
    <2> QED
      BY <1>0, <2>1, <2>2 DEF ReleaseStaged
  <1>6. ASSUME NEW p \in Publishers,
               PublishFails(p) \/ CommitRejected(p) \/ Commit(p) \/ CommitDenied(p)
                 \/ Cancel(p) \/ Abort(p)
        PROVE  PromisesFit'
    <2>1. /\ UNCHANGED quota_vars /\ staged' = [staged EXCEPT ![p] = staged[p]]
          /\ \E ph \in Phases \ {"staging"} : phase' = [phase EXCEPT ![p] = ph]
      BY <1>6 DEF PublishFails, CommitRejected, Commit, CommitDenied, Cancel, Abort,
                  ReleaseReservation
    <2>2. Total[Remaining'] \in Nat /\ Total[Remaining'] <= Total[Remaining]
      BY <2>1, RemainingAfterStreaming
    <2> QED
      BY <1>0, <2>1, <2>2
  <1>7. ASSUME Prune
        PROVE  PromisesFit'
    <2>1. PICK removed \in SUBSET dirs : used_bytes' = Bytes[files \ removed]
      BY <1>7 DEF Prune
    <2>2. used_bytes' \in Nat /\ used_bytes' <= used_bytes
      <3>1. /\ Bytes[files \ removed] \in Nat /\ Bytes[files] \in Nat
            /\ Bytes[files \ removed] <= Bytes[files]
        BY BytesOfPart
      <3> QED
        BY <2>1, <3>1 DEF DiskCovered
    <2>3. Remaining' = Remaining /\ reserved_bytes' = reserved_bytes
      BY <1>7 DEF Prune, Remaining
    <2> QED
      BY <1>0, <2>2, <2>3
  <1>8. ASSUME Restart
        PROVE  PromisesFit'
    <2>1. Remaining' = [p \in Publishers |-> 0]
      BY <1>8 DEF Restart, Remaining
    <2>2. Total[Remaining'] = 0
      BY <2>1, TotalAssumption
    <2>3. Bytes[files] \in Nat
      BY BytesAssumption
    <2> QED
      BY <1>0, <1>8, <2>2, <2>3 DEF Restart, DiskCovered
  <1>9. CASE PruneFails \/ UNCHANGED <<dirs, files, order_vars, quota_vars, reservation_vars, task_vars>>
    BY <1>9 DEF PruneFails, Remaining
  <1> QED
    BY <1>1, <1>2, <1>3, <1>4, <1>5, <1>6, <1>7, <1>8, <1>9, StepKinds DEF TaskStep

-----------------------------------------------------------------------------
\* The directories, and the tasks that may still make one, can be counted.
LEMMA SetsFinite ==
    ASSUME TypeOK
    PROVE  /\ IsFiniteSet(dirs) /\ Cardinality(dirs) \in Nat
           /\ IsFiniteSet(Unmade) /\ Cardinality(Unmade) \in Nat
           /\ Cardinality(Unmade) <= Cardinality(Busy)
  <1>1. IsFiniteSet(dirs)
    BY ActorsAssumption, FS_Subset DEF TypeOK
  <1>2. Unmade \subseteq Busy
    BY DEF Unmade, Busy
  <1> QED
    BY <1>1, <1>2, HeldIsAmount, FS_Subset, FS_CardinalityType

\* Fewer directories are no more.
LEMMA FewerDirectories ==
    ASSUME TypeOK, NEW S, S \subseteq dirs
    PROVE  Cardinality(S) \in Nat /\ Cardinality(S) <= Cardinality(dirs)
  BY SetsFinite, FS_Subset, FS_CardinalityType

\* A task that stops streaming leaves Unmade, if it was in it.
LEMMA UnmadeAfterStreaming ==
    ASSUME TypeOK, NEW p \in Publishers, NEW ph \in Phases \ {"staging"},
           phase' = [phase EXCEPT ![p] = ph]
    PROVE  /\ Cardinality(Unmade') \in Nat
           /\ Cardinality(Unmade') <= Cardinality(Unmade)
           /\ phase[p] = "staging" => Cardinality(Unmade') = Cardinality(Unmade) - 1
  <1>1. Unmade' = Unmade \ {p}
    BY DEF Unmade, TypeOK
  <1>2. /\ IsFiniteSet(Unmade \ {p})
        /\ Cardinality(Unmade \ {p}) = IF p \in Unmade THEN Cardinality(Unmade) - 1 ELSE Cardinality(Unmade)
    BY SetsFinite, FS_RemoveElement
  <1>3. Cardinality(Unmade') \in Nat
    BY <1>1, <1>2, FS_CardinalityType
  <1>4. phase[p] = "staging" => p \in Unmade
    BY DEF Unmade
  <1> QED
    BY <1>1, <1>2, <1>3, <1>4, SetsFinite

\* The directories there and those still to come stay within the limit.
LEMMA ObjectsPreserved ==
    ASSUME TypeOK, TasksConsistent, ReservationsAccounted, ObjectBudgetKept, [Next]_vars
    PROVE  ObjectBudgetKept'
  <1> USE DEF ObjectBudgetKept
  <1>0. MaxObjects \in Nat
    BY LimitsAssumption
  <1>1. ASSUME NEW p \in Publishers, NEW d \in Documents, Begin(p, d)
        PROVE  ObjectBudgetKept'
    <2>1. Unmade' = Unmade \cup {p}
      BY <1>1 DEF Begin, Unmade, TypeOK
    <2>2. Cardinality(Unmade') \in Nat /\ Cardinality(Unmade') <= Cardinality(Unmade) + 1
      <3>1. IsFiniteSet(Unmade \cup {p})
        BY SetsFinite, FS_AddElement
      <3>2. Cardinality(Unmade \cup {p}) = IF p \in Unmade THEN Cardinality(Unmade)
                                            ELSE Cardinality(Unmade) + 1
        BY SetsFinite, FS_AddElement
      <3> QED
        BY <2>1, <3>1, <3>2, FS_CardinalityType, SetsFinite
    <2>3. Cardinality(dirs) + Cardinality(Busy) + 1 <= MaxObjects
      BY <1>1 DEF Begin, BeginFitsObjects, ReservationsAccounted
    <2> QED
      BY <1>0, <1>1, <2>2, <2>3, SetsFinite, HeldIsAmount DEF Begin
  <1>2. ASSUME NEW p \in Publishers, MakeDirectory(p)
        PROVE  ObjectBudgetKept'
    <2>1. Cardinality(Unmade') = Cardinality(Unmade) - 1
      BY <1>2, UnmadeAfterStreaming DEF MakeDirectory
    <2>2. /\ IsFiniteSet(dirs')
          /\ Cardinality(dirs') = IF document[p] \in dirs THEN Cardinality(dirs)
                                  ELSE Cardinality(dirs) + 1
      BY <1>2, SetsFinite, FS_AddElement DEF MakeDirectory
    <2> QED
      BY <1>0, <2>1, <2>2, SetsFinite
  <1>3. ASSUME NEW p \in Publishers, NEW n \in 1..MaxDownload, Write(p, n)
        PROVE  ObjectBudgetKept'
    BY <1>3 DEF Write, Unmade
  <1>4. ASSUME NEW p \in Publishers,
               PublishNew(p) \/ Deduplicate(p) \/ Discard(p) \/ PublishFails(p)
                 \/ CommitRejected(p) \/ Commit(p) \/ CommitDenied(p) \/ Cancel(p) \/ Abort(p)
        PROVE  ObjectBudgetKept'
    <2>1. /\ dirs' \subseteq dirs
          /\ \E ph \in Phases \ {"staging"} : phase' = [phase EXCEPT ![p] = ph]
      BY <1>4 DEF PublishNew, Deduplicate, Discard, PublishFails, CommitRejected, Commit,
                  CommitDenied, Cancel, Abort, ReleaseReservation
    <2>2. Cardinality(Unmade') \in Nat /\ Cardinality(Unmade') <= Cardinality(Unmade)
      BY <2>1, UnmadeAfterStreaming
    <2> QED
      BY <1>0, <2>1, <2>2, FewerDirectories, SetsFinite
  <1>5. ASSUME Prune \/ PruneFails
        PROVE  ObjectBudgetKept'
    <2>1. dirs' \subseteq dirs /\ Unmade' = Unmade
      BY <1>5 DEF Prune, PruneFails, RemoveObjects, Unmade
    <2> QED
      BY <1>0, <2>1, FewerDirectories, SetsFinite
  <1>6. ASSUME Restart
        PROVE  ObjectBudgetKept'
    <2>1. dirs' = dirs /\ Unmade' = {}
      BY <1>6 DEF Restart, Unmade
    <2> QED
      BY <1>0, <2>1, FS_EmptySet, SetsFinite
  <1>7. CASE UNCHANGED <<dirs, files, order_vars, quota_vars, reservation_vars, task_vars>>
    BY <1>7 DEF Unmade
  <1> QED
    BY <1>1, <1>2, <1>3, <1>4, <1>5, <1>6, <1>7, StepKinds DEF TaskStep

\* The lease counters stay the numbers of readers.
LEMMA LeasesPreserved ==
    ASSUME TypeOK, LeasesCounted, LeasedStays, [Next]_vars
    PROVE  LeasesCounted' /\ LeasedStays'
  <1> USE DEF TypeOK, LeasesCounted, LeasedStays
  <1>1. ASSUME NEW r \in Readers, NEW d \in Documents, AcquireLease(r, d)
        PROVE  LeasesCounted' /\ LeasedStays'
    <2>1. LeasedStays'
      BY <1>1 DEF AcquireLease
    <2>2. ReadersOf(d)' = ReadersOf(d) \cup {r} /\ r \notin ReadersOf(d)
      BY <1>1, NoDocumentAssumption DEF AcquireLease, ReadersOf
    <2>3. Cardinality(ReadersOf(d)') = Cardinality(ReadersOf(d)) + 1
      BY <2>2, ReadersFinite, FS_AddElement
    <2>4. ASSUME NEW e \in Documents, e # d
          PROVE  ReadersOf(e)' = ReadersOf(e)
      BY <1>1, <2>4, NoDocumentAssumption DEF AcquireLease, ReadersOf
    <2> QED
      BY <1>1, <2>1, <2>3, <2>4 DEF AcquireLease
  <1>2. ASSUME NEW r \in Readers, ReleaseLease(r)
        PROVE  LeasesCounted' /\ LeasedStays'
    <2>0. reading[r] \in Documents
      BY <1>2, LeaseCovered DEF ReleaseLease
    <2>1. LeasedStays'
      BY <1>2 DEF ReleaseLease
    <2>2. ReadersOf(reading[r]) \ {r} = {q \in Readers : reading'[q] = reading[r]}
      BY <1>2, <2>0, NoDocumentAssumption DEF ReleaseLease, ReadersOf
    <2>3. Cardinality(ReadersOf(reading[r]) \ {r}) = Cardinality(ReadersOf(reading[r])) - 1
      <3>1. r \in ReadersOf(reading[r])
        BY DEF ReadersOf
      <3> QED
        BY <3>1, ReadersFinite, FS_RemoveElement
    <2>4. ASSUME NEW e \in Documents, e # reading[r]
          PROVE  ReadersOf(e)' = ReadersOf(e)
      BY <1>2, <2>4, NoDocumentAssumption DEF ReleaseLease, ReadersOf
    <2>5. ASSUME NEW e \in Documents
          PROVE  asset_leases'[e] = Cardinality(ReadersOf(e)')
      <3>1. CASE e = reading[r]
        BY <1>2, <2>0, <2>2, <2>3, <3>1 DEF ReleaseLease, ReadersOf
      <3>2. CASE e # reading[r]
        BY <1>2, <2>4, <3>2 DEF ReleaseLease
      <3> QED
        BY <3>1, <3>2
    <2> QED
      BY <2>1, <2>5
  <1>3. ASSUME Prune
        PROVE  LeasesCounted' /\ LeasedStays'
    <2>1. UNCHANGED lease_vars
      BY <1>3 DEF Prune
    <2>2. PICK removed \in SUBSET dirs :
             files' = files \ removed /\ \A d \in removed : asset_leases[d] = 0
      BY <1>3 DEF Prune, IsPruned
    <2> QED
      BY <2>1, <2>2, LeaseCovered DEF ReadersOf
  <1>4. ASSUME PruneFails
        PROVE  LeasesCounted' /\ LeasedStays'
    <2>1. UNCHANGED lease_vars
      BY <1>4, PruneFailsRemoves
    <2>2. PICK gone \in SUBSET dirs :
             files' = files \ gone /\ \A d \in gone : asset_leases[d] = 0
      BY <1>4, PruneFailsRemoves
    <2> QED
      BY <2>1, <2>2, LeaseCovered DEF ReadersOf
  <1>5. ASSUME Restart
        PROVE  LeasesCounted' /\ LeasedStays'
    <2>1. \A d \in Documents : ReadersOf(d)' = {}
      BY <1>5, NoDocumentAssumption DEF Restart, ReadersOf
    <2> QED
      BY <1>5, <2>1, FS_EmptySet DEF Restart
  <1>6. ASSUME ~\E r \in Readers : ReleaseLease(r) \/ \E d \in Documents : AcquireLease(r, d),
               ~Prune, ~PruneFails, ~Restart
        PROVE  LeasesCounted' /\ LeasedStays'
    <2>1. UNCHANGED lease_vars /\ files \subseteq files'
      BY <1>6 DEF Next, Proceed, vars, Begin, BeginDenied, Write, MakeDirectory, PublishNew,
                  PublishFails, Deduplicate, CommitRejected, Discard, Commit, CommitDenied,
                  Cancel, Abort, Age, Exhausted
    <2> QED
      BY <2>1 DEF ReadersOf
  <1> QED
    BY <1>1, <1>2, <1>3, <1>4, <1>5, <1>6

\* Forgetting sequences keeps the others distinct.
LEMMA RemoveKeepsDistinct ==
    ASSUME TypeOK, SequencesDistinct, NEW removed \in SUBSET dirs, RemoveObjects(removed)
    PROVE  SequencesDistinct'
  BY DEF TypeOK, SequencesDistinct, RemoveObjects

\* ensure gives no sequence out twice.
LEMMA EnsureKeepsDistinct ==
    ASSUME TypeOK, SequencesDistinct, NEW d \in dirs, CanEnsure(d), Ensure(d), dirs' = dirs
    PROVE  SequencesDistinct'
  <1> USE DEF TypeOK, SequencesDistinct
  <1>1. CASE sequences[d] # 0 /\ UNCHANGED order_vars
    BY <1>1
  <1>2. CASE /\ sequences[d] = 0
             /\ sequences' = [sequences EXCEPT ![d] = next_sequence]
             /\ next_sequence' = next_sequence + 1
    <2>1. \A e \in Documents : sequences[e] \in Nat /\ next_sequence \in Nat /\ MaxSequence \in Nat
      BY LimitsAssumption
    <2>2. \A e \in Documents \ {d} : sequences'[e] = sequences[e]
      BY <1>2
    <2>3. sequences'[d] = next_sequence
      BY <1>2
    <2> QED
      BY <1>2, <2>1, <2>2, <2>3
  <1> QED
    BY <1>1, <1>2 DEF Ensure

\* Sequences stay distinct and below the next one.
LEMMA SequencesPreserved ==
    ASSUME TypeOK, TasksConsistent, SequencesDistinct, [Next]_vars
    PROVE  SequencesDistinct'
  <1>1. ASSUME NEW p \in Publishers, PublishNew(p) \/ Deduplicate(p)
        PROVE  SequencesDistinct'
    BY <1>1, EnsureKeepsDistinct DEF PublishNew, Deduplicate, CanEnsure
  <1>2. ASSUME NEW p \in Publishers, PublishFails(p)
        PROVE  SequencesDistinct'
    <2>1. /\ sequences' = [sequences EXCEPT ![document[p]] = 0]
          /\ dirs' = dirs \ {document[p]}
      BY <1>2 DEF PublishFails
    <2>2. next_sequence' \in Nat /\ next_sequence <= next_sequence'
      BY <1>2, LimitsAssumption DEF PublishFails, TypeOK
    <2>3. \A e \in Documents : sequences'[e] = IF e = document[p] THEN 0 ELSE sequences[e]
      BY <2>1 DEF TypeOK
    <2>4. \A e \in Documents : sequences[e] \in Nat /\ next_sequence \in Nat
      BY LimitsAssumption DEF TypeOK
    <2> QED
      BY <2>1, <2>2, <2>3, <2>4 DEF SequencesDistinct
  <1>3. ASSUME NEW p \in Publishers, MakeDirectory(p)
        PROVE  SequencesDistinct'
    BY <1>3 DEF MakeDirectory, SequencesDistinct
  <1>4. ASSUME Prune
        PROVE  SequencesDistinct'
    <2>1. PICK removed \in SUBSET dirs : RemoveObjects(removed)
      BY <1>4 DEF Prune
    <2> QED
      BY <2>1, RemoveKeepsDistinct
  <1>5. ASSUME PruneFails
        PROVE  SequencesDistinct'
    <2>1. PICK removed \in SUBSET dirs : RemoveObjects(removed)
      BY <1>5 DEF PruneFails
    <2> QED
      BY <2>1, RemoveKeepsDistinct
  <1>6. ASSUME Restart
        PROVE  SequencesDistinct'
    <2>1. Cardinality(Unsequenced) \in Nat
      BY ActorsAssumption, FS_Subset, FS_CardinalityType DEF Unsequenced, TypeOK
    <2>2. /\ dirs' = dirs
          /\ next_sequence' \in Nat /\ next_sequence \in Nat /\ next_sequence <= next_sequence'
          /\ next_sequence > 0
      <3>1. dirs' = dirs /\ next_sequence' = next_sequence + Cardinality(Unsequenced)
        BY <1>6 DEF Restart, Initialize
      <3>2. next_sequence \in Nat /\ next_sequence > 0
        BY LimitsAssumption DEF TypeOK
      <3> QED
        BY <2>1, <3>1, <3>2
    <2>4. \A d \in Documents : sequences[d] \in Nat
      BY LimitsAssumption DEF TypeOK
    <2>5. Unsequenced \subseteq dirs /\ dirs \subseteq Documents
      BY DEF Unsequenced, TypeOK
    <2>6. /\ \A d \in Documents :
                IF d \in Unsequenced THEN sequences'[d] \in next_sequence..(next_sequence' - 1)
                                     ELSE sequences'[d] = sequences[d]
          /\ \A d, e \in Unsequenced : d # e => sequences'[d] # sequences'[e]
      BY <1>6 DEF Restart, Initialize
    <2>3. /\ \A d \in Unsequenced : /\ sequences'[d] \in Nat
                                    /\ next_sequence <= sequences'[d]
                                    /\ sequences'[d] < next_sequence'
          /\ \A d \in Documents \ Unsequenced : sequences'[d] = sequences[d]
          /\ \A d, e \in Unsequenced : d # e => sequences'[d] # sequences'[e]
      BY <2>2, <2>5, <2>6
    <2> QED
      BY <2>2, <2>3, <2>4, <2>5 DEF SequencesDistinct
  <1>7. ASSUME NEW p \in Publishers,
               \/ (\E d \in Documents : Begin(p, d)) \/ (\E n \in 1..MaxDownload : Write(p, n))
               \/ CommitRejected(p) \/ Discard(p) \/ Commit(p) \/ CommitDenied(p)
               \/ Cancel(p) \/ Abort(p)
        PROVE  SequencesDistinct'
    BY <1>7 DEF Begin, Write, CommitRejected, Discard, Commit, CommitDenied, Cancel, Abort,
                SequencesDistinct
  <1>8. CASE UNCHANGED <<dirs, files, order_vars, quota_vars, reservation_vars, task_vars>>
    BY <1>8 DEF SequencesDistinct
  <1> QED
    BY <1>1, <1>2, <1>3, <1>4, <1>5, <1>6, <1>7, <1>8, StepKinds DEF TaskStep

-----------------------------------------------------------------------------
\* A new cache satisfies the invariant.
LEMMA InitHolds ==
    Init => IInv
  <1> SUFFICES ASSUME Init
               PROVE  IInv
    OBVIOUS
  <1> USE DEF Init
  <1>1. TypeOK
    BY LimitsAssumption DEF TypeOK, NoBaseline
  <1>2. TasksConsistent
    BY DEF TasksConsistent
  <1>3. DiskCovered
    BY BytesOfEmpty DEF DiskCovered
  <1>4. StagingAccounted
    BY TotalAssumption DEF StagingAccounted
  <1>5. ReservationsAccounted
    <2>1. Held = [p \in Publishers |-> 0] /\ Busy = {}
      BY DEF Held, Busy
    <2> QED
      BY <2>1, TotalAssumption, FS_EmptySet DEF ReservationsAccounted
  <1>6. PromisesFit
    <2>1. Remaining = [p \in Publishers |-> 0]
      BY DEF Remaining
    <2> QED
      BY <2>1, TotalAssumption, LimitsAssumption DEF PromisesFit
  <1>7. ObjectBudgetKept
    <2>1. Unmade = {}
      BY DEF Unmade
    <2> QED
      BY <2>1, FS_EmptySet, LimitsAssumption DEF ObjectBudgetKept
  <1>8. LeasesCounted /\ LeasedStays
    <2>1. \A d \in Documents : ReadersOf(d) = {}
      BY NoDocumentAssumption DEF ReadersOf
    <2> QED
      BY <2>1, FS_EmptySet DEF LeasesCounted, LeasedStays
  <1>9. SequencesDistinct
    BY DEF SequencesDistinct
  <1> QED
    BY <1>1, <1>2, <1>3, <1>4, <1>5, <1>6, <1>7, <1>8, <1>9 DEF IInv

\* The inductive invariant.
THEOREM Invariance ==
    Spec => []IInv
  <1>1. IInv /\ [Next]_vars => IInv'
    BY TypePreserved, TasksPreserved, DiskPreserved, StagingPreserved, ReservationsPreserved,
       PromisesPreserved, ObjectsPreserved, LeasesPreserved, SequencesPreserved DEF IInv
  <1> QED
    BY <1>1, InitHolds, PTL DEF Spec

\* Every variable keeps its type; in particular no counter of the store goes
\* below zero.
THEOREM TypeCorrect ==
    Spec => []TypeOK
  <1>1. IInv => TypeOK
    BY DEF IInv
  <1> QED
    BY <1>1, Invariance, PTL

\* An admitted download is never refused a chunk: what all of them may still
\* write fits in the cache at once.
THEOREM ReservationsSuffice ==
    Spec => []PromisesFit
  <1>1. IInv => PromisesFit
    BY DEF IInv
  <1> QED
    BY <1>1, Invariance, PTL

\* Stored and staged bytes together never exceed the configured capacity.
THEOREM QuotaSafe ==
    Spec => []QuotaKept
  <1>1. IInv => QuotaKept
    BY RemainingIsAmount, LimitsAssumption DEF IInv, TypeOK, PromisesFit, QuotaKept
  <1> QED
    BY <1>1, Invariance, PTL

\* The bytes in use are never less than the bytes on the disk, and the staged
\* bytes are exactly those of the staged files.
THEOREM BytesCounted ==
    Spec => [](DiskCovered /\ StagingAccounted)
  <1>1. IInv => DiskCovered /\ StagingAccounted
    BY DEF IInv
  <1> QED
    BY <1>1, Invariance, PTL

\* The object budget holds although directories are made outside the lock.
THEOREM ObjectsBounded ==
    Spec => []ObjectBudgetKept
  <1>1. IInv => ObjectBudgetKept
    BY DEF IInv
  <1> QED
    BY <1>1, Invariance, PTL

\* A document is there for as long as a reader leases it.
THEOREM LeasedDocumentsStay ==
    Spec => []LeasedStays
  <1>1. IInv => LeasedStays
    BY DEF IInv
  <1> QED
    BY <1>1, Invariance, PTL

\* A document keeps its sequence, loses it, or gets one that was never given
\* out, and the next sequence never goes back.
FreshStep ==
    /\ next_sequence' >= next_sequence
    /\ \A d \in Documents : sequences'[d] \in {0, sequences[d]} \/ sequences'[d] >= next_sequence

\* A document that gets a sequence gets one that was never given out.
LEMMA SequencesFresh ==
    ASSUME TypeOK, TasksConsistent, [Next]_vars
    PROVE  FreshStep
  <1>0. next_sequence \in Nat /\ sequences \in [Documents -> 0..MaxSequence]
    BY LimitsAssumption DEF TypeOK
  <1>1. CASE UNCHANGED order_vars
    BY <1>0, <1>1 DEF order_vars, FreshStep
  <1>2. ASSUME NEW p \in Publishers, PublishNew(p) \/ Deduplicate(p)
        PROVE  FreshStep
    <2>1. Ensure(document[p])
      BY <1>2 DEF PublishNew, Deduplicate
    <2>2. CASE UNCHANGED order_vars
      BY <1>1, <2>2
    <2>3. CASE /\ sequences' = [sequences EXCEPT ![document[p]] = next_sequence]
               /\ next_sequence' = next_sequence + 1
      BY <1>0, <2>3 DEF FreshStep
    <2> QED
      BY <2>1, <2>2, <2>3 DEF Ensure
  <1>3. ASSUME NEW p \in Publishers, PublishFails(p)
        PROVE  FreshStep
    <2>1. sequences' = [sequences EXCEPT ![document[p]] = 0] /\ next_sequence' >= next_sequence
      BY <1>0, <1>3 DEF PublishFails
    <2> QED
      BY <1>0, <2>1 DEF FreshStep
  <1>4. CASE Prune \/ PruneFails
    <2>1. PICK removed \in SUBSET dirs : RemoveObjects(removed)
      BY <1>4 DEF Prune, PruneFails
    <2> QED
      BY <1>0, <2>1 DEF RemoveObjects, FreshStep
  <1>5. CASE Restart
    <2>1. Cardinality(Unsequenced) \in Nat
      BY ActorsAssumption, FS_Subset, FS_CardinalityType DEF Unsequenced, TypeOK
    <2>2. /\ next_sequence' = next_sequence + Cardinality(Unsequenced)
          /\ \A d \in Documents :
                IF d \in Unsequenced THEN sequences'[d] \in next_sequence..(next_sequence' - 1)
                                     ELSE sequences'[d] = sequences[d]
      BY <1>5 DEF Restart, Initialize
    <2> QED
      BY <1>0, <2>1, <2>2 DEF FreshStep
  <1> QED
    BY <1>1, <1>2, <1>3, <1>4, <1>5 DEF Next, Proceed, vars, order_vars, Begin, BeginDenied,
       Write, MakeDirectory, CommitRejected, Discard, Commit, CommitDenied, Cancel, Abort,
       AcquireLease, ReleaseLease, Age, Exhausted

\* The sequences of the store implement the abstract eviction order.
THEOREM OrderImplemented ==
    Spec => ImplementsEvictionOrder
  <1>1. Init => Order!Init
    BY DEF Init, Order!Init
  <1>2. ASSUME IInv, [Next]_vars, IInv' PROVE [Order!Advance]_<<sequences, next_sequence>>
    <2>1. FreshStep
      BY <1>2, SequencesFresh DEF IInv
    <2>2. /\ sequences' \in [Documents -> 0..MaxSequence]
          /\ next_sequence' \in 1..MaxSequence
      BY <1>2 DEF IInv, TypeOK
    <2>3. \A d \in Documents : sequences'[d] # 0 =>
             /\ sequences'[d] < next_sequence'
             /\ \A e \in Documents \ {d} : sequences'[e] # sequences'[d]
      BY <1>2 DEF IInv, SequencesDistinct
    <2>4. sequences' \in [Documents -> 0..(next_sequence' - 1)]
      <3>1. \A d \in Documents : sequences'[d] \in 0..(next_sequence' - 1)
        BY <2>2, <2>3, LimitsAssumption
      <3> QED
        BY <2>2, <3>1
    <2> QED
      BY <2>1, <2>3, <2>4 DEF Order!Advance, FreshStep
  <1> QED
    BY <1>1, <1>2, Invariance, PTL DEF Spec, ImplementsEvictionOrder, Order!Spec

-----------------------------------------------------------------------------
\* The more is left, the more pressure there is.
LEMMA PressureMonotone ==
    ASSUME TypeOK, NEW S \in SUBSET dirs, NEW T \in SUBSET S, NEW low, Pressure(T, low)
    PROVE  Pressure(S, low)
  <1>1. CASE low
    BY <1>1 DEF Pressure
  <1>2. CASE Bytes[T \cap files] > MaxBytes
    <2>1. T \cap files = (S \cap files) \ (S \ T)
      OBVIOUS
    <2>2. S \cap files \in SUBSET Documents /\ S \ T \in SUBSET Documents
      BY DEF TypeOK
    <2>3. /\ Bytes[T \cap files] \in Nat /\ Bytes[S \cap files] \in Nat
          /\ Bytes[T \cap files] <= Bytes[S \cap files]
      BY <2>1, <2>2, BytesOfPart
    <2> QED
      BY <1>2, <2>3, LimitsAssumption DEF Pressure
  <1>3. CASE Cardinality(T) > MaxObjects
    <2>1. IsFiniteSet(S)
      BY SetsFinite, FS_Subset
    <2>2. /\ Cardinality(T) \in Nat /\ Cardinality(S) \in Nat
          /\ Cardinality(T) <= Cardinality(S)
      BY <2>1, FS_Subset, FS_CardinalityType
    <2> QED
      BY <1>3, <2>2, LimitsAssumption DEF Pressure
  <1> QED
    BY <1>1, <1>2, <1>3 DEF Pressure

\* An object that stays although a younger one is removed for pressure is
\* leased: at its own turn there was at least as much pressure.
LEMMA OlderStaysLeased ==
    ASSUME TypeOK, NEW removed \in SUBSET dirs, NEW trusted, NEW low,
           IsPruned(removed, trusted, low),
           NEW d \in removed, d \notin aged,
           NEW e \in dirs \ removed, sequences[e] < sequences[d]
    PROVE  asset_leases[e] > 0
  <1> DEFINE Left(x) == dirs \ {y \in removed : sequences[y] < sequences[x]}
  <1>1. d \in dirs /\ Pressure(Left(d), low)
    BY DEF IsPruned
  <1>2. \A x \in dirs : sequences[x] \in Nat /\ asset_leases[x] \in Nat
    BY LimitsAssumption DEF TypeOK
  <1>3. Left(d) \in SUBSET Left(e) /\ Left(e) \in SUBSET dirs
    <2>1. \A y \in removed : sequences[y] < sequences[e] => sequences[y] < sequences[d]
      BY <1>1, <1>2
    <2> QED
      BY <2>1
  <1>4. Pressure(Left(e), low)
    <2> HIDE DEF Left
    <2> QED
      BY <1>1, <1>3, PressureMonotone
  <1>5. asset_leases[e] # 0
    BY <1>4 DEF IsPruned
  <1> QED
    BY <1>2, <1>5

\* Eviction follows the insertion order.
THEOREM EvictionInOrder ==
    Spec => EvictsOldestFirst
  <1> DEFINE Ordered == \A d \in files \ files', e \in dirs' :
                sequences[e] < sequences[d] => d \in aged \/ asset_leases[e] > 0
  <1>1. ASSUME TypeOK, [Next]_vars
        PROVE  Ordered
    <2>1. CASE Prune
      <3>1. PICK trusted \in BOOLEAN, low \in BOOLEAN, removed \in SUBSET dirs :
               /\ IsPruned(removed, trusted, low)
               /\ RemoveObjects(removed)
               /\ files' = files \ removed
        BY <2>1 DEF Prune
      <3> QED
        BY <1>1, <3>1, OlderStaysLeased DEF RemoveObjects
    <2>2. CASE PruneFails
      <3>1. PICK trusted \in BOOLEAN, low \in BOOLEAN, removed \in SUBSET dirs, last \in dirs :
               /\ last \in removed
               /\ IsPruned(removed, trusted, low)
               /\ RemoveObjects({d \in removed : sequences[d] < sequences[last]})
               /\ \E gone \in {{d \in removed : sequences[d] < sequences[last]},
                               {d \in removed : sequences[d] < sequences[last]} \cup {last}} :
                     files' = files \ gone
        BY <2>2 DEF PruneFails
      <3>2. SUFFICES ASSUME NEW d \in files \ files', NEW e \in dirs',
                            sequences[e] < sequences[d], d \notin aged
                     PROVE  asset_leases[e] > 0
        OBVIOUS
      <3>3. d \in removed /\ (d = last \/ sequences[d] < sequences[last])
        BY <3>1, <3>2
      <3>4. e \in dirs /\ ~(e \in removed /\ sequences[e] < sequences[last])
        BY <3>1, <3>2 DEF RemoveObjects
      <3>5. sequences[d] \in Nat /\ sequences[e] \in Nat /\ sequences[last] \in Nat
        BY <1>1, <3>1, <3>3, <3>4, LimitsAssumption DEF TypeOK
      <3>6. e \in dirs \ removed
        BY <3>2, <3>3, <3>4, <3>5
      <3> QED
        BY <1>1, <3>1, <3>2, <3>3, <3>6, OlderStaysLeased
    <2>3. CASE ~Prune /\ ~PruneFails
      <3>1. files \subseteq files'
        BY <1>1, <2>3 DEF Next, Proceed, vars, Begin, BeginDenied, Write, MakeDirectory,
              PublishNew, PublishFails, Deduplicate, CommitRejected, Discard, Commit,
              CommitDenied, Cancel, Abort, AcquireLease, ReleaseLease, Age, Restart, Exhausted
      <3> QED
        BY <3>1
    <2> QED
      BY <2>1, <2>2, <2>3
  <1>2. TypeOK /\ [Next]_vars => [Ordered]_vars
    BY <1>1
  <1> HIDE DEF Ordered
  <1>3. Spec => [][Ordered]_vars
    BY <1>2, TypeCorrect, PTL DEF Spec
  <1> QED
    BY <1>3 DEF EvictsOldestFirst, Ordered

\* Admission, once closed, stays closed until a satisfied prune or a restart.
THEOREM LatchStays ==
    Spec => LatchHolds
  <1> DEFINE ClosedHolds == admission # "open" =>
                /\ \A p \in Publishers : phase[p] = "idle" => phase'[p] = "idle"
                /\ admission' \in {admission, "open"}
                /\ admission' = "open" => used_bytes' = Bytes[files']
  <1>1. ASSUME TypeOK, Next, admission # "open"
        PROVE  ClosedHolds
    <2>1. CASE \E p \in Publishers : Proceed(p)
      <3>1. PICK p \in Publishers : Proceed(p)
        BY <2>1
      <3>2. phase[p] # "idle" /\ admission' = admission
        BY <1>1, <3>1 DEF Proceed, Write, MakeDirectory, PublishNew, PublishFails, Deduplicate,
              CommitRejected, Discard, Commit, CommitDenied, CloseAdmission, Cancel, Abort
      <3>3. phase' = phase \/ \E ph \in Phases : phase' = [phase EXCEPT ![p] = ph]
        BY <3>1 DEF Proceed, Write, MakeDirectory, PublishNew, PublishFails, Deduplicate,
              CommitRejected, Discard, Commit, CommitDenied, Cancel, Abort, ReleaseReservation
      <3> QED
        BY <1>1, <3>2, <3>3 DEF TypeOK
    <2>2. CASE Prune
      <3>1. phase' = phase
        BY <2>2 DEF Prune
      <3>2. admission' \in {admission, "open"} /\ used_bytes' = Bytes[files']
        BY <1>1, <2>2 DEF Prune, CloseAdmission
      <3> QED
        BY <3>1, <3>2
    <2>3. CASE Restart
      BY <2>3 DEF Restart
    <2>4. CASE PruneFails \/ Exhausted \/ (\E d \in Documents : Age(d))
               \/ (\E r \in Readers : ReleaseLease(r) \/ \E d \in Documents : AcquireLease(r, d))
      BY <1>1, <2>4 DEF PruneFails, Exhausted, Age, ReleaseLease, AcquireLease, vars
    <2>5. CASE \E p \in Publishers : BeginDenied(p) \/ \E d \in Documents : Begin(p, d)
      BY <1>1, <2>5 DEF BeginDenied, Begin
    <2> QED
      BY <1>1, <2>1, <2>2, <2>3, <2>4, <2>5 DEF Next
  <1>2. TypeOK /\ [Next]_vars => [ClosedHolds]_vars
    BY <1>1
  <1> HIDE DEF ClosedHolds
  <1>3. Spec => [][ClosedHolds]_vars
    BY <1>2, TypeCorrect, PTL DEF Spec
  <1> QED
    BY <1>3 DEF LatchHolds, ClosedHolds
=============================================================================
