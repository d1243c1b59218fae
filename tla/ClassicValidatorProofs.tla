----------------------- MODULE ClassicValidatorProofs -----------------------
(***************************************************************************)
(* The two submitters of a validator with one RPC connection publish one   *)
(* history, never replace a checkpoint and never announce or snapshot one  *)
(* that is not durable, proved for every set of histories, index bound,    *)
(* chunk size and number of crashes.                                       *)
(***************************************************************************)
EXTENDS ClassicValidator, CheckpointPublicationProofs

-----------------------------------------------------------------------------
(* The inductive invariant.                                                *)

\* The history the tip submitter has verified: a replay under way, or one that
\* missed its target, counts up to where it began.
Trunk ==
    IF wpc["tip"] \in {"replay", "halt"}
    THEN SubSeq(wtree["tip"], 1, wbase["tip"])
    ELSE wtree["tip"]

\* A replay lies between its base and its target.
ReplayBounds ==
    \A w \in Worker :
        /\ wpc[w] \in {"replay", "halt", "submit"} => wbase[w] <= Len(wtree[w])
        /\ wpc[w] = "replay" => Len(wtree[w]) <= Len(wtarget[w])

\* All work is on the trunk: the backfill's target, the jobs, the signatures
\* and, while their process lives, the requests in flight.
WorkOnTrunk ==
    /\ IsPrefix(wtarget["backfill"], Trunk)
    /\ \A w \in Worker : \A c \in InJob(w) : IsPrefix(c, Trunk)
    /\ \A c \in signed : IsPrefix(c, Trunk)
    /\ mode = "running" => \A c \in wire : IsPrefix(c, Trunk)

\* Without a process there is no work, and a crash leaves no request.
Dormant ==
    /\ mode # "running" => signed = {} /\ \A w \in Worker : InJob(w) = {}
    /\ mode = "stopped" => wire = {}

\* A task panics behind both durable guards, and a panic ends the process.
GuardInv ==
    /\ \A w \in Worker : /\ guard[w] \in {"remote", "panic"} => tombstone
                         /\ guard[w] = "panic" => reorgFlag
    /\ mode = "exited" => tombstone /\ reorgFlag

\* The snapshot and the backfill's tree are published up to where it replays;
\* its job holds the rest.
CoverageInv ==
    LET t == wtree["backfill"]
    IN  /\ Covered(snapshot, Len(snapshot))
        /\ wpc["backfill"] \in {"replay", "submit"} => Covered(t, wbase["backfill"])
        /\ wpc["backfill"] = "submit" =>
             \A i \in wbase["backfill"] .. Index(t) :
                CheckpointAt(t, i) \in InJob("backfill") \/ stored[i] = CheckpointAt(t, i)
        /\ wpc["backfill"] = "snapshot" => Covered(t, Len(t))

WorkInv == TypeOK /\ ReplayBounds /\ WorkOnTrunk /\ Dormant /\ GuardInv
StorageInv == Consistent /\ SubmissionsFit /\ LatestIndexStored /\ CoverageInv
IInv == WorkInv /\ StorageInv

-----------------------------------------------------------------------------
(* Types.                                                                  *)

\* The types the proofs below need.
LEMMA WorkTypes ==
    ASSUME WorkInv
    PROVE  /\ PubTypeOK
           /\ "tip" \in Worker /\ "backfill" \in Worker
           /\ \A w \in Worker : /\ wtree[w] \in StorableTree /\ wtree[w] \in Tree
                                /\ wtarget[w] \in StorableTree /\ wtarget[w] \in Tree
                                /\ Len(wtree[w]) \in Nat /\ Len(wtarget[w]) \in Nat
                                /\ wbase[w] \in Nat
                                /\ InJob(w) \subseteq Storable
           /\ snapshot \in StorableTree
           /\ signed \subseteq Storable /\ wire \subseteq Storable
           /\ Storable \subseteq Checkpoint /\ Checkpoint \subseteq Tree
           /\ Trunk \in Tree
<1>1. /\ PubTypeOK /\ "tip" \in Worker /\ "backfill" \in Worker /\ snapshot \in StorableTree
      /\ wtree \in [Worker -> StorableTree] /\ wtarget \in [Worker -> StorableTree]
      /\ wbase \in [Worker -> 0 .. MaxIndex + 1]
  BY WorkerAssumption DEF WorkInv, TypeOK
<1>2. \A t \in StorableTree : t \in Tree /\ Len(t) \in Nat
  BY StorableTreeLength
<1>3. \A w \in Worker : wbase[w] \in Nat
  BY <1>1, MaxIndexAssumption
<1>4. /\ \A w \in Worker : InJob(w) \subseteq Storable
      /\ signed \subseteq Storable /\ wire \subseteq Storable
  BY <1>1 DEF PubTypeOK, InJob, Task
<1>5. Storable \subseteq Checkpoint /\ Checkpoint \subseteq Tree
  BY DEF Storable, Checkpoint
<1>6. Trunk \in Tree
  <2>1. CASE wpc["tip"] \in {"replay", "halt"}
    <3>1. wbase["tip"] \in 0 .. Len(wtree["tip"]) /\ wtree["tip"] \in Tree
      BY <1>1, <1>2, <1>3, <2>1 DEF WorkInv, ReplayBounds
    <3>2. IsPrefix(wtree["tip"], wtree["tip"])
      BY <3>1, PrefixOrder
    <3> QED BY <2>1, <3>1, <3>2, PrefixSubSeq DEF Trunk
  <2>2. CASE wpc["tip"] \notin {"replay", "halt"}
    BY <1>1, <1>2, <2>2 DEF Trunk
  <2> QED BY <2>1, <2>2
<1> QED BY <1>1, <1>2, <1>3, <1>4, <1>5, <1>6

\* Every variable keeps its type: a replay stops at its target, which a node
\* reported.
LEMMA TypeInductive ==
    ASSUME WorkInv, [Next]_vars
    PROVE  TypeOK'
<1>0. /\ TypeOK /\ PubTypeOK /\ "tip" \in Worker /\ "backfill" \in Worker
      /\ \A w \in Worker : /\ wtree[w] \in StorableTree /\ wtarget[w] \in StorableTree
                           /\ wtree[w] \in Tree /\ wtarget[w] \in Tree
                           /\ Len(wtree[w]) \in Nat /\ Len(wtarget[w]) \in Nat
                           /\ wbase[w] \in Nat
  BY WorkTypes DEF WorkInv
<1>1. CASE ReadCheckpoint
  <2>1. Reports \subseteq StorableTree
    BY ReportsTyped DEF StorableTree
  <2>2. Len(wtree["tip"]) \in 0 .. MaxIndex + 1
    BY <1>0, StorableTreeLength
  <2> QED BY <1>0, <1>1, <2>1, <2>2 DEF ReadCheckpoint, TypeOK, PubTypeOK, pubVars, storageVars,
             jobVars, WorkPc
<1>2. CASE PersistSnapshot
  BY <1>0, <1>2 DEF PersistSnapshot, TypeOK, PubTypeOK, pubVars, storageVars, jobVars, WorkPc
<1>3. ASSUME NEW i \in IndexSet, IndexInsertion(i) PROVE TypeOK'
  <2>1. LeavesAt(i) \subseteq Leaf
    BY ReportsTyped, MaxIndexAssumption DEF IndexSet
  <2> QED BY <1>0, <1>3, <2>1 DEF IndexInsertion, TypeOK, PubTypeOK, pubVars, storageVars,
             jobVars, workVars
<1>4. ASSUME NEW w \in Worker, IngestLeaf(w) PROVE TypeOK'
  <2> DEFINE n == Len(wtree[w])
  <2>1. n \in Nat /\ n <= Len(wtarget[w]) - 1 /\ Len(wtarget[w]) <= MaxIndex + 1
    BY <1>0, <1>4, StorableTreeLength DEF IngestLeaf, Index
  <2>2. n \in IndexSet /\ db[n] \in Leaf
    BY <1>0, <1>4, <2>1, MaxIndexAssumption DEF IngestLeaf, IndexSet, TypeOK
  <2>3. Append(wtree[w], db[n]) \in Tree /\ Len(Append(wtree[w], db[n])) = n + 1
    BY <1>0, <2>2, PrefixAppend
  <2>4. Append(wtree[w], db[n]) \in StorableTree
    <3>1. Len(Append(wtree[w], db[n])) <= MaxIndex + 1
      BY <1>0, <2>1, <2>3, MaxIndexAssumption
    <3> QED BY <2>3, <3>1, StorableTreeLength
  <2>5. wtree' = [wtree EXCEPT ![w] = Append(wtree[w], db[n])]
    BY <1>4 DEF IngestLeaf
  <2> QED BY <1>0, <1>4, <2>4, <2>5 DEF IngestLeaf, TypeOK, PubTypeOK, pubVars, storageVars,
             jobVars
<1>5. ASSUME NEW w \in Worker, NEW t \in StorableTree, PublishVerified(w, t),
             db' \in [IndexSet -> Leaf \cup {NoLeaf}]
      PROVE  TypeOK'
  <2> DEFINE S == {CheckpointAt(t, i) : i \in wbase[w] .. Index(t)}
  <2>1. \A i \in wbase[w] .. Index(t) : CheckpointAt(t, i) \in Storable
    <3> SUFFICES ASSUME NEW i \in wbase[w] .. Index(t) PROVE CheckpointAt(t, i) \in Storable
      OBVIOUS
    <3>1. i \in 0 .. Len(t) - 1
      BY <1>0, StorableTreeLength DEF Index
    <3> QED BY <3>1, CheckpointAtIndex
  <2>2. S \in SUBSET Storable /\ StartJob(w, S, TRUE)
    BY <1>5, <2>1 DEF PublishVerified
  <2> HIDE DEF S
  <2>3. /\ queue' \in [Worker -> SUBSET Storable]
        /\ chunk' \in [Worker -> SUBSET Task]
        /\ publishLatest' \in [Worker -> BOOLEAN]
    BY <1>0, <2>2, StartJobSafe
  <2>4. PubTypeOK'
    BY <1>0, <1>5, <2>3 DEF PublishVerified, PubTypeOK, storageVars
  <2> QED BY <1>0, <1>5, <2>4 DEF PublishVerified, TypeOK, WorkPc
<1>6. ASSUME NEW w \in Worker, HaltWorker(w) PROVE TypeOK'
  BY <1>0, <1>6 DEF HaltWorker, Halt, TypeOK, PubTypeOK, storageVars, jobVars, WorkPc, GuardStage
<1>7. ASSUME NEW w \in Worker, Verified(w) PROVE TypeOK'
  <2>1. db' \in [IndexSet -> Leaf \cup {NoLeaf}]
    BY <1>0, <1>7 DEF Verified, TypeOK
  <2> QED BY <1>0, <1>5, <1>7, <2>1 DEF Verified
<1>8. ASSUME NEW w \in Worker, Mismatch(w) PROVE TypeOK'
  <2>1. CASE HaltWorker(w)
    BY <1>6, <2>1
  <2>2. ASSUME NEW leaves \in Fetched(wbase[w], Len(wtarget[w]) - wbase[w]),
               db' = StoreInsertions(wbase[w], leaves), PublishVerified(w, wtarget[w])
        PROVE  TypeOK'
    <3>1. Len(wtarget[w]) - wbase[w] \in Nat
      BY <1>0, <1>8 DEF WorkInv, ReplayBounds, Mismatch, Replayed
    <3>2. leaves \in Tree
      BY <1>0, <3>1, FetchedTyped
    <3>3. db' \in [IndexSet -> Leaf \cup {NoLeaf}]
      BY <1>0, <2>2, <3>2, StoreInsertionsTyped DEF TypeOK
    <3> QED BY <1>0, <1>5, <2>2, <3>3
  <2> QED BY <1>8, <2>1, <2>2 DEF Mismatch
<1>9. ASSUME NEW w \in Worker, Published(w) PROVE TypeOK'
  BY <1>0, <1>9 DEF Published, TypeOK, PubTypeOK, pubVars, storageVars, jobVars, WorkPc
<1>10. CASE PublicationStep /\ UNCHANGED Elsewhere
  BY <1>0, <1>10, PublicationStepSafe DEF TypeOK, Elsewhere, workVars
<1>11. CASE (OutageEnds \/ \E c \in wire : WriteCheckpoint(c)) /\ UNCHANGED Elsewhere
  BY <1>0, <1>11, StorageStepSafe DEF TypeOK, Elsewhere, workVars
<1>12. ASSUME Stop, mode' \in {"stopped", "exited"}, crashes' \in 0 .. MaxCrashes, wire' \subseteq wire
       PROVE TypeOK'
  <2>1. None \in StorableTree /\ 0 \in 0 .. MaxIndex + 1
    BY MaxIndexAssumption DEF StorableTree
  <2>2. PubTypeOK'
    BY <1>0, <1>12 DEF Stop, VolatileReset, storageVars, PubTypeOK, GuardStage
  <2> QED BY <1>0, <1>12, <2>1, <2>2 DEF Stop, TypeOK, WorkPc
<1>13. CASE Exit
  BY <1>0, <1>12, <1>13 DEF Exit, TypeOK
<1>14. CASE Crash
  <2>1. crashes' \in 0 .. MaxCrashes
    BY <1>0, <1>14, CrashAssumption DEF Crash, TypeOK
  <2> QED BY <1>12, <1>14, <2>1 DEF Crash
<1>15. CASE Start
  <2>1. PICK tip \in Reports, old \in RestoredTrees :
          /\ wtree' = [w \in Worker |-> IF w = "tip" THEN tip ELSE old]
          /\ wbase' = [w \in Worker |-> IF w = "tip" THEN Len(tip) ELSE Len(old)]
          /\ wtarget' = [w \in Worker |-> tip]
          /\ wpc' = [w \in Worker |-> IF w = "tip" THEN "read" ELSE "replay"]
    BY <1>15 DEF Start
  <2>2. tip \in StorableTree /\ old \in StorableTree
    BY <1>0, ReportsTyped DEF RestoredTrees, StorableTree, TypeOK, None
  <2>3. Len(tip) \in 0 .. MaxIndex + 1 /\ Len(old) \in 0 .. MaxIndex + 1
    BY <2>2, StorableTreeLength
  <2> QED BY <1>0, <1>15, <2>1, <2>2, <2>3 DEF Start, TypeOK, PubTypeOK, pubVars, storageVars,
             jobVars, WorkPc
<1>16. CASE UNCHANGED vars
  BY <1>0, <1>16 DEF vars, TypeOK, PubTypeOK, pubVars, storageVars, jobVars, workVars
<1> QED BY <1>1, <1>2, <1>3, <1>4, <1>7, <1>8, <1>9, <1>10, <1>11, <1>13, <1>14, <1>15, <1>16
        DEF Next

-----------------------------------------------------------------------------
(* The guards.                                                             *)

\* The order of the two guards and of the panic survives every step.
LEMMA GuardInductive ==
    ASSUME WorkInv, [Next]_vars
    PROVE  GuardInv'
<1>0. /\ guard \in [Worker -> GuardStage] /\ tombstone \in BOOLEAN /\ reorgFlag \in BOOLEAN
      /\ GuardInv
  BY DEF WorkInv, TypeOK, PubTypeOK
<1> USE DEF GuardInv
<1>1. CASE UNCHANGED <<guard, tombstone, reorgFlag, mode>>
  BY <1>0, <1>1
<1>2. ASSUME NEW w \in Worker, Halt(w), UNCHANGED <<tombstone, reorgFlag, mode>>
      PROVE  GuardInv'
  BY <1>0, <1>2 DEF Halt, GuardStage
<1>3. ASSUME NEW w \in Worker, IngestLeaf(w) \/ Verified(w) \/ Mismatch(w) \/ Published(w)
      PROVE  GuardInv'
  <2> USE DEF pubVars, storageVars
  <2>1. CASE HaltWorker(w)
    BY <1>2, <2>1 DEF HaltWorker
  <2>2. ASSUME NEW t, PublishVerified(w, t) PROVE GuardInv'
    BY <1>1, <2>2 DEF PublishVerified
  <2>3. CASE IngestLeaf(w) \/ Published(w)
    BY <1>1, <2>3 DEF IngestLeaf, Published
  <2> QED BY <1>3, <2>1, <2>2, <2>3 DEF Verified, Mismatch
<1>4. CASE PublicationStep /\ UNCHANGED Elsewhere
  <2>1. PICK w \in Worker : \/ TakeChunk(w) \/ PersistTombstone(w) \/ PersistReorgStatus(w)
                            \/ \E t \in chunk[w] : TaskStep(w, t)
    BY <1>4 DEF PublicationStep
  <2>0. mode' = mode
    BY <1>4 DEF Elsewhere
  <2>2. CASE PersistTombstone(w)
    BY <1>0, <2>0, <2>2 DEF PersistTombstone
  <2>3. CASE PersistReorgStatus(w)
    BY <1>0, <2>0, <2>3 DEF PersistReorgStatus
  <2>4. CASE TakeChunk(w)
    BY <1>1, <2>0, <2>4 DEF TakeChunk, storageVars
  <2>5. ASSUME NEW t \in chunk[w], TaskStep(w, t) PROVE GuardInv'
    <3>1. CASE FetchConflict(w, t)
      BY <1>2, <2>0, <3>1 DEF FetchConflict, storageVars
    <3>2. CASE ~FetchConflict(w, t)
      BY <1>1, <2>0, <2>5, <3>2 DEF TaskStep, FetchAbsent, FetchSame, Sign, DispatchWrite,
         WriteAcknowledged, RetrySubmission, ReadLatestIndex, WriteLatestIndex,
         RetryLatestIndex, storageVars
    <3> QED BY <3>1, <3>2
  <2> QED BY <2>1, <2>2, <2>3, <2>4, <2>5
<1>5. CASE (OutageEnds \/ \E c \in wire : WriteCheckpoint(c)) /\ UNCHANGED Elsewhere
  BY <1>1, <1>5 DEF OutageEnds, WriteCheckpoint, storageVars, Elsewhere
<1>6. CASE Exit
  BY <1>0, <1>6 DEF Exit, Stop, VolatileReset, storageVars
<1>7. CASE Crash
  BY <1>0, <1>7 DEF Crash, Stop, VolatileReset, storageVars
<1>8. CASE Start
  BY <1>0, <1>8 DEF Start, pubVars, storageVars
<1>9. CASE ReadCheckpoint \/ PersistSnapshot \/ (\E i \in IndexSet : IndexInsertion(i))
           \/ UNCHANGED vars
  BY <1>1, <1>9 DEF ReadCheckpoint, PersistSnapshot, IndexInsertion, vars, pubVars, storageVars
<1> QED BY <1>3, <1>4, <1>5, <1>6, <1>7, <1>8, <1>9 DEF Next

-----------------------------------------------------------------------------
(* The trunk.                                                              *)

\* While the trunk only grows, and jobs take only what lies on it, all work
\* stays on it, and so has one value per index.
LEMMA TrunkGrows ==
    ASSUME IInv, TypeOK', mode = "running", mode' = "running", Trunk' \in Tree, IsPrefix(Trunk, Trunk'),
           wtarget'["backfill"] = wtarget["backfill"],
           \A v \in Worker : \A c \in InJob(v)' : c \in InJob(v) \/ IsPrefix(c, Trunk'),
           signed' \subseteq signed \cup UNION {InJob(v) : v \in Worker},
           wire' \subseteq InHand
    PROVE  WorkOnTrunk' /\ Dormant' /\ Consistent'
<1>1. /\ Trunk \in Tree /\ signed \subseteq Tree /\ wire \subseteq Tree
      /\ \A v \in Worker : InJob(v) \subseteq Tree
      /\ wtarget["backfill"] \in Tree
  BY WorkTypes DEF IInv
<1>2. \A c \in Tree : IsPrefix(c, Trunk) => IsPrefix(c, Trunk')
  BY <1>1, PrefixOrder
<1>3. /\ IsPrefix(wtarget["backfill"], Trunk')
      /\ \A v \in Worker : \A c \in InJob(v) : IsPrefix(c, Trunk')
      /\ \A c \in signed : IsPrefix(c, Trunk')
      /\ \A c \in wire : IsPrefix(c, Trunk')
  BY <1>1, <1>2 DEF IInv, WorkInv, WorkOnTrunk
<1>4. WorkOnTrunk'
  BY <1>3 DEF WorkOnTrunk, InHand
<1>5. Consistent'
  <2>1. \A c \in InHand' : c \in Checkpoint /\ IsPrefix(c, Trunk')
    BY <1>4 DEF WorkOnTrunk, InHand, InJob, TypeOK, PubTypeOK, Task, Storable
  <2> QED BY <2>1, OneValuePerIndex DEF Consistent
<1> QED BY <1>4, <1>5 DEF Dormant

-----------------------------------------------------------------------------
(* What each kind of step does to the invariant.                           *)

\* Coverage survives a step that keeps the backfill submitter, while storage
\* grows and its job loses only durable values.
LEMMA CoverageKept ==
    ASSUME IInv, Grows, snapshot' = snapshot,
           wpc'["backfill"] = wpc["backfill"], wtree'["backfill"] = wtree["backfill"],
           wbase'["backfill"] = wbase["backfill"],
           \A c \in InJob("backfill") : c \in InJob("backfill")' \/ stored'[Index(c)] = c
    PROVE  CoverageInv'
<1> DEFINE t == wtree["backfill"]
           b == wbase["backfill"]
<1>0. /\ t \in StorableTree /\ b \in Nat /\ Len(t) \in Nat /\ snapshot \in StorableTree
      /\ wpc["backfill"] \in {"replay", "submit"} => b <= Len(t)
      /\ wtree'["backfill"] = t /\ wbase'["backfill"] = b
  BY WorkTypes DEF IInv, WorkInv, ReplayBounds
<1>1. /\ \A c \in Storable : stored[Index(c)] = c => stored'[Index(c)] = c
      /\ \A s \in StorableTree : \A n \in 0 .. Len(s) :
           (\A i \in 0 .. n - 1 : stored[i] = CheckpointAt(s, i))
             => \A i \in 0 .. n - 1 : stored'[i] = CheckpointAt(s, i)
  BY DurableStays
<1>2. /\ Covered(snapshot, Len(snapshot))
      /\ wpc["backfill"] \in {"replay", "submit"} => Covered(t, b)
      /\ wpc["backfill"] = "submit" =>
           \A i \in b .. Index(t) :
             CheckpointAt(t, i) \in InJob("backfill") \/ stored[i] = CheckpointAt(t, i)
      /\ wpc["backfill"] = "snapshot" => Covered(t, Len(t))
  BY DEF IInv, StorageInv, CoverageInv
<1> HIDE DEF t, b
<1>3. Covered(snapshot, Len(snapshot))'
  <2>1. Len(snapshot) \in 0 .. Len(snapshot)
    BY <1>0, StorableTreeLength
  <2> QED BY <1>0, <1>1, <1>2, <2>1 DEF Covered
<1>4. wpc["backfill"] = "snapshot" => \A i \in 0 .. Len(t) - 1 : stored'[i] = CheckpointAt(t, i)
  <2>1. Len(t) \in 0 .. Len(t)
    BY <1>0
  <2> QED BY <1>0, <1>1, <1>2, <2>1 DEF Covered
<1>5. wpc["backfill"] \in {"replay", "submit"} =>
        \A i \in 0 .. b - 1 : stored'[i] = CheckpointAt(t, i)
  <2> SUFFICES ASSUME wpc["backfill"] \in {"replay", "submit"}
               PROVE  \A i \in 0 .. b - 1 : stored'[i] = CheckpointAt(t, i)
    OBVIOUS
  <2>1. b \in 0 .. Len(t)
    BY <1>0
  <2> QED BY <1>0, <1>1, <1>2, <2>1 DEF Covered
<1>6. ASSUME wpc["backfill"] = "submit", NEW i \in b .. Index(t)
      PROVE  CheckpointAt(t, i) \in InJob("backfill")' \/ stored'[i] = CheckpointAt(t, i)
  <2>1. i \in 0 .. Len(t) - 1
    BY <1>0 DEF Index
  <2>2. Index(CheckpointAt(t, i)) = i /\ CheckpointAt(t, i) \in Storable
    BY <1>0, <2>1, CheckpointAtIndex
  <2> QED BY <1>1, <1>2, <1>6, <2>2
<1> QED BY <1>0, <1>3, <1>4, <1>5, <1>6 DEF CoverageInv, Covered

\* A step inside the process that leaves storage, requests, jobs and the trunk
\* alone.
LEMMA QuietStep ==
    ASSUME IInv, TypeOK', GuardInv', mode = "running", ReplayBounds', CoverageInv',
           UNCHANGED <<mode, stored, latestIndex, wire, queue, chunk, signed>>,
           Trunk' = Trunk, wtarget'["backfill"] = wtarget["backfill"]
    PROVE  IInv'
<1>1. \A v \in Worker : InJob(v)' = InJob(v)
  BY DEF InJob
<1>2. WorkOnTrunk' /\ Dormant'
  BY <1>1 DEF IInv, WorkInv, WorkOnTrunk, Dormant
<1>3. Consistent'
  BY <1>1 DEF IInv, StorageInv, Consistent, InHand
<1>4. SubmissionsFit' /\ LatestIndexStored'
  BY DEF IInv, StorageInv, SubmissionsFit, LatestIndexStored, Fits, Held
<1> QED BY <1>2, <1>3, <1>4 DEF IInv, WorkInv, StorageInv

\* The tip submitter takes a target: the whole of its tree is verified.
LEMMA ReadInductive ==
    ASSUME IInv, TypeOK', GuardInv', mode = "running", ReadCheckpoint
    PROVE  IInv'
<1>0. /\ "tip" \in Worker /\ "backfill" \in Worker /\ wtree["tip"] \in Tree
      /\ Len(wtree["tip"]) \in Nat /\ TypeOK
  BY WorkTypes DEF IInv, WorkInv
<1>1. PICK c \in Reports : /\ ~TreeExceedsCheckpoint(c, wtree["tip"])
                           /\ wtarget' = [wtarget EXCEPT !["tip"] = c]
  BY DEF ReadCheckpoint
<1>2. \A v \in Worker : /\ wtarget'[v] = IF v = "tip" THEN c ELSE wtarget[v]
                        /\ wbase'[v] = IF v = "tip" THEN Len(wtree["tip"]) ELSE wbase[v]
                        /\ wpc'[v] = IF v = "tip" THEN "replay" ELSE wpc[v]
  BY <1>0, <1>1 DEF ReadCheckpoint, TypeOK
<1>3. Len(wtree["tip"]) <= Len(c)
  <2>1. Len(c) \in Nat
    BY ReportsTyped, TreeLength DEF Storable, Checkpoint
  <2> QED BY <1>0, <1>1, <2>1 DEF TreeExceedsCheckpoint, Index
<1>4. /\ wpc["tip"] = "read"
      /\ UNCHANGED <<wtree, snapshot, mode, stored, latestIndex, wire, queue, chunk, signed>>
  BY DEF ReadCheckpoint, pubVars, storageVars, jobVars
<1>5. ReplayBounds'
  BY <1>0, <1>2, <1>3, <1>4 DEF IInv, WorkInv, ReplayBounds
<1>6. Trunk' = Trunk
  <2>1. SubSeq(wtree["tip"], 1, Len(wtree["tip"])) = wtree["tip"]
    BY <1>0, PrefixSubSeq, PrefixOrder
  <2> QED BY <1>0, <1>2, <1>4, <2>1 DEF Trunk
<1>7. CoverageInv'
  BY <1>0, <1>2, <1>4 DEF IInv, StorageInv, CoverageInv, Covered, InJob
<1> QED BY <1>0, <1>2, <1>4, <1>5, <1>6, <1>7, QuietStep

\* A leaf read from the database extends the replay past its base.
LEMMA IngestInductive ==
    ASSUME IInv, TypeOK', GuardInv', mode = "running", NEW w \in Worker, IngestLeaf(w)
    PROVE  IInv'
<1> DEFINE n == Len(wtree[w])
           t == Append(wtree[w], db[n])
<1>0. /\ "tip" \in Worker /\ "backfill" \in Worker /\ wtree[w] \in Tree /\ n \in Nat
      /\ Len(wtarget[w]) \in Nat /\ wbase[w] \in Nat /\ wtarget[w] \in StorableTree /\ TypeOK
  BY WorkTypes DEF IInv, WorkInv
<1>1. /\ wpc[w] = "replay" /\ n <= Index(wtarget[w]) /\ db[n] # NoLeaf
      /\ wtree' = [wtree EXCEPT ![w] = t]
      /\ UNCHANGED <<wpc, wbase, wtarget, snapshot, mode, stored, latestIndex, wire, queue,
                     chunk, signed>>
  BY DEF IngestLeaf, pubVars, storageVars, jobVars
<1>2. \A v \in Worker : wtree'[v] = IF v = w THEN t ELSE wtree[v]
  BY <1>0, <1>1 DEF TypeOK
<1>3. n <= Len(wtarget[w]) - 1 /\ db[n] \in Leaf
  <2>1. n <= Len(wtarget[w]) - 1 /\ Len(wtarget[w]) <= MaxIndex + 1
    BY <1>0, <1>1, StorableTreeLength DEF Index
  <2>2. n \in IndexSet
    BY <1>0, <2>1, MaxIndexAssumption DEF IndexSet
  <2> QED BY <1>0, <1>1, <2>1, <2>2 DEF TypeOK
<1>4. t \in Tree /\ Len(t) = n + 1 /\ IsPrefix(wtree[w], t)
  BY <1>0, <1>3, PrefixAppend
<1>5. wbase[w] <= n /\ wbase[w] \in 0 .. n
  BY <1>0, <1>1 DEF IInv, WorkInv, ReplayBounds
<1> HIDE DEF t
<1>6. ReplayBounds'
  <2>1. wbase[w] <= Len(t) /\ Len(t) <= Len(wtarget[w])
    BY <1>0, <1>3, <1>4, <1>5
  <2> QED BY <1>1, <1>2, <2>1 DEF IInv, WorkInv, ReplayBounds
<1>7. SubSeq(t, 1, wbase[w]) = SubSeq(wtree[w], 1, wbase[w])
  BY <1>0, <1>4, <1>5, PrefixSubSeq
<1>8. Trunk' = Trunk
  <2>1. CASE w = "tip"
    BY <1>0, <1>1, <1>2, <1>7, <2>1 DEF Trunk
  <2>2. CASE w # "tip"
    BY <1>0, <1>1, <1>2, <2>2 DEF Trunk
  <2> QED BY <2>1, <2>2
<1>9. CoverageInv'
  <2>1. ASSUME w = "backfill", NEW i \in 0 .. wbase[w] - 1
        PROVE  CheckpointAt(t, i) = CheckpointAt(wtree[w], i)
    <3>1. i + 1 \in 0 .. n
      BY <1>0, <1>5
    <3> QED BY <1>0, <1>4, <3>1, PrefixSubSeq DEF CheckpointAt
  <2> QED BY <1>0, <1>1, <1>2, <2>1 DEF IInv, StorageInv, CoverageInv, Covered, InJob
<1> QED BY <1>0, <1>1, <1>6, <1>8, <1>9, QuietStep

\* A lasting disagreement halts a submitter where its replay began.
LEMMA HaltInductive ==
    ASSUME IInv, TypeOK', GuardInv', mode = "running", NEW w \in Worker,
           wpc[w] = "replay", HaltWorker(w)
    PROVE  IInv'
<1>0. "tip" \in Worker /\ "backfill" \in Worker /\ TypeOK
  BY WorkTypes DEF IInv, WorkInv
<1>1. /\ wpc' = [wpc EXCEPT ![w] = "halt"]
      /\ UNCHANGED <<wtree, wbase, wtarget, snapshot, mode, stored, latestIndex, wire, queue,
                     chunk, signed>>
  BY DEF HaltWorker, storageVars, jobVars
<1>2. \A v \in Worker : wpc'[v] = IF v = w THEN "halt" ELSE wpc[v]
  BY <1>0, <1>1 DEF TypeOK
<1>3. ReplayBounds'
  BY <1>1, <1>2 DEF IInv, WorkInv, ReplayBounds
<1>4. Trunk' = Trunk
  BY <1>0, <1>1, <1>2 DEF Trunk
<1>5. CoverageInv'
  BY <1>0, <1>1, <1>2 DEF IInv, StorageInv, CoverageInv, Covered, InJob
<1> QED BY <1>1, <1>3, <1>4, <1>5, QuietStep

\* A finished job leaves its whole tree durable.
LEMMA PublishedInductive ==
    ASSUME IInv, TypeOK', GuardInv', mode = "running", NEW w \in Worker, Published(w)
    PROVE  IInv'
<1>0. /\ "tip" \in Worker /\ "backfill" \in Worker /\ TypeOK
      /\ wtree[w] \in StorableTree /\ Len(wtree[w]) \in Nat /\ wbase[w] \in Nat
  BY WorkTypes DEF IInv, WorkInv
<1>1. /\ wpc[w] = "submit" /\ JobDone(w)
      /\ wpc' = [wpc EXCEPT ![w] = IF w = "tip" THEN "read" ELSE "snapshot"]
      /\ UNCHANGED <<wtree, wbase, wtarget, snapshot, mode, stored, latestIndex, wire, queue,
                     chunk, signed>>
  BY DEF Published, pubVars, storageVars, jobVars
<1>2. \A v \in Worker : wpc'[v] = IF v = w THEN IF w = "tip" THEN "read" ELSE "snapshot"
                                  ELSE wpc[v]
  BY <1>0, <1>1 DEF TypeOK
<1>3. ReplayBounds'
  BY <1>1, <1>2 DEF IInv, WorkInv, ReplayBounds
<1>4. Trunk' = Trunk
  BY <1>0, <1>1, <1>2 DEF Trunk
<1>5. ASSUME w = "backfill" PROVE Covered(wtree[w], Len(wtree[w]))
  <2>1. \A c \in InJob(w) : stored[Index(c)] = c
    BY <1>1 DEF IInv, StorageInv, SubmissionsFit, Held, JobDone, InJob
  <2>2. ASSUME NEW i \in 0 .. Len(wtree[w]) - 1
        PROVE  stored[i] = CheckpointAt(wtree[w], i)
    <3>1. Index(CheckpointAt(wtree[w], i)) = i
      BY <1>0, CheckpointAtIndex
    <3>2. CASE i < wbase[w]
      <4>1. i \in 0 .. wbase[w] - 1
        BY <1>0, <3>2
      <4> QED BY <1>1, <1>5, <4>1 DEF IInv, StorageInv, CoverageInv, Covered
    <3>3. CASE i >= wbase[w]
      <4>1. i \in wbase[w] .. Index(wtree[w])
        BY <1>0, <3>3 DEF Index
      <4> QED BY <1>1, <1>5, <2>1, <3>1, <4>1 DEF IInv, StorageInv, CoverageInv
    <3> QED BY <1>0, <3>2, <3>3
  <2> QED BY <2>2 DEF Covered
<1>6. CoverageInv'
  BY <1>0, <1>1, <1>2, <1>5 DEF IInv, StorageInv, CoverageInv, Covered, InJob
<1> QED BY <1>1, <1>3, <1>4, <1>6, QuietStep

\* The snapshot is written from a tree that is durable.
LEMMA SnapshotInductive ==
    ASSUME IInv, TypeOK', GuardInv', mode = "running", PersistSnapshot
    PROVE  IInv'
<1>0. "tip" \in Worker /\ "backfill" \in Worker /\ TypeOK
  BY WorkTypes DEF IInv, WorkInv
<1>1. /\ wpc["backfill"] = "snapshot" /\ snapshot' \in {snapshot, wtree["backfill"]}
      /\ wpc' = [wpc EXCEPT !["backfill"] = "done"]
      /\ UNCHANGED <<wtree, wbase, wtarget, mode, stored, latestIndex, wire, queue, chunk, signed>>
  BY DEF PersistSnapshot, pubVars, storageVars, jobVars
<1>2. \A v \in Worker : wpc'[v] = IF v = "backfill" THEN "done" ELSE wpc[v]
  BY <1>0, <1>1 DEF TypeOK
<1>3. ReplayBounds'
  BY <1>1, <1>2 DEF IInv, WorkInv, ReplayBounds
<1>4. Trunk' = Trunk
  BY <1>0, <1>1, <1>2 DEF Trunk
<1>5. CoverageInv'
  BY <1>0, <1>1, <1>2 DEF IInv, StorageInv, CoverageInv, Covered, InJob
<1> QED BY <1>1, <1>3, <1>4, <1>5, QuietStep

\* A verified replay becomes a job: it extends the tip's trunk, or lies on it.
LEMMA PublishInductive ==
    ASSUME IInv, TypeOK', GuardInv', mode = "running", NEW w \in Worker,
           wpc[w] = "replay", PublishVerified(w, wtarget[w]),
           IsPrefix(SubSeq(wtree[w], 1, wbase[w]), wtarget[w])
    PROVE  IInv'
<1> DEFINE t == wtarget[w]
           b == wbase[w]
           S == {CheckpointAt(t, i) : i \in b .. Index(t)}
<1>0. /\ "tip" \in Worker /\ "backfill" \in Worker /\ TypeOK /\ PubTypeOK
      /\ t \in StorableTree /\ t \in Tree /\ Len(t) \in Nat /\ b \in Nat
      /\ wtree[w] \in Tree /\ Len(wtree[w]) \in Nat /\ Trunk \in Tree
  BY WorkTypes DEF IInv, WorkInv
<1>1. b <= Len(wtree[w]) /\ Len(wtree[w]) <= Len(t)
  BY DEF IInv, WorkInv, ReplayBounds
<1>2. b \in 0 .. Len(wtree[w]) /\ b <= Len(t) /\ b \in 0 .. Len(t)
  BY <1>0, <1>1
<1>3. /\ wtree' = [wtree EXCEPT ![w] = t] /\ wpc' = [wpc EXCEPT ![w] = "submit"]
      /\ StartJob(w, S, TRUE)
      /\ UNCHANGED <<wbase, wtarget, snapshot, mode, stored, latestIndex, wire, signed>>
  BY DEF PublishVerified, storageVars
<1>4. \A v \in Worker : /\ wtree'[v] = IF v = w THEN t ELSE wtree[v]
                        /\ wpc'[v] = IF v = w THEN "submit" ELSE wpc[v]
  BY <1>0, <1>3 DEF TypeOK
<1>5. ASSUME NEW i \in b .. Index(t)
      PROVE  /\ CheckpointAt(t, i) \in Storable /\ CheckpointAt(t, i) \in Tree
             /\ IsPrefix(CheckpointAt(t, i), t)
  <2>1. i \in 0 .. Len(t) - 1
    BY <1>0 DEF Index
  <2> QED BY <1>0, <2>1, CheckpointAtIndex, PrefixCheckpointAt DEF Checkpoint
<1>6. S \in SUBSET Storable /\ \A c \in S : c \in Tree /\ IsPrefix(c, t)
  BY <1>5
<1>7. \A i \in b .. Index(t) : CheckpointAt(t, i) \in S
  OBVIOUS
<1> HIDE DEF S
<1>8. /\ InJob(w)' = S
      /\ \A v \in Worker \ {w} : InJob(v)' = InJob(v)
  BY <1>0, <1>3, <1>6, StartJobSafe
<1>9. /\ Trunk' \in Tree /\ IsPrefix(Trunk, Trunk') /\ IsPrefix(t, Trunk')
  <2>1. CASE w = "tip"
    <3>1. Trunk = SubSeq(wtree[w], 1, b) /\ Trunk' = t
      BY <1>0, <1>4, <2>1 DEF Trunk
    <3> QED BY <1>0, <3>1, PrefixOrder
  <2>2. CASE w # "tip"
    <3>1. Trunk' = Trunk
      BY <1>0, <1>3, <1>4, <2>2 DEF Trunk
    <3>2. w = "backfill"
      BY <2>2, WorkerAssumption
    <3>3. IsPrefix(t, Trunk)
      BY <3>2 DEF IInv, WorkInv, WorkOnTrunk
    <3> QED BY <1>0, <3>1, <3>3, PrefixOrder
  <2> QED BY <2>1, <2>2
<1>10. \A c \in S : IsPrefix(c, Trunk')
  BY <1>0, <1>6, <1>9, PrefixOrder
<1>11. WorkOnTrunk' /\ Dormant' /\ Consistent'
  <2>1. \A v \in Worker : \A c \in InJob(v)' : c \in InJob(v) \/ IsPrefix(c, Trunk')
    BY <1>8, <1>10
  <2>2. signed' \subseteq signed \cup UNION {InJob(v) : v \in Worker} /\ wire' \subseteq InHand
    BY <1>3 DEF InHand
  <2>3. mode' = "running" /\ wtarget'["backfill"] = wtarget["backfill"]
    BY <1>3
  <2> QED BY <1>9, <2>1, <2>2, <2>3, TrunkGrows
<1>12. ReplayBounds'
  BY <1>2, <1>3, <1>4 DEF IInv, WorkInv, ReplayBounds
<1>13. SubmissionsFit' /\ LatestIndexStored'
  <2>1. \A v \in Worker : chunk'[v] = IF v = w THEN {} ELSE chunk[v]
    BY <1>0, <1>3 DEF StartJob, PubTypeOK
  <2> QED BY <1>3, <2>1 DEF IInv, StorageInv, SubmissionsFit, LatestIndexStored, Fits, Held
<1>14. CoverageInv'
  <2>1. CASE w = "backfill"
    <3>1. ASSUME NEW i \in 0 .. b - 1 PROVE CheckpointAt(t, i) = CheckpointAt(wtree[w], i)
      <4> DEFINE p == SubSeq(wtree[w], 1, b)
      <4>1. p \in Tree /\ Len(p) = b /\ IsPrefix(p, wtree[w])
        BY <1>0, <1>2, PrefixSubSeq, PrefixOrder
      <4>2. i + 1 \in 0 .. Len(p)
        BY <1>0, <4>1
      <4>3. IsPrefix(p, t)
        OBVIOUS
      <4> HIDE DEF p
      <4>4. SubSeq(t, 1, i + 1) = SubSeq(p, 1, i + 1)
        BY <1>0, <4>1, <4>2, <4>3, PrefixSubSeq
      <4>5. SubSeq(wtree[w], 1, i + 1) = SubSeq(p, 1, i + 1)
        BY <1>0, <4>1, <4>2, PrefixSubSeq
      <4> QED BY <4>4, <4>5 DEF CheckpointAt
    <3>2. \A i \in 0 .. b - 1 : stored'[i] = CheckpointAt(t, i)
      BY <1>3, <2>1, <3>1 DEF IInv, StorageInv, CoverageInv, Covered
    <3>3. Covered(snapshot, Len(snapshot))'
      BY <1>3 DEF IInv, StorageInv, CoverageInv, Covered
    <3>4. wpc'["backfill"] = "submit" /\ wtree'["backfill"] = t /\ wbase'["backfill"] = b
          /\ InJob("backfill")' = S
      BY <1>3, <1>4, <1>8, <2>1
    <3> HIDE DEF t, b
    <3> QED BY <1>7, <3>2, <3>3, <3>4 DEF CoverageInv, Covered
  <2>2. CASE w # "backfill"
    <3>1. Grows /\ InJob("backfill")' = InJob("backfill")
      BY <1>0, <1>3, <1>8, <2>2 DEF Grows
    <3> QED BY <1>0, <1>3, <1>4, <2>2, <3>1, CoverageKept
  <2> QED BY <2>1, <2>2
<1> QED BY <1>11, <1>12, <1>13, <1>14 DEF IInv, WorkInv, StorageInv

\* A submitter's own steps keep the invariant.
LEMMA WorkerInductive ==
    ASSUME IInv, TypeOK', GuardInv', mode = "running", NEW w \in Worker,
           IngestLeaf(w) \/ Verified(w) \/ Mismatch(w) \/ Published(w)
    PROVE  IInv'
<1>0. /\ wtree[w] \in Tree /\ wtarget[w] \in Tree /\ wbase[w] \in Nat
      /\ Len(wtree[w]) \in Nat /\ Len(wtarget[w]) \in Nat
  BY WorkTypes DEF IInv
<1>1. ASSUME wpc[w] = "replay"
      PROVE  /\ wbase[w] \in 0 .. Len(wtree[w])
             /\ SubSeq(wtree[w], 1, wbase[w]) \in Tree
             /\ IsPrefix(SubSeq(wtree[w], 1, wbase[w]), wtree[w])
             /\ Len(wtarget[w]) - wbase[w] \in Nat
  <2>1. wbase[w] <= Len(wtree[w]) /\ Len(wtree[w]) <= Len(wtarget[w])
    BY <1>1 DEF IInv, WorkInv, ReplayBounds
  <2>2. wbase[w] \in 0 .. Len(wtree[w]) /\ Len(wtarget[w]) - wbase[w] \in Nat
    BY <1>0, <2>1
  <2> QED BY <1>0, <2>2, PrefixSubSeq, PrefixOrder
<1>2. CASE Verified(w)
  BY <1>1, <1>2, PublishInductive DEF Verified, Replayed
<1>3. CASE Mismatch(w)
  <2>1. wpc[w] = "replay"
    BY <1>3 DEF Mismatch, Replayed
  <2>2. CASE HaltWorker(w)
    BY <2>1, <2>2, HaltInductive
  <2>3. ASSUME NEW leaves \in Fetched(wbase[w], Len(wtarget[w]) - wbase[w]),
               SubSeq(wtree[w], 1, wbase[w]) \o leaves = wtarget[w],
               PublishVerified(w, SubSeq(wtree[w], 1, wbase[w]) \o leaves)
        PROVE  IInv'
    <3>1. leaves \in Tree
      BY <1>0, <1>1, <2>1, FetchedTyped
    <3>2. IsPrefix(SubSeq(wtree[w], 1, wbase[w]), wtarget[w])
      BY <1>1, <2>1, <2>3, <3>1, PrefixConcat
    <3> QED BY <2>1, <2>3, <3>2, PublishInductive
  <2> QED BY <1>3, <2>2, <2>3 DEF Mismatch
<1> QED BY <1>2, <1>3, IngestInductive, PublishedInductive

\* Publication moves work along and signs only what is on the trunk.
LEMMA PublicationInductive ==
    ASSUME IInv, TypeOK', GuardInv', mode = "running", PublicationStep, UNCHANGED Elsewhere
    PROVE  IInv'
<1>0. PubTypeOK /\ "backfill" \in Worker /\ Trunk \in Tree
  BY WorkTypes DEF IInv
<1>1. /\ SubmissionsFit'
      /\ stored' = stored
      /\ \A v \in Worker : InJob(v)' \subseteq InJob(v)
      /\ \A v \in Worker : \A c \in InJob(v) : c \in InJob(v)' \/ stored'[Index(c)] = c
      /\ wire' \subseteq InHand
      /\ \/ latestIndex' = latestIndex
         \/ \E w \in Worker : \E t \in chunk[w] :
              ~halted /\ t.stage = "latestWrite" /\ latestIndex' = Index(t.cp)
  BY <1>0, PublicationStepFits DEF IInv, StorageInv
<1>2. signed' \subseteq signed \cup UNION {InJob(v) : v \in Worker}
  BY <1>0, PublicationStepSafe
<1>3. UNCHANGED <<mode, snapshot, wpc, wtree, wbase, wtarget>>
  BY DEF Elsewhere, workVars
<1>4. Trunk' = Trunk /\ IsPrefix(Trunk, Trunk')
  BY <1>0, <1>3, PrefixOrder DEF Trunk
<1>5. WorkOnTrunk' /\ Dormant' /\ Consistent'
  BY <1>0, <1>1, <1>2, <1>3, <1>4, TrunkGrows
<1>6. ReplayBounds'
  BY <1>3 DEF IInv, WorkInv, ReplayBounds
<1>7. CoverageInv'
  <2>1. Grows
    BY <1>1 DEF Grows
  <2> QED BY <1>0, <1>1, <1>3, <2>1, CoverageKept
<1>8. LatestIndexStored'
  <2>1. CASE latestIndex' = latestIndex
    BY <1>1, <2>1 DEF IInv, StorageInv, LatestIndexStored
  <2>2. ASSUME NEW w \in Worker, NEW t \in chunk[w], t.stage = "latestWrite",
               latestIndex' = Index(t.cp)
        PROVE  LatestIndexStored'
    <3>1. stored[Index(t.cp)] = t.cp
      BY <2>2 DEF IInv, StorageInv, SubmissionsFit, Held
    <3>2. t.cp # None
      BY <1>0 DEF PubTypeOK, Task, Storable, Checkpoint, None
    <3> QED BY <1>1, <2>2, <3>1, <3>2 DEF LatestIndexStored
  <2> QED BY <1>1, <2>1, <2>2
<1> QED BY <1>1, <1>5, <1>6, <1>7, <1>8 DEF IInv, WorkInv, StorageInv

\* Storage applies a request of a living process or of one that panicked.
LEMMA WriteInductive ==
    ASSUME IInv, TypeOK', GuardInv', NEW c \in wire, WriteCheckpoint(c), UNCHANGED Elsewhere
    PROVE  IInv' /\ Grows
<1>0. PubTypeOK /\ "backfill" \in Worker
  BY WorkTypes DEF IInv
<1>1. /\ SubmissionsFit' /\ Grows /\ wire' \subseteq wire
      /\ \A v \in Worker : InJob(v)' = InJob(v)
  BY <1>0, WriteCheckpointFits DEF IInv, StorageInv
<1>2. UNCHANGED <<mode, snapshot, wpc, wtree, wbase, wtarget, latestIndex, signed>>
  BY DEF Elsewhere, workVars, WriteCheckpoint
<1>3. Trunk' = Trunk
  BY <1>2 DEF Trunk
<1>4. WorkOnTrunk' /\ Dormant' /\ ReplayBounds'
  BY <1>1, <1>2, <1>3 DEF IInv, WorkInv, WorkOnTrunk, Dormant, ReplayBounds
<1>5. Consistent'
  BY <1>1 DEF IInv, StorageInv, Consistent, InHand
<1>6. CoverageInv'
  BY <1>0, <1>1, <1>2, CoverageKept
<1>7. LatestIndexStored'
  BY <1>0, <1>1, <1>2 DEF IInv, StorageInv, LatestIndexStored, Grows, PubTypeOK
<1> QED BY <1>1, <1>4, <1>5, <1>6, <1>7 DEF IInv, WorkInv, StorageInv

\* The end of a process: no work is left, and a crash takes its requests along.
LEMMA StopInductive ==
    ASSUME IInv, TypeOK', GuardInv', Stop, mode' \in {"stopped", "exited"},
           wire' \subseteq wire, mode' = "stopped" => wire' = {}
    PROVE  IInv'
<1>0. "tip" \in Worker /\ "backfill" \in Worker /\ << >> \in Tree
  BY WorkerAssumption, TreeLength
<1>1. /\ UNCHANGED <<stored, latestIndex, snapshot>> /\ signed' = {}
      /\ \A v \in Worker : /\ queue'[v] = {} /\ chunk'[v] = {} /\ wpc'[v] = "done"
                           /\ wtree'[v] = None /\ wtarget'[v] = None
  BY DEF Stop, VolatileReset, storageVars
<1>2. \A v \in Worker : InJob(v)' = {}
  BY <1>1 DEF InJob
<1>3. Trunk' = << >> /\ IsPrefix(<< >>, << >>)
  BY <1>0, <1>1, PrefixOrder DEF Trunk, None
<1>4. WorkOnTrunk' /\ Dormant' /\ ReplayBounds'
  BY <1>0, <1>1, <1>2, <1>3 DEF WorkOnTrunk, Dormant, ReplayBounds, None
<1>5. Consistent'
  BY <1>2 DEF IInv, StorageInv, Consistent, InHand
<1>6. SubmissionsFit' /\ LatestIndexStored' /\ CoverageInv'
  BY <1>0, <1>1 DEF IInv, StorageInv, SubmissionsFit, LatestIndexStored, CoverageInv, Covered,
     Fits, Held
<1> QED BY <1>4, <1>5, <1>6 DEF IInv, WorkInv, StorageInv

\* A new process finds no request of an old one, and backfills from a snapshot
\* whose checkpoints are durable, or from nothing.
LEMMA StartInductive ==
    ASSUME IInv, TypeOK', GuardInv', Start
    PROVE  IInv'
<1>0. /\ "tip" \in Worker /\ "backfill" \in Worker /\ "tip" # "backfill"
      /\ TypeOK /\ snapshot \in StorableTree
  BY WorkTypes DEF IInv, WorkInv
<1>1. PICK tip \in Reports, old \in RestoredTrees :
        /\ Len(old) <= Len(tip)
        /\ wtree' = [w \in Worker |-> IF w = "tip" THEN tip ELSE old]
        /\ wbase' = [w \in Worker |-> IF w = "tip" THEN Len(tip) ELSE Len(old)]
        /\ wtarget' = [w \in Worker |-> tip]
        /\ wpc' = [w \in Worker |-> IF w = "tip" THEN "read" ELSE "replay"]
  BY DEF Start
<1>2. /\ mode = "stopped" /\ mode' = "running"
      /\ UNCHANGED <<stored, latestIndex, wire, queue, chunk, signed, snapshot>>
  BY <1>0 DEF Start, IInv, WorkInv, GuardInv, TypeOK, pubVars, storageVars, jobVars
<1>3. /\ wire = {} /\ signed = {} /\ \A v \in Worker : InJob(v) = {}
      /\ \A v \in Worker : InJob(v)' = InJob(v)
  BY <1>2 DEF IInv, WorkInv, Dormant, InJob
<1>4. tip \in Tree /\ Len(tip) \in Nat /\ Len(old) \in Nat
  BY <1>0, ReportsTyped, TreeLength, StorableTreeLength
     DEF Storable, Checkpoint, RestoredTrees
<1>5. /\ wtree'["tip"] = tip /\ wpc'["tip"] = "read" /\ wtarget'["backfill"] = tip
      /\ wtree'["backfill"] = old /\ wbase'["backfill"] = Len(old)
      /\ wpc'["backfill"] = "replay"
  BY <1>0, <1>1
<1>6. Trunk' = tip
  BY <1>5 DEF Trunk
<1>7. WorkOnTrunk' /\ Dormant' /\ Consistent'
  BY <1>2, <1>3, <1>4, <1>5, <1>6, PrefixOrder DEF WorkOnTrunk, Dormant, Consistent, InHand
<1>8. ReplayBounds'
  <2>1. Worker = {"tip", "backfill"}
    BY WorkerAssumption
  <2> QED BY <1>1, <1>4, <1>5, <2>1 DEF ReplayBounds
<1>9. SubmissionsFit' /\ LatestIndexStored'
  BY <1>2 DEF IInv, StorageInv, SubmissionsFit, LatestIndexStored, Fits, Held
<1>10. CoverageInv'
  <2>1. Covered(snapshot, Len(snapshot))
    BY DEF IInv, StorageInv, CoverageInv
  <2>2. \A i \in 0 .. Len(old) - 1 : stored[i] = CheckpointAt(old, i)
    <3>1. CASE old = << >>
      <4>1. Len(old) = 0
        BY <3>1
      <4> QED BY <4>1
    <3>2. CASE old = snapshot
      BY <2>1, <3>2 DEF Covered
    <3> QED BY <3>1, <3>2 DEF RestoredTrees
  <2> QED BY <1>2, <1>5, <2>1, <2>2 DEF CoverageInv, Covered
<1> QED BY <1>7, <1>8, <1>9, <1>10 DEF IInv, WorkInv, StorageInv

-----------------------------------------------------------------------------
(* The theorems.                                                           *)

\* Nothing is under way and nothing is published when the validator is
\* installed.
LEMMA InitInductive == Init => IInv
<1> SUFFICES ASSUME Init PROVE IInv
  OBVIOUS
<1>0. "tip" \in Worker /\ "backfill" \in Worker /\ << >> \in Tree /\ Len(<< >>) = 0
  BY WorkerAssumption, TreeLength
<1>1. \A v \in Worker : InJob(v) = {}
  BY DEF Init, PubInit, VolatileInit, InJob
<1>2. PubTypeOK
  BY MaxIndexAssumption DEF Init, PubInit, VolatileInit, PubTypeOK, IndexSet, GuardStage
<1>3. TypeOK
  BY <1>2, MaxIndexAssumption, CrashAssumption DEF Init, TypeOK, WorkPc, StorableTree
<1>4. Trunk = << >> /\ IsPrefix(<< >>, << >>)
  BY <1>0, PrefixOrder DEF Init, Trunk, None
<1>5. ReplayBounds /\ WorkOnTrunk /\ Dormant /\ GuardInv
  BY <1>0, <1>1, <1>4 DEF Init, PubInit, VolatileInit, ReplayBounds, WorkOnTrunk, Dormant,
     GuardInv, None
<1>6. Consistent /\ SubmissionsFit /\ LatestIndexStored
  BY <1>1 DEF Init, PubInit, VolatileInit, Consistent, InHand, SubmissionsFit, LatestIndexStored
<1>7. CoverageInv
  <2>1. 0 .. 0 - 1 = {}
    OBVIOUS
  <2> QED BY <1>0, <2>1 DEF Init, CoverageInv, Covered, None
<1> QED BY <1>3, <1>5, <1>6, <1>7 DEF IInv, WorkInv, StorageInv

\* Every step keeps the invariant, and no step replaces a checkpoint.
LEMMA NextInductive ==
    ASSUME IInv, [Next]_vars
    PROVE  IInv' /\ Grows
<1>0. TypeOK' /\ GuardInv'
  BY TypeInductive, GuardInductive DEF IInv
<1>1. stored' = stored => Grows
  BY DEF Grows
<1>2. CASE mode = "running" /\ (ReadCheckpoint \/ PersistSnapshot)
  <2>1. stored' = stored
    BY <1>2 DEF ReadCheckpoint, PersistSnapshot, pubVars, storageVars
  <2> QED BY <1>0, <1>1, <1>2, <2>1, ReadInductive, SnapshotInductive
<1>3. ASSUME mode = "running", NEW w \in Worker,
             IngestLeaf(w) \/ Verified(w) \/ Mismatch(w) \/ Published(w)
      PROVE  IInv' /\ Grows
  <2>1. stored' = stored
    BY <1>3 DEF IngestLeaf, Verified, Mismatch, Published, PublishVerified, HaltWorker,
       pubVars, storageVars
  <2> QED BY <1>0, <1>1, <1>3, <2>1, WorkerInductive
<1>4. CASE mode = "running" /\ PublicationStep /\ UNCHANGED Elsewhere
  <2>1. stored' = stored
    BY <1>4, PublicationStepFits, WorkTypes DEF IInv, StorageInv
  <2> QED BY <1>0, <1>1, <1>4, <2>1, PublicationInductive
<1>5. CASE (\E c \in wire : WriteCheckpoint(c)) /\ UNCHANGED Elsewhere
  BY <1>0, <1>5, WriteInductive
<1>6. CASE Exit
  BY <1>0, <1>1, <1>6, StopInductive DEF Exit, Stop, storageVars
<1>7. CASE Crash
  BY <1>0, <1>1, <1>7, StopInductive DEF Crash, Stop, storageVars
<1>8. CASE Start
  BY <1>0, <1>1, <1>8, StartInductive DEF Start, pubVars, storageVars
<1>9. ASSUME UNCHANGED <<stored, latestIndex, wire, queue, chunk, signed, snapshot, mode, workVars>>
      PROVE  IInv' /\ Grows
  <2>1. Trunk' = Trunk /\ \A v \in Worker : InJob(v)' = InJob(v)
    BY <1>9 DEF Trunk, InJob, workVars
  <2>2. ReplayBounds' /\ WorkOnTrunk' /\ Dormant'
    BY <1>9, <2>1 DEF IInv, WorkInv, ReplayBounds, WorkOnTrunk, Dormant, workVars
  <2>3. Consistent' /\ SubmissionsFit' /\ LatestIndexStored'
    BY <1>9, <2>1 DEF IInv, StorageInv, Consistent, InHand, SubmissionsFit, LatestIndexStored,
       Fits, Held
  <2>4. CoverageInv'
    BY <1>9, <2>1, WorkerAssumption DEF IInv, StorageInv, CoverageInv, Covered, workVars
  <2> QED BY <1>0, <1>1, <1>9, <2>2, <2>3, <2>4 DEF IInv, WorkInv, StorageInv
<1>10. CASE \/ \E i \in IndexSet : IndexInsertion(i)
            \/ OutageEnds /\ UNCHANGED Elsewhere
            \/ UNCHANGED vars
  BY <1>9, <1>10 DEF IndexInsertion, OutageEnds, Elsewhere, vars, pubVars, storageVars, jobVars
<1> QED BY <1>2, <1>3, <1>4, <1>5, <1>6, <1>7, <1>8, <1>10 DEF Next

\* IInv is an invariant of the validator.
LEMMA Invariance == Spec => []IInv
<1>1. Init => IInv
  BY InitInductive
<1>2. IInv /\ [Next]_vars => IInv'
  BY NextInductive
<1> QED BY <1>1, <1>2, PTL DEF Spec

\* Type correctness: in particular no replay runs past its target
\* (ingest_message_id stops at the correctness checkpoint).
THEOREM TypeCorrect == Spec => []TypeOK
<1>1. IInv => TypeOK
  BY DEF IInv, WorkInv
<1> QED BY <1>1, Invariance, PTL

\* The tip and the backfill submitter of one process, each verifying its own
\* replay against its own reading of the chain, sign checkpoints of one history,
\* whatever the nodes report and the database holds in between.
THEOREM SubmittersSignOneHistory == Spec => []OneHistory
<1>1. ASSUME IInv PROVE OneHistory
  <2> SUFFICES ASSUME NEW c \in signed, NEW d \in signed
               PROVE  IsPrefix(c, d) \/ IsPrefix(d, c)
    BY DEF OneHistory
  <2>1. /\ c \in Tree /\ d \in Tree /\ Trunk \in Tree
        /\ IsPrefix(c, Trunk) /\ IsPrefix(d, Trunk)
    BY <1>1, WorkTypes DEF IInv, WorkInv, WorkOnTrunk
  <2>2. Len(c) <= Len(d) \/ Len(d) <= Len(c)
    BY <2>1, TreeLength
  <2> QED BY <2>1, <2>2, PrefixLinear
<1> QED BY <1>1, Invariance, PTL

\* A published checkpoint is never replaced by another value, whichever
\* submitter publishes its index and whatever an earlier process published
\* (sign_and_submit_checkpoint compares with storage before it signs).
THEOREM PublishedOnce == Spec => PublishedImmutable
<1>1. IInv /\ [Next]_vars =>
        [\A i \in IndexSet : stored[i] # None => stored'[i] = stored[i]]_vars
  BY NextInductive DEF Grows
<1> QED BY <1>1, Invariance, PTL DEF Spec, PublishedImmutable

\* The snapshot that a restart backfills from covers durable checkpoints only
\* (backfill_checkpoint_submitter writes it after its last upload).
THEOREM SnapshotIsCovered == Spec => []SnapshotCovered
<1>1. ASSUME IInv PROVE SnapshotCovered
  <2>1. \A i \in 0 .. Len(snapshot) - 1 : stored[i] = CheckpointAt(snapshot, i)
    BY <1>1 DEF IInv, StorageInv, CoverageInv, Covered
  <2> QED BY <2>1 DEF SnapshotCovered, Index
<1> QED BY <1>1, Invariance, PTL

\* Both submitters may write the latest index, in any order; the checkpoint it
\* names is durable (publish_latest_checkpoint_index follows the upload).
THEOREM LatestIndexIsStored == Spec => []LatestIndexStored
<1>1. IInv => LatestIndexStored
  BY DEF IInv, StorageInv
<1> QED BY <1>1, Invariance, PTL
=============================================================================
