---------------------- MODULE ConsensusValidatorProofs ----------------------
(***************************************************************************)
(* The validator commits only what a threshold of endpoints reports and    *)
(* signs only the history it committed, proved for every pool of           *)
(* endpoints, every set of histories, every index bound and any number of  *)
(* crashes.  The inductive invariant is IInv of ConsensusValidator.  Then  *)
(* what it publishes.                                                      *)
(***************************************************************************)
EXTENDS ConsensusValidator, CheckpointPublicationProofs

-----------------------------------------------------------------------------
(* Types and bounds.                                                       *)

\* A coherent frontier whose replay stays within the indices is storable.
LEMMA BoundedFrontier ==
    ASSUME NEW f, Coherent(f)
    PROVE  f \in StorableFrontier <=> f \in Frontier /\ Len(f.accumulated) <= MaxIndex + 1
<1>1. \A t : t \in StorableTree <=> t \in Tree /\ Len(t) <= MaxIndex + 1
  BY StorableTreeLength
<1>2. ASSUME f \in StorableFrontier
      PROVE  f \in Frontier /\ Len(f.accumulated) <= MaxIndex + 1
  BY <1>1, <1>2 DEF StorableFrontier, Frontier, Storable
<1>3. ASSUME f \in Frontier, Len(f.accumulated) <= MaxIndex + 1
      PROVE  f \in StorableFrontier
  <2>1. ASSUME NEW t \in Tree, IsPrefix(t, f.accumulated)
        PROVE  t \in StorableTree
    <3>1. Len(t) <= Len(f.accumulated) /\ Len(t) \in Nat /\ Len(f.accumulated) \in Nat
      BY <1>3, <2>1, PrefixPointwise DEF Frontier, Tree
    <3>2. Len(t) <= MaxIndex + 1
      BY <1>3, <3>1, MaxIndexAssumption
    <3> QED BY <1>1, <3>2
  <2>2. f.committed \in StorableTree
    BY <1>3, <2>1 DEF Coherent, Frontier
  <2>3. f.accumulated \in StorableTree
    BY <1>1, <1>3 DEF Frontier
  <2>4. f.sampled \subseteq Storable
    <3> SUFFICES ASSUME NEW s \in f.sampled PROVE s \in Storable
      OBVIOUS
    <3>1. s \in Tree /\ s # << >> /\ IsPrefix(s, f.accumulated)
      BY <1>3 DEF Frontier, Checkpoint, Coherent
    <3> QED BY <2>1, <3>1 DEF StorableTree, None
  <2> QED BY <1>3, <2>2, <2>3, <2>4 DEF Frontier, StorableFrontier
<1> QED BY <1>2, <1>3

-----------------------------------------------------------------------------
(* The vote moves the committed tree forward, behind a threshold.          *)

\* A threshold of the endpoints reports a history that contains t.
Backed(t, bal) == Cardinality({e \in Endpoint : IsPrefix(t, bal[e])}) >= Required

\* What the result of a vote is worth to the live submitter.
Trusted(r, bal) ==
    /\ r.frontier \in StorableFrontier
    /\ Coherent(r.frontier)
    /\ IsPrefix(tree.committed, r.frontier.committed)
    /\ ~Advances(r) => r.frontier.committed = tree.committed
    /\ Advances(r) => /\ r.frontier.committed \in Storable
                      /\ Len(r.frontier.committed) > Len(tree.committed)
                      /\ Backed(r.frontier.committed, bal)

\* An extension that differs is longer.
LEMMA ExtensionGrows ==
    ASSUME NEW s \in StorableTree, NEW t \in StorableTree, IsPrefix(s, t)
    PROVE  Len(s) <= Len(t) /\ (s # t => Len(s) < Len(t))
<1>1. s \in Tree /\ t \in Tree /\ Len(s) \in Nat /\ Len(t) \in Nat
  BY StorableTreeLength, TreeLength
<1>2. Len(s) <= Len(t)
  BY <1>1, PrefixPointwise
<1>3. Len(s) = Len(t) => s = t
  BY <1>1, PrefixOrder
<1> QED BY <1>1, <1>2, <1>3

\* The samples of a ballot are within the indices.
LEMMA BallotBounds ==
    ASSUME NEW bal \in [Endpoint -> StorableTree]
    PROVE  /\ bal \in Ballot
           /\ \A i \in Indices(bal) : i <= MaxIndex /\ i \in Nat
<1>1. bal \in Ballot
  BY StorableTreeLength DEF Ballot
<1>2. ASSUME NEW e \in Endpoint, bal[e] # None
      PROVE  Index(bal[e]) <= MaxIndex /\ Index(bal[e]) \in Nat
  BY <1>2, StorableTreeLength, MaxIndexAssumption DEF Index
<1> QED BY <1>1, <1>2 DEF Indices, Responded

\* A verification step over the database is trusted.
LEMMA VerifyTrusted ==
    ASSUME IInv, NEW bal \in [Endpoint -> StorableTree], NEW r \in VerifyStep(tree, bal, db)
    PROVE  Trusted(r, bal)
<1>1. /\ tree \in StorableFrontier /\ Coherent(tree)
      /\ tree \in Frontier /\ Len(tree.accumulated) <= MaxIndex + 1
  BY BoundedFrontier DEF IInv, TypeOK
<1>2. bal \in Ballot /\ \A i \in Indices(bal) : i <= MaxIndex
  BY BallotBounds
<1>3. db \in [0 .. MaxIndex -> Leaf \cup {NoLeaf}]
  BY DEF IInv, TypeOK, IndexSet
<1>4. /\ r.frontier \in Frontier
      /\ Coherent(r.frontier)
      /\ Len(r.frontier.accumulated) <= MaxIndex + 1
      /\ IsPrefix(tree.committed, r.frontier.committed)
      /\ r.outcome # "Verified" => r.frontier.committed = tree.committed
      /\ r.outcome = "Verified" => /\ r.frontier.committed \in Checkpoint
                                   /\ Backed(r.frontier.committed, bal)
  BY <1>1, <1>2, <1>3, VerifyStepSound, MaxIndexAssumption DEF Backed
<1>5. r.frontier \in StorableFrontier
  BY <1>4, BoundedFrontier
<1>6. r.frontier.committed \in StorableTree /\ tree.committed \in StorableTree
  BY <1>1, <1>5 DEF StorableFrontier
<1>7. Advances(r) => Len(r.frontier.committed) > Len(tree.committed)
  BY <1>4, <1>6, ExtensionGrows, StorableTreeLength DEF Advances
<1>8. Advances(r) => r.frontier.committed \in Storable
  BY <1>4, <1>6, StorableTreeLength DEF Advances, Checkpoint, None
<1> QED BY <1>4, <1>5, <1>7, <1>8 DEF Trusted, Advances

\* So is a vote over insertions recovered by RPC, and the leaves it stores are
\* leaves.
LEMMA RecoveryTrusted ==
    ASSUME IInv, NEW rec \in Recoveries
    PROVE  /\ Trusted(rec.result, samples)
           /\ rec.leaves \in Tree
           /\ Len(rec.result.frontier.committed) <= Len(tree.committed) + Len(rec.leaves)
<1> DEFINE first == Len(tree.committed)
           lengths == {n \in 1 .. MaxIndex + 1 :
                         \E i \in Recoverable(tree, samples) : first + n - 1 <= i}
<1>1. /\ tree \in StorableFrontier /\ Coherent(tree) /\ tree \in Frontier
      /\ samples \in [Endpoint -> StorableTree]
  BY BoundedFrontier DEF IInv, TypeOK
<1>2. first \in Nat /\ tree.committed \in StorableTree /\ tree.committed \in Tree
  BY <1>1, StorableTreeLength, TreeLength DEF StorableFrontier
<1>3. samples \in Ballot /\ \A i \in Indices(samples) : i <= MaxIndex /\ i \in Nat
  BY <1>1, BallotBounds
<1>0. PICK n \in lengths : \E leaves \in Fetched(first, n) :
        \E r \in Evaluate(RecoveredFrontier(tree, samples, leaves), samples) :
          rec = [leaves |-> leaves, result |-> r]
  BY DEF Recoveries
<1>4. PICK leaves \in Fetched(first, n) :
        \E r \in Evaluate(RecoveredFrontier(tree, samples, leaves), samples) :
          rec = [leaves |-> leaves, result |-> r]
  BY <1>0
<1>5. n \in Nat /\ first + n <= MaxIndex + 1
  <2>1. PICK i \in Recoverable(tree, samples) : first + n - 1 <= i
    BY <1>0
  <2>2. i \in Indices(samples)
    BY <2>1 DEF Recoverable
  <2>3. i <= MaxIndex /\ i \in Nat
    BY <1>3, <2>2
  <2> HIDE DEF first
  <2> QED BY <1>2, <2>1, <2>3, MaxIndexAssumption
<1>6. leaves \in Tree /\ Len(leaves) = n
  BY <1>2, <1>4, <1>5, FetchedTyped
<1> DEFINE g == RecoveredFrontier(tree, samples, leaves)
<1>7. /\ g \in Frontier /\ Coherent(g) /\ g.committed = tree.committed
      /\ g.accumulated = tree.committed \o leaves
  BY <1>1, <1>3, <1>6, RecoveredFrontierCoherent
<1>8. Len(g.accumulated) = first + n /\ Len(g.accumulated) <= MaxIndex + 1
  <2>1. Len(g.accumulated) = first + n
    BY <1>2, <1>6, <1>7, PrefixConcat
  <2> QED BY <1>5, <2>1
<1> DEFINE r == rec.result
<1>9. r \in Evaluate(g, samples) /\ rec.leaves = leaves
  BY <1>4
<1> HIDE DEF g, r
<1>10. /\ r.frontier \in Frontier
       /\ Coherent(r.frontier)
       /\ r.frontier.accumulated = g.accumulated
       /\ IsPrefix(tree.committed, r.frontier.committed)
       /\ r.outcome # "Verified" => r.frontier.committed = tree.committed
       /\ r.outcome = "Verified" => /\ r.frontier.committed \in Checkpoint
                                    /\ Backed(r.frontier.committed, samples)
  BY <1>3, <1>7, <1>9, EvaluateSound DEF Backed
<1>11. r.frontier \in StorableFrontier
  BY <1>8, <1>10, BoundedFrontier
<1>12. r.frontier.committed \in StorableTree
  BY <1>11 DEF StorableFrontier
<1>13. Advances(r) => Len(r.frontier.committed) > Len(tree.committed)
  BY <1>2, <1>10, <1>12, ExtensionGrows, StorableTreeLength DEF Advances
<1>14. Advances(r) => r.frontier.committed \in Storable
  BY <1>10, <1>12, StorableTreeLength DEF Advances, Checkpoint, None
<1>15. Trusted(r, samples)
  BY <1>10, <1>11, <1>13, <1>14 DEF Trusted, Advances
<1>16. Len(r.frontier.committed) <= first + n
  <2>1. IsPrefix(r.frontier.committed, g.accumulated)
    BY <1>10 DEF Coherent
  <2> QED BY <1>7, <1>8, <1>10, <2>1, PrefixPointwise DEF Frontier
<1> QED BY <1>6, <1>9, <1>15, <1>16 DEF r

-----------------------------------------------------------------------------
(* The inductive invariant.                                                *)

\* The state of the history worker and of its channel.
trailVars == <<watchVars, historyVars>>

\* A step that keeps the committed tree and the history worker, starts no job
\* and signs only what some job holds.
LEMMA QuietStep ==
    ASSUME IInv, TypeOK', Coherent(tree'), tree'.committed = tree.committed,
           UNCHANGED <<mode, trailVars>>,
           mode = "running" \/ UNCHANGED pc,
           pc' = "publish" => pc = "publish",
           \A v \in Worker : InJob(v)' \subseteq InJob(v),
           signed' \subseteq signed \cup UNION {InJob(v) : v \in Worker}
    PROVE  IInv'
<1> USE DEF trailVars, watchVars, historyVars
<1>1. WorkInHistory'
  BY DEF IInv, WorkInHistory
<1>2. SignedInHistory'
  BY DEF IInv, WorkInHistory, SignedInHistory
<1>3. HistoryTrails' /\ TargetAhead'
  BY DEF IInv, HistoryTrails, TargetAhead
<1>4. Dormant'
  BY DEF IInv, Dormant
<1> QED BY <1>1, <1>2, <1>3, <1>4 DEF IInv

\* Publishing a longer head: earlier work stays on the committed history.
LEMMA PublishStep ==
    ASSUME IInv, mode = "running", NEW f \in StorableFrontier, Coherent(f),
           f.committed \in Storable, IsPrefix(tree.committed, f.committed),
           Len(f.committed) > Len(tree.committed), Publish(f),
           db' \in [IndexSet -> Leaf \cup {NoLeaf}], fresh' \in BOOLEAN,
           UNCHANGED <<snapshot, processVars, received, pending, trailVars>>
    PROVE  IInv'
<1> USE DEF trailVars, watchVars, historyVars, processVars
<1>1. /\ tree' = f /\ pc' = "publish" /\ samples' = EmptyBallot
      /\ StartJob("live", {f.committed}, TRUE)
      /\ UNCHANGED <<stored, latestIndex, reorgFlag, tombstone, wire, outage, halted,
                     guard, signed>>
  BY DEF Publish, storageVars
<1>2. PubTypeOK /\ "live" \in Worker
  BY WorkerAssumption DEF IInv, TypeOK
<1>3. /\ queue' \in [Worker -> SUBSET Storable]
      /\ chunk' \in [Worker -> SUBSET Task]
      /\ publishLatest' \in [Worker -> BOOLEAN]
      /\ InJob("live")' = {f.committed}
      /\ \A v \in Worker \ {"live"} : InJob(v)' = InJob(v)
  BY <1>1, <1>2, StartJobSafe
<1>4. PubTypeOK'
  BY <1>1, <1>2, <1>3 DEF PubTypeOK
<1>5. EmptyBallot \in [Endpoint -> StorableTree]
  BY DEF EmptyBallot, StorableTree
<1>6. TypeOK'
  BY <1>1, <1>4, <1>5 DEF IInv, TypeOK, LivePc
<1>7. tree.committed \in Tree /\ f.committed \in Tree
  BY StorableTreeLength DEF IInv, TypeOK, StorableFrontier
<1>8. \A c \in Tree : IsPrefix(c, tree.committed) => IsPrefix(c, f.committed)
  BY <1>7, PrefixOrder
<1>9. /\ \A v \in Worker : InJob(v) \subseteq Tree
      /\ watch \in Tree /\ htarget \in Tree /\ signed \subseteq Tree
  <2>1. Storable \subseteq Tree /\ StorableTree \subseteq Tree
    BY StorableTreeLength
  <2> QED BY <2>1 DEF IInv, TypeOK, PubTypeOK, InJob, Task
<1>10. WorkInHistory'
  <2>1. IsPrefix(f.committed, f.committed)
    BY <1>7, PrefixOrder
  <2>2. \A v \in Worker : \A c \in InJob(v)' : IsPrefix(c, f.committed)
    BY <1>3, <1>8, <1>9, <2>1 DEF IInv, WorkInHistory
  <2> QED BY <1>1, <1>8, <1>9, <2>2 DEF IInv, WorkInHistory
<1>11. SignedInHistory'
  BY <1>1, <1>8, <1>9 DEF IInv, SignedInHistory
<1>12. HistoryTrails' /\ TargetAhead'
  <2>1. /\ Len(watch) <= Len(tree.committed) /\ Len(htree) <= Len(tree.committed)
        /\ Len(tree.committed) \in Nat /\ Len(f.committed) \in Nat
        /\ Len(htree) \in Nat /\ Len(watch) \in Nat
    BY <1>7, <1>9, PrefixPointwise, StorableTreeLength, TreeLength
       DEF IInv, TypeOK, WorkInHistory, HistoryTrails
  <2>2. /\ Len(htree) < Len(f.committed)
        /\ Len(watch) < Len(f.committed)
        /\ Len(htree) <= Len(f.committed)
    BY <2>1
  <2> QED BY <1>1, <2>2 DEF IInv, HistoryTrails, TargetAhead
<1> QED BY <1>1, <1>6, <1>10, <1>11, <1>12 DEF IInv, Dormant

\* A merged vote is within the indices.
LEMMA MergedTyped ==
    ASSUME IInv, NEW e \in Endpoint, NEW c \in Reports \cup {None}
    PROVE  Merged(e, c) \in StorableTree
BY ReportsTyped DEF Merged, StorableTree, IInv, TypeOK

\* The halt of the live submitter keeps the invariant.
LEMMA LiveHaltInductive ==
    ASSUME IInv, mode = "running", LiveHalt,
           UNCHANGED <<db, snapshot, processVars, received, pending, trailVars>>
    PROVE  IInv'
<1>1. TypeOK'
  BY DEF IInv, TypeOK, PubTypeOK, LiveHalt, Halt, GuardStage, LivePc, storageVars, jobVars,
         processVars, trailVars, watchVars, historyVars
<1>2. \A v \in Worker : InJob(v)' = InJob(v)
  BY DEF LiveHalt, jobVars, InJob
<1> QED BY <1>1, <1>2, QuietStep DEF IInv, LiveHalt, processVars

\* A verification step that does not advance the committed tree.
LEMMA NoAdvance ==
    ASSUME IInv, mode = "running", NEW r, NEW bal, Trusted(r, bal), ~Advances(r),
           tree' = r.frontier, pc' \in LivePc \ {"publish"}, fresh' \in BOOLEAN,
           samples' \in [Endpoint -> StorableTree],
           UNCHANGED <<pubVars, db, snapshot, processVars, received, pending, trailVars>>
    PROVE  IInv'
<1>1. TypeOK'
  BY DEF Trusted, IInv, TypeOK, PubTypeOK, pubVars, storageVars, jobVars,
         processVars, trailVars, watchVars, historyVars
<1>2. \A v \in Worker : InJob(v)' = InJob(v)
  BY DEF pubVars, jobVars, InJob
<1> QED BY <1>1, <1>2, QuietStep DEF Trusted, IInv, pubVars, processVars

\* Every step of the live submitter keeps the invariant.
LEMMA LiveInductive ==
    ASSUME IInv, mode = "running", LiveStep
    PROVE  IInv'
<1> USE DEF trailVars
<1>0. EmptyBallot \in [Endpoint -> StorableTree] /\ Coherent(tree)
  BY DEF EmptyBallot, StorableTree, IInv
<1>1. ASSUME UNCHANGED pubVars
      PROVE  (\A v \in Worker : InJob(v)' = InJob(v)) /\ signed' = signed
  BY <1>1 DEF pubVars, jobVars, InJob
<1>2. CASE BeginSampling
  <2>1. TypeOK'
    BY <1>0, <1>2 DEF BeginSampling, IInv, TypeOK, PubTypeOK, LivePc, pubVars, storageVars,
       jobVars, processVars, watchVars, historyVars
  <2> QED BY <1>0, <1>1, <1>2, <2>1, QuietStep DEF BeginSampling, AtTop, processVars
<1>3. CASE ReuseSamples
  <2>1. TypeOK'
    BY <1>0, <1>3 DEF ReuseSamples, IInv, TypeOK, PubTypeOK, LivePc, pubVars, storageVars,
       jobVars, processVars, watchVars, historyVars
  <2> QED BY <1>0, <1>1, <1>3, <2>1, QuietStep DEF ReuseSamples, AtTop, processVars
<1>4. ASSUME NEW e \in Endpoint, Receive(e) PROVE IInv'
  <2>1. TypeOK'
    BY <1>0, <1>4, MergedTyped DEF Receive, IInv, TypeOK, PubTypeOK, LivePc, pubVars,
       storageVars, jobVars, processVars, watchVars, historyVars
  <2> QED BY <1>0, <1>1, <1>4, <2>1, QuietStep DEF Receive, processVars
<1>5. CASE StreamVerify
  <2>1. received \in [Endpoint -> StorableTree]
    BY DEF IInv, TypeOK
  <2>2. CASE LiveHalt
    BY <1>5, <2>2, LiveHaltInductive DEF StreamVerify
  <2>3. ASSUME NEW r \in VerifyStep(tree, received, db), Advances(r),
               Publish(r.frontier), fresh' = FALSE
        PROVE  IInv'
    <3>1. Trusted(r, received)
      BY <2>1, VerifyTrusted
    <3> QED BY <1>5, <2>3, <3>1, PublishStep DEF StreamVerify, Trusted, IInv, TypeOK
  <2>4. ASSUME NEW r \in VerifyStep(tree, received, db), ~Advances(r),
               tree' = r.frontier, fresh' = (r.outcome = "More"),
               UNCHANGED <<pubVars, pc, samples>>
        PROVE  IInv'
    <3>1. Trusted(r, received)
      BY <2>1, VerifyTrusted
    <3>2. pc' \in LivePc \ {"publish"} /\ samples' \in [Endpoint -> StorableTree]
      BY <1>5, <2>4 DEF StreamVerify, LivePc, IInv, TypeOK
    <3> QED BY <1>5, <2>4, <3>1, <3>2, NoAdvance DEF StreamVerify
  <2> QED BY <1>5, <2>2, <2>3, <2>4 DEF StreamVerify
<1>6. CASE EndStream
  <2>1. TypeOK'
    BY <1>0, <1>6 DEF EndStream, IInv, TypeOK, PubTypeOK, LivePc, pubVars, storageVars,
       jobVars, processVars, watchVars, historyVars
  <2> QED BY <1>0, <1>1, <1>6, <2>1, QuietStep DEF EndStream, processVars
<1>7. CASE BatchVerify
  <2>1. samples \in [Endpoint -> StorableTree]
    BY DEF IInv, TypeOK
  <2>2. CASE LiveHalt
    BY <1>7, <2>2, LiveHaltInductive DEF BatchVerify
  <2>3. ASSUME NEW r \in VerifyStep(tree, samples, db), Advances(r),
               Publish(r.frontier), UNCHANGED fresh
        PROVE  IInv'
    <3>1. Trusted(r, samples)
      BY <2>1, VerifyTrusted
    <3> QED BY <1>7, <2>3, <3>1, PublishStep DEF BatchVerify, Trusted, IInv, TypeOK
  <2>4. ASSUME NEW r \in VerifyStep(tree, samples, db), ~Advances(r),
               tree' = r.frontier, pc' = NextPc(r),
               samples' = IF KeepsSamples(r) THEN samples ELSE EmptyBallot,
               UNCHANGED <<pubVars, fresh>>
        PROVE  IInv'
    <3>1. Trusted(r, samples)
      BY <2>1, VerifyTrusted
    <3>2. pc' \in LivePc \ {"publish"} /\ samples' \in [Endpoint -> StorableTree]
      BY <1>0, <2>1, <2>4 DEF NextPc, LivePc
    <3> QED BY <1>7, <2>4, <3>1, <3>2, NoAdvance DEF BatchVerify, IInv, TypeOK
  <2> QED BY <1>7, <2>2, <2>3, <2>4 DEF BatchVerify
<1>8. ASSUME pc = "recover", NEW rec \in Recoveries, Advances(rec.result),
             NEW m \in 0 .. Len(rec.result.frontier.committed) - Len(tree.committed)
      PROVE  StoreInsertions(Len(tree.committed), SubSeq(rec.leaves, 1, m))
               \in [IndexSet -> Leaf \cup {NoLeaf}]
  <2>1. /\ rec.leaves \in Tree
        /\ Len(rec.result.frontier.committed) <= Len(tree.committed) + Len(rec.leaves)
        /\ rec.result.frontier.committed \in Storable
    BY <1>8, RecoveryTrusted DEF Trusted
  <2>2. /\ Len(tree.committed) \in Nat /\ Len(rec.result.frontier.committed) \in Nat
        /\ Len(rec.leaves) \in Nat
    BY <2>1, StorableTreeLength, TreeLength DEF IInv, TypeOK, StorableFrontier
  <2>3. m \in 0 .. Len(rec.leaves)
    <3> DEFINE grown == Len(rec.result.frontier.committed)
               first == Len(tree.committed)
               got == Len(rec.leaves)
    <3>1. /\ grown \in Nat /\ first \in Nat /\ got \in Nat
          /\ grown <= first + got /\ m \in 0 .. grown - first
      BY <2>1, <2>2
    <3> HIDE DEF grown, first, got
    <3>2. m \in 0 .. got
      BY <3>1
    <3> QED BY <3>2 DEF got
  <2>4. SubSeq(rec.leaves, 1, m) \in Tree
    BY <2>1, <2>3 DEF Tree
  <2> QED BY <2>2, <2>4, StoreInsertionsTyped DEF IInv, TypeOK
<1>9. CASE RecoverBatch
  <2> DEFINE NewHead(rec) == rec.result.frontier.committed
  <2>1. PICK rec \in Recoveries :
          /\ Advances(rec.result)
          /\ db' = StoreInsertions(Len(tree.committed),
                     SubSeq(rec.leaves, 1, Len(NewHead(rec)) - Len(tree.committed)))
          /\ Publish(NewFrontier(NewHead(rec)))
    BY <1>9 DEF RecoverBatch
  <2>2. Trusted(rec.result, samples)
    BY RecoveryTrusted
  <2> DEFINE head == NewHead(rec)
  <2>3. head \in Storable /\ Len(head) > Len(tree.committed) /\ IsPrefix(tree.committed, head)
    BY <2>1, <2>2 DEF Trusted
  <2>4. head \in Tree /\ head \in StorableTree /\ Len(head) \in Nat /\ Len(tree.committed) \in Nat
    BY <2>3, StorableTreeLength, TreeLength DEF IInv, TypeOK, StorableFrontier
  <2>5. NewFrontier(head) \in StorableFrontier /\ Coherent(NewFrontier(head))
    BY <2>4, PrefixOrder DEF NewFrontier, StorableFrontier, Coherent
  <2>6. db' \in [IndexSet -> Leaf \cup {NoLeaf}]
    <3>1. Len(head) - Len(tree.committed) \in 0 .. Len(head) - Len(tree.committed)
      BY <2>3, <2>4
    <3> QED BY <1>8, <1>9, <2>1, <3>1 DEF RecoverBatch
  <2> HIDE DEF head
  <2>7. Publish(NewFrontier(head))
    BY <2>1 DEF head
  <2>8. fresh' \in BOOLEAN
    BY <1>9 DEF RecoverBatch, IInv, TypeOK
  <2> QED BY <1>9, <2>3, <2>5, <2>6, <2>7, <2>8, PublishStep DEF RecoverBatch, NewFrontier
<1>10. CASE RecoveryFails
  <2>1. db' \in [IndexSet -> Leaf \cup {NoLeaf}]
    <3>1. CASE UNCHANGED db
      BY <3>1 DEF IInv, TypeOK
    <3>2. ASSUME NEW rec \in Recoveries, Advances(rec.result),
                 NEW m \in 0 .. Len(rec.result.frontier.committed) - Len(tree.committed) - 1,
                 db' = StoreInsertions(Len(tree.committed), SubSeq(rec.leaves, 1, m))
          PROVE  db' \in [IndexSet -> Leaf \cup {NoLeaf}]
      <4>1. /\ Len(tree.committed) \in Nat
            /\ Len(rec.result.frontier.committed) \in Nat
        BY RecoveryTrusted, StorableTreeLength, TreeLength
           DEF Trusted, IInv, TypeOK, StorableFrontier
      <4>2. m \in 0 .. Len(rec.result.frontier.committed) - Len(tree.committed)
        <5> DEFINE grown == Len(rec.result.frontier.committed)
                   first == Len(tree.committed)
        <5>1. grown \in Nat /\ first \in Nat /\ m \in 0 .. grown - first - 1
          BY <4>1
        <5> HIDE DEF grown, first
        <5>2. m \in 0 .. grown - first
          BY <5>1
        <5> QED BY <5>2 DEF grown, first
      <4> QED BY <1>8, <1>10, <3>2, <4>2 DEF RecoveryFails
    <3> QED BY <1>10, <3>1, <3>2 DEF RecoveryFails
  <2>2. TypeOK'
    BY <1>0, <1>10, <2>1 DEF RecoveryFails, IInv, TypeOK, PubTypeOK, LivePc, pubVars,
       storageVars, jobVars, processVars, watchVars, historyVars
  <2> QED BY <1>0, <1>1, <1>10, <2>2, QuietStep DEF RecoveryFails, processVars
<1>11. CASE NotifyHistory
  <2>1. /\ pc = "publish" /\ watch' = tree.committed /\ changed' = TRUE /\ pc' = "top"
        /\ UNCHANGED <<pubVars, db, snapshot, mode, crashes, past, tree, samples, received,
                       pending, fresh, hpc, htree, hbase, htarget>>
    BY <1>11 DEF NotifyHistory, processVars, historyVars
  <2>2. tree.committed \in StorableTree /\ tree.committed \in Tree
    BY StorableTreeLength DEF IInv, TypeOK, StorableFrontier
  <2>3. TypeOK'
    BY <2>1, <2>2 DEF IInv, TypeOK, PubTypeOK, LivePc, pubVars, storageVars, jobVars
  <2>4. IsPrefix(tree.committed, tree.committed)
    BY <2>2, PrefixOrder
  <2>5. WorkInHistory' /\ SignedInHistory'
    BY <1>1, <2>1, <2>4 DEF IInv, WorkInHistory, SignedInHistory
  <2>6. HistoryTrails' /\ TargetAhead'
    <3>1. /\ Len(htarget) \in Nat /\ Len(watch) \in Nat /\ Len(tree.committed) \in Nat
      BY <2>2, StorableTreeLength, TreeLength DEF IInv, TypeOK
    <3>2. Len(htarget) < Len(tree.committed) /\ Len(htarget) <= Len(tree.committed)
      BY <2>1, <3>1 DEF IInv, HistoryTrails
    <3> QED BY <2>1, <3>2 DEF IInv, HistoryTrails, TargetAhead
  <2> QED BY <2>1, <2>3, <2>5, <2>6 DEF IInv, Dormant
<1> QED BY <1>2, <1>3, <1>4, <1>5, <1>6, <1>7, <1>9, <1>10, <1>11 DEF LiveStep

\* The history worker takes a replayed tree to publication only when it is the
\* target, so its jobs lie on the committed history.
LEMMA PublishHistoryInductive ==
    ASSUME IInv, mode = "running", hpc = "replay", PublishHistory(htarget),
           db' \in [IndexSet -> Leaf \cup {NoLeaf}]
    PROVE  IInv'
<1> USE DEF processVars, loopVars, watchVars
<1> DEFINE older == {CheckpointAt(htarget, i) : i \in hbase .. Index(htarget) - 1}
<1>1. /\ htarget \in StorableTree /\ htarget \in Tree /\ hbase \in Nat
      /\ Len(htarget) \in Nat /\ Len(htarget) <= MaxIndex + 1
      /\ tree.committed \in Tree
  BY StorableTreeLength, TreeLength DEF IInv, TypeOK, StorableFrontier
<1>2. \A i \in hbase .. Index(htarget) - 1 :
        /\ CheckpointAt(htarget, i) \in Storable
        /\ IsPrefix(CheckpointAt(htarget, i), tree.committed)
  <2> SUFFICES ASSUME NEW i \in hbase .. Index(htarget) - 1
               PROVE  /\ CheckpointAt(htarget, i) \in Storable
                      /\ IsPrefix(CheckpointAt(htarget, i), tree.committed)
    OBVIOUS
  <2>1. i \in 0 .. Len(htarget) - 1 /\ i + 1 <= MaxIndex + 1
    BY <1>1, MaxIndexAssumption DEF Index
  <2> DEFINE c == CheckpointAt(htarget, i)
  <2>2. c \in Checkpoint /\ Len(c) = i + 1 /\ IsPrefix(c, htarget)
    BY <1>1, <2>1, PrefixCheckpointAt
  <2> HIDE DEF c
  <2>3. c \in Tree /\ c # None
    BY <2>2 DEF Checkpoint, None
  <2>4. c \in Storable
    BY <2>1, <2>2, <2>3, StorableTreeLength
  <2>5. IsPrefix(c, tree.committed)
    BY <1>1, <2>2, <2>3, PrefixOrder DEF IInv, WorkInHistory
  <2> QED BY <2>4, <2>5 DEF c
<1>3. older \in SUBSET Storable /\ \A c \in older : IsPrefix(c, tree.committed)
  BY <1>2
<1>4. /\ htree' = htarget /\ hpc' = "submit" /\ StartJob("history", older, FALSE)
      /\ UNCHANGED <<stored, latestIndex, reorgFlag, tombstone, wire, outage, halted, guard,
                     signed, snapshot, mode, crashes, past, pc, tree, samples, received,
                     pending, fresh, watch, changed, hbase, htarget>>
  BY DEF PublishHistory, storageVars
<1> HIDE DEF older
<1>5. PubTypeOK /\ "history" \in Worker
  BY WorkerAssumption DEF IInv, TypeOK
<1>6. /\ queue' \in [Worker -> SUBSET Storable]
      /\ chunk' \in [Worker -> SUBSET Task]
      /\ publishLatest' \in [Worker -> BOOLEAN]
      /\ InJob("history")' = older
      /\ \A v \in Worker \ {"history"} : InJob(v)' = InJob(v)
  BY <1>3, <1>4, <1>5, StartJobSafe
<1>7. PubTypeOK'
  BY <1>4, <1>5, <1>6 DEF PubTypeOK
<1>8. TypeOK'
  BY <1>1, <1>4, <1>7 DEF IInv, TypeOK, HistoryPc
<1>9. WorkInHistory' /\ SignedInHistory'
  BY <1>3, <1>4, <1>6 DEF IInv, WorkInHistory, SignedInHistory
<1>10. HistoryTrails' /\ TargetAhead'
  <2>1. /\ Len(watch) <= Len(tree.committed)
        /\ Len(watch) \in Nat /\ Len(tree.committed) \in Nat
        /\ Len(htarget) <= Len(watch)
    BY <1>1, PrefixPointwise, StorableTreeLength, TreeLength
       DEF IInv, TypeOK, WorkInHistory, HistoryTrails
  <2> QED BY <1>1, <1>4, <2>1 DEF IInv, HistoryTrails, TargetAhead
<1> QED BY <1>4, <1>8, <1>9, <1>10 DEF IInv, Dormant

\* Every step of the history worker keeps the invariant.
LEMMA HistoryInductive ==
    ASSUME IInv, mode = "running", HistoryStep
    PROVE  IInv'
<1> USE DEF processVars, loopVars
<1>0. /\ Len(htree) \in 0 .. MaxIndex + 1 /\ Len(htarget) \in 0 .. MaxIndex + 1
      /\ Len(watch) \in Nat /\ Len(tree.committed) \in Nat /\ hbase \in Nat
      /\ Len(htarget) <= Len(watch) /\ Len(watch) <= Len(tree.committed)
      /\ htree \in Tree /\ htarget \in Tree
  BY PrefixPointwise, StorableTreeLength, TreeLength
     DEF IInv, TypeOK, StorableFrontier, WorkInHistory, HistoryTrails
<1>1. ASSUME UNCHANGED pubVars
      PROVE  (\A v \in Worker : InJob(v)' = InJob(v)) /\ signed' = signed
  BY <1>1 DEF pubVars, jobVars, InJob
<1>2. CASE TakeTarget
  <2>1. TypeOK'
    BY <1>0, <1>2 DEF TakeTarget, IInv, TypeOK, PubTypeOK, HistoryPc, pubVars, storageVars,
       jobVars
  <2>2. WorkInHistory' /\ SignedInHistory'
    BY <1>1, <1>2 DEF TakeTarget, IInv, WorkInHistory, SignedInHistory
  <2>3. HistoryTrails' /\ TargetAhead'
    <3>1. /\ changed /\ changed' = FALSE /\ htarget' = watch /\ hbase' = Len(htree)
          /\ UNCHANGED <<tree, pc, watch, htree>>
      BY <1>2 DEF TakeTarget
    <3>2. Len(htree) < Len(watch)
      BY <3>1 DEF IInv, HistoryTrails
    <3> QED BY <1>0, <3>1, <3>2 DEF IInv, HistoryTrails, TargetAhead
  <2> QED BY <1>2, <2>1, <2>2, <2>3 DEF TakeTarget, IInv, Dormant
<1>3. CASE HistoryIngest
  <2>1. /\ Len(htree) \in IndexSet /\ Len(htree) + 1 <= Len(htarget)
        /\ Len(htarget) <= MaxIndex + 1 /\ db[Len(htree)] \in Leaf
    BY <1>0, <1>3, MaxIndexAssumption DEF HistoryIngest, Index, IndexSet, IInv, TypeOK
  <2> DEFINE grown == Append(htree, db[Len(htree)])
  <2>2. grown \in Tree /\ Len(grown) = Len(htree) + 1
    BY <1>0, <2>1, PrefixAppend
  <2>3. htree' = grown
    BY <1>3 DEF HistoryIngest
  <2> HIDE DEF grown
  <2>4. grown \in StorableTree
    <3>1. Len(grown) <= MaxIndex + 1
      BY <1>0, <2>1, <2>2, MaxIndexAssumption
    <3> QED BY <2>2, <3>1, StorableTreeLength
  <2>5. TypeOK'
    BY <1>3, <2>3, <2>4 DEF HistoryIngest, IInv, TypeOK, PubTypeOK, pubVars, storageVars,
       jobVars, watchVars
  <2>6. WorkInHistory' /\ SignedInHistory'
    BY <1>1, <1>3 DEF HistoryIngest, IInv, WorkInHistory, SignedInHistory, watchVars
  <2>7. HistoryTrails' /\ TargetAhead'
    <3>1. Len(grown) <= Len(htarget) /\ Len(grown) \in Nat /\ Len(grown) = Len(htree) + 1
      BY <1>0, <2>1, <2>2
    <3>2. UNCHANGED <<tree, pc, watch, changed, htarget, hbase, hpc>>
      BY <1>3 DEF HistoryIngest, watchVars
    <3> QED BY <1>0, <2>3, <3>1, <3>2 DEF IInv, HistoryTrails, TargetAhead
  <2> QED BY <1>3, <2>5, <2>6, <2>7 DEF HistoryIngest, IInv, Dormant
<1>4. CASE HistoryVerified
  BY <1>4, PublishHistoryInductive DEF HistoryVerified, Replayed, IInv, TypeOK
<1>5. CASE HistoryHalt /\ hpc = "replay"
  <2>1. TypeOK'
    BY <1>5 DEF HistoryHalt, Halt, IInv, TypeOK, PubTypeOK, HistoryPc, GuardStage,
       storageVars, jobVars, watchVars
  <2>2. (\A v \in Worker : InJob(v)' = InJob(v)) /\ signed' = signed
    BY <1>5 DEF HistoryHalt, jobVars, InJob
  <2>3. /\ UNCHANGED <<mode, tree, pc, watch, changed, htree, hbase, htarget>>
        /\ hpc' = "halt"
    BY <1>5 DEF HistoryHalt, watchVars
  <2>4. WorkInHistory' /\ SignedInHistory'
    BY <2>2, <2>3 DEF IInv, WorkInHistory, SignedInHistory
  <2>5. HistoryTrails' /\ TargetAhead'
    BY <2>3 DEF IInv, HistoryTrails, TargetAhead
  <2> QED BY <2>1, <2>3, <2>4, <2>5 DEF IInv, Dormant
<1>6. CASE HistoryMismatch
  <2>1. hpc = "replay"
    BY <1>6 DEF HistoryMismatch, Replayed
  <2>2. CASE HistoryHalt
    BY <1>5, <2>1, <2>2
  <2>3. ASSUME NEW leaves \in Fetched(hbase, Len(htarget) - hbase),
               db' = StoreInsertions(hbase, leaves), PublishHistory(htarget)
        PROVE  IInv'
    <3>1. Len(htarget) - hbase \in Nat
      BY <1>0, <2>1 DEF IInv, TargetAhead
    <3>2. leaves \in Tree
      BY <1>0, <3>1, FetchedTyped
    <3>3. db' \in [IndexSet -> Leaf \cup {NoLeaf}]
      BY <1>0, <2>3, <3>2, StoreInsertionsTyped DEF IInv, TypeOK
    <3> QED BY <2>1, <2>3, <3>3, PublishHistoryInductive
  <2> QED BY <1>6, <2>2, <2>3 DEF HistoryMismatch
<1>7. CASE HistoryPublished \/ PersistSnapshot \/ HistoryPanic
  <2>1. /\ UNCHANGED <<pubVars, mode, crashes, past, db, pc, tree, samples, received,
                       pending, fresh, watch, changed, htree, hbase, htarget>>
        /\ hpc' \in {"snapshot", "wait", "panicked"} /\ snapshot' \in {snapshot, htree}
    BY <1>7 DEF HistoryPublished, PersistSnapshot, HistoryPanic, watchVars
  <2>2. TypeOK'
    BY <2>1 DEF IInv, TypeOK, PubTypeOK, HistoryPc, pubVars, storageVars, jobVars
  <2>3. WorkInHistory' /\ SignedInHistory'
    BY <1>1, <2>1 DEF IInv, WorkInHistory, SignedInHistory
  <2>4. HistoryTrails' /\ TargetAhead'
    BY <2>1 DEF IInv, HistoryTrails, TargetAhead
  <2> QED BY <2>1, <2>2, <2>3, <2>4 DEF IInv, Dormant
<1> QED BY <1>2, <1>3, <1>4, <1>6, <1>7 DEF HistoryStep

\* Indexing touches the database only.
LEMMA IndexInductive ==
    ASSUME IInv, NEW i \in IndexSet, IndexRpc(i) \/ IndexStream(i)
    PROVE  IInv'
<1>1. /\ db' \in [IndexSet -> Leaf \cup {NoLeaf}]
      /\ UNCHANGED <<pubVars, snapshot, processVars, loopVars, watchVars, historyVars>>
  <2>1. LeavesAt(i) \subseteq Leaf
    BY ReportsTyped, MaxIndexAssumption DEF IndexSet
  <2> QED BY <2>1 DEF IndexRpc, IndexStream, IInv, TypeOK
<1>2. TypeOK'
  BY <1>1 DEF IInv, TypeOK, PubTypeOK, pubVars, storageVars, jobVars, processVars, loopVars,
     watchVars, historyVars
<1>3. (\A v \in Worker : InJob(v)' = InJob(v)) /\ signed' = signed
  BY <1>1 DEF pubVars, jobVars, InJob
<1> QED BY <1>1, <1>2, <1>3, QuietStep DEF IInv, trailVars, processVars, loopVars

\* Publication and storage steps keep the invariant.
LEMMA PublicationInductive ==
    ASSUME IInv,
           \/ PublicationStep
           \/ OutageEnds \/ \E c \in wire : WriteCheckpoint(c),
           UNCHANGED <<db, snapshot, processVars, loopVars, watchVars, historyVars>>
    PROVE  IInv'
<1>1. PubTypeOK
  BY DEF IInv, TypeOK
<1>2. /\ PubTypeOK'
      /\ \A v \in Worker : InJob(v)' \subseteq InJob(v)
      /\ signed' \subseteq signed \cup UNION {InJob(v) : v \in Worker}
  BY <1>1, PublicationStepSafe, StorageStepSafe
<1>3. TypeOK'
  BY <1>2 DEF IInv, TypeOK, processVars, loopVars, watchVars, historyVars
<1> QED BY <1>2, <1>3, QuietStep DEF IInv, trailVars, processVars, loopVars

\* A frontier that starts at a storable tree is coherent.
LEMMA NewFrontierCoherent ==
    ASSUME NEW t \in StorableTree
    PROVE  /\ NewFrontier(t) \in StorableFrontier
           /\ Coherent(NewFrontier(t))
           /\ NewFrontier(t).committed = t
<1>1. t \in Tree
  BY StorableTreeLength
<1> QED BY <1>1, PrefixOrder DEF NewFrontier, StorableFrontier, Coherent

\* The end of a process leaves no work behind, whatever it was doing.
LEMMA StopInductive ==
    ASSUME IInv, Stop, mode' \in {"crashed", "exited"}, crashes' \in 0 .. MaxCrashes,
           wire' \in SUBSET Storable
    PROVE  IInv'
<1>1. << >> \in StorableTree /\ EmptyBallot \in [Endpoint -> StorableTree]
  BY DEF EmptyBallot, StorableTree, None
<1>2. /\ NewFrontier(<< >>) \in StorableFrontier /\ Coherent(NewFrontier(<< >>))
      /\ NewFrontier(<< >>).committed = << >>
  BY <1>1, NewFrontierCoherent
<1>3. PubTypeOK'
  BY DEF IInv, TypeOK, Stop, VolatileReset, PubTypeOK, GuardStage, storageVars
<1>4. TypeOK'
  <2>1. None \in StorableTree /\ 0 \in 0 .. MaxIndex + 1
    BY MaxIndexAssumption DEF StorableTree
  <2>2. /\ past' \in SUBSET Storable
        /\ db' \in [IndexSet -> Leaf \cup {NoLeaf}] /\ snapshot' \in StorableTree
    BY DEF IInv, TypeOK, PubTypeOK, Stop
  <2> QED BY <1>1, <1>2, <1>3, <2>1, <2>2 DEF TypeOK, Stop, Start, LoopReset, LivePc,
       HistoryPc
<1>5. \A v \in Worker : InJob(v)' = {}
  BY DEF Stop, VolatileReset, InJob
<1>6. /\ tree' = NewFrontier(<< >>) /\ watch' = << >> /\ htarget' = << >> /\ signed' = {}
      /\ htree' = << >> /\ changed' = FALSE /\ pc' = "top" /\ hpc' = "wait"
  BY DEF Stop, VolatileReset, LoopReset, Start, None
<1>7. IsPrefix(<< >>, << >>)
  BY TreeLength, PrefixOrder
<1>8. WorkInHistory' /\ SignedInHistory'
  BY <1>2, <1>5, <1>6, <1>7 DEF WorkInHistory, SignedInHistory
<1>9. HistoryTrails' /\ TargetAhead'
  BY <1>2, <1>6 DEF HistoryTrails, TargetAhead
<1>10. Dormant'
  BY <1>5, <1>6 DEF Dormant, None
<1> QED BY <1>2, <1>4, <1>6, <1>8, <1>9, <1>10 DEF IInv

\* A restart begins at nothing or at the restored snapshot.
LEMMA RestartInductive ==
    ASSUME IInv, Restart
    PROVE  IInv'
<1>1. PICK t \in RestoredTrees : Start(t)
  BY DEF Restart
<1>2. t \in StorableTree
  BY DEF RestoredTrees, IInv, TypeOK, StorableTree, None
<1>3. /\ NewFrontier(t) \in StorableFrontier /\ Coherent(NewFrontier(t))
      /\ NewFrontier(t).committed = t
  BY <1>2, NewFrontierCoherent
<1>4. /\ mode # "running" /\ mode' = "running"
      /\ pc' = "top" /\ tree' = NewFrontier(t) /\ htree' = t
      /\ UNCHANGED <<pubVars, db, snapshot, crashes, past, samples, received, pending,
                     fresh, watch, changed, hpc, hbase, htarget>>
  BY <1>1 DEF Restart, Start, watchVars
<1>5. TypeOK'
  BY <1>2, <1>3, <1>4 DEF IInv, TypeOK, PubTypeOK, pubVars, storageVars, jobVars, LivePc
<1>6. /\ \A v \in Worker : InJob(v)' = {}
      /\ signed' = {} /\ watch = << >> /\ htarget = << >> /\ ~changed /\ hpc = "wait"
  BY <1>4 DEF IInv, Dormant, InJob, pubVars, jobVars, None
<1>7. IsPrefix(<< >>, t) /\ Len(t) \in Nat
  <2>1. t \in Tree /\ << >> \in Tree /\ Len(<< >>) = 0 /\ Len(t) \in Nat
    BY <1>2, StorableTreeLength, TreeLength
  <2> QED BY <2>1, PrefixPointwise
<1>8. WorkInHistory' /\ SignedInHistory'
  BY <1>3, <1>4, <1>6, <1>7 DEF WorkInHistory, SignedInHistory
<1>9. HistoryTrails' /\ TargetAhead'
  BY <1>3, <1>4, <1>6, <1>7 DEF HistoryTrails, TargetAhead
<1> QED BY <1>3, <1>4, <1>5, <1>8, <1>9 DEF IInv, Dormant

\* The invariant holds initially.
LEMMA InitInductive == Init => IInv
<1> SUFFICES ASSUME Init PROVE IInv
  OBVIOUS
<1>1. << >> \in StorableTree /\ EmptyBallot \in [Endpoint -> StorableTree]
  BY DEF EmptyBallot, StorableTree, None
<1>2. /\ NewFrontier(<< >>) \in StorableFrontier /\ Coherent(NewFrontier(<< >>))
      /\ NewFrontier(<< >>).committed = << >>
  BY <1>1, NewFrontierCoherent
<1>3. PubTypeOK
  BY <1>1 DEF Init, PubInit, VolatileInit, PubTypeOK, GuardStage, StorableTree, None
<1>4. TypeOK
  <2>1. /\ None \in StorableTree
        /\ 0 \in 0 .. MaxIndex + 1 /\ 0 \in 0 .. MaxCrashes
    BY MaxIndexAssumption, CrashAssumption DEF StorableTree
  <2> QED BY <1>1, <1>2, <1>3, <2>1 DEF Init, TypeOK, LivePc, HistoryPc
<1>5. \A v \in Worker : InJob(v) = {}
  BY DEF Init, PubInit, VolatileInit, InJob
<1>6. IsPrefix(<< >>, << >>)
  BY TreeLength, PrefixOrder
<1>7. WorkInHistory /\ SignedInHistory
  BY <1>2, <1>5, <1>6 DEF Init, PubInit, VolatileInit, WorkInHistory, SignedInHistory, None
<1>8. HistoryTrails /\ TargetAhead /\ Dormant
  BY <1>2 DEF Init, HistoryTrails, TargetAhead, Dormant, None
<1> QED BY <1>2, <1>4, <1>7, <1>8 DEF IInv, Init

\* Every step keeps the invariant.
LEMMA NextInductive == IInv /\ [Next]_vars => IInv'
<1> SUFFICES ASSUME IInv, [Next]_vars PROVE IInv'
  OBVIOUS
<1>1. CASE mode = "running" /\ LiveStep
  BY <1>1, LiveInductive
<1>2. CASE mode = "running" /\ HistoryStep
  BY <1>2, HistoryInductive
<1>3. CASE \E i \in IndexSet : IndexRpc(i) \/ IndexStream(i)
  BY <1>3, IndexInductive
<1>4. CASE /\ \/ PublicationStep
              \/ OutageEnds \/ \E c \in wire : WriteCheckpoint(c)
           /\ UNCHANGED <<db, snapshot, processVars, loopVars, watchVars, historyVars>>
  BY <1>4, PublicationInductive
<1>5. CASE LiveExit
  <2>1. Stop /\ mode' = "exited" /\ UNCHANGED <<crashes, wire>>
    BY <1>5 DEF LiveExit, Exit
  <2> QED BY <2>1, StopInductive DEF IInv, TypeOK, PubTypeOK
<1>6. CASE Crash
  <2>1. /\ Stop /\ mode' = "crashed" /\ crashes' = crashes + 1 /\ crashes < MaxCrashes
        /\ wire' \in {wire, {}}
    BY <1>6 DEF Crash
  <2>2. crashes' \in 0 .. MaxCrashes
    BY <2>1, CrashAssumption DEF IInv, TypeOK
  <2> QED BY <2>1, <2>2, StopInductive DEF IInv, TypeOK, PubTypeOK
<1>7. CASE Restart
  BY <1>7, RestartInductive
<1>8. CASE UNCHANGED vars
  <2>1. TypeOK'
    BY <1>8 DEF IInv, TypeOK, PubTypeOK, vars, pubVars, storageVars, jobVars, processVars,
       loopVars, watchVars, historyVars
  <2>2. (\A v \in Worker : InJob(v)' = InJob(v)) /\ signed' = signed
    BY <1>8 DEF vars, pubVars, jobVars, InJob
  <2> QED BY <1>8, <2>1, <2>2, QuietStep DEF IInv, trailVars, vars, processVars, loopVars
<1> QED BY <1>1, <1>2, <1>3, <1>4, <1>5, <1>6, <1>7, <1>8 DEF Next

-----------------------------------------------------------------------------
(* The theorems.                                                           *)

\* IInv is an invariant of the validator.
LEMMA Invariance == Spec => []IInv
BY InitInductive, NextInductive, PTL DEF Spec

\* Every variable keeps its type, and no tree the submitters hold outgrows the
\* indices that may be stored.
THEOREM TypeCorrect == Spec => []TypeOK
<1>1. IInv => TypeOK
  BY DEF IInv
<1> QED BY <1>1, Invariance, PTL

\* One process signs only checkpoints of the one history it committed, live and
\* historical submitter, database rewrites and recovery notwithstanding
\* (sign_checkpoint in submit.rs).
THEOREM SigningIsHistorical == Spec => []SignedInHistory
<1>1. IInv => SignedInHistory
  BY DEF IInv
<1> QED BY <1>1, Invariance, PTL

\* The assertion of verified_checkpoints never fires, however the history
\* targets coalesce in the watch channel.
THEOREM TargetAlwaysAhead == Spec => []TargetAhead
<1>1. IInv => TargetAhead
  BY DEF IInv
<1> QED BY <1>1, Invariance, PTL

\* The step form of the threshold: the committed tree moves only forward, and
\* only to a history that a threshold of endpoints reports.
LEMMA CommitStep ==
    ASSUME IInv, [Next]_vars, mode = "running", mode' = "running",
           tree'.committed # tree.committed
    PROVE  IsPrefix(tree.committed, tree'.committed) /\ Backed(tree'.committed, CurrentBallot)
<1>1. CASE StreamVerify
  <2>1. received \in [Endpoint -> StorableTree] /\ CurrentBallot = received
    BY <1>1 DEF IInv, TypeOK, StreamVerify, CurrentBallot
  <2>2. PICK r \in VerifyStep(tree, received, db) : tree' = r.frontier
    BY <1>1 DEF StreamVerify, LiveHalt, Publish
  <2> QED BY <2>1, <2>2, VerifyTrusted DEF Trusted
<1>2. CASE BatchVerify
  <2>1. samples \in [Endpoint -> StorableTree] /\ CurrentBallot = samples
    BY <1>2 DEF IInv, TypeOK, BatchVerify, CurrentBallot
  <2>2. PICK r \in VerifyStep(tree, samples, db) : tree' = r.frontier
    BY <1>2 DEF BatchVerify, LiveHalt, Publish
  <2> QED BY <2>1, <2>2, VerifyTrusted DEF Trusted
<1>3. CASE RecoverBatch
  <2>1. CurrentBallot = samples
    BY <1>3 DEF RecoverBatch, CurrentBallot
  <2>2. PICK rec \in Recoveries : /\ Advances(rec.result)
                                  /\ tree' = NewFrontier(rec.result.frontier.committed)
    BY <1>3 DEF RecoverBatch, Publish
  <2>3. tree'.committed = rec.result.frontier.committed
    BY <2>2 DEF NewFrontier
  <2> QED BY <2>1, <2>2, <2>3, RecoveryTrusted DEF Trusted
<1>4. CASE LiveStep /\ ~StreamVerify /\ ~BatchVerify /\ ~RecoverBatch
  BY <1>4 DEF LiveStep, BeginSampling, ReuseSamples, Receive, EndStream, RecoveryFails,
     NotifyHistory
<1>5. CASE HistoryStep
  BY <1>5 DEF HistoryStep, TakeTarget, HistoryIngest, HistoryVerified, PublishHistory,
     HistoryMismatch, HistoryHalt, HistoryPublished, PersistSnapshot, HistoryPanic, loopVars
<1>6. CASE \E i \in IndexSet : IndexRpc(i) \/ IndexStream(i)
  BY <1>6 DEF IndexRpc, IndexStream, loopVars
<1>7. CASE UNCHANGED loopVars
  BY <1>7 DEF loopVars
<1>8. CASE LiveExit \/ Crash \/ Restart
  BY <1>8 DEF LiveExit, Exit, Crash, Restart
<1>9. CASE UNCHANGED vars
  BY <1>9 DEF vars, loopVars
<1> QED BY <1>1, <1>2, <1>3, <1>4, <1>5, <1>6, <1>7, <1>8, <1>9 DEF Next

\* A process commits only extensions that a threshold of distinct endpoints
\* contains in the histories they report (evaluate_checkpoint_batch and its two
\* callers), for every pool of endpoints and both thresholds.
THEOREM CommitsAreBacked == Spec => CommitNeedsThreshold
<1>1. IInv /\ [Next]_vars =>
        [mode = "running" /\ mode' = "running" /\ tree'.committed # tree.committed
           => /\ IsPrefix(tree.committed, tree'.committed)
              /\ Cardinality({e \in Endpoint :
                      IsPrefix(tree'.committed, CurrentBallot[e])}) >= Required]_vars
  BY CommitStep DEF Backed
<1> QED BY <1>1, Invariance, PTL DEF Spec, CommitNeedsThreshold

\* Stopping the replay early loses no vote (replay_cannot_improve_vote): the
\* signing boundary is the same whichever of the missing roots would match.
THEOREM EarlyStopIsSound == Spec => []EarlyStopSound
<1>1. ASSUME IInv PROVE EarlyStopSound
  <2> DEFINE bal == CurrentBallot
             L == Matching(tree, bal)
             H == L \cup Missing(tree, bal)
  <2> SUFFICES ASSUME ReplayCannotImproveVote(tree, bal), NEW M \in SUBSET Missing(tree, bal)
               PROVE  NthHighest(bal, L \cup M, Required) = NthHighest(bal, L, Required)
    BY DEF EarlyStopSound
  <2>1. bal \in [Endpoint -> StorableTree]
    BY <1>1 DEF IInv, TypeOK, CurrentBallot
  <2>2. H \subseteq Responded(bal) /\ Responded(bal) \subseteq Endpoint
    BY DEF Matching, Missing, Eligible, Responded
  <2>3. \A e \in H : Index(bal[e]) \in 0 .. MaxIndex
    <3>1. \A e \in Responded(bal) : Index(bal[e]) \in Indices(bal)
      BY DEF Indices
    <3>2. \A i \in Indices(bal) : i <= MaxIndex /\ i \in Nat
      BY <2>1, BallotBounds
    <3> QED BY <2>2, <3>1, <3>2, MaxIndexAssumption
  <2>4. Required \in Nat \ {0}
    BY RequiredRange, EndpointAssumption, FS_CardinalityType
  <2>5. /\ Cardinality(L) >= Required
        /\ NthHighest(bal, L, Required) = NthHighest(bal, H, Required)
    BY DEF ReplayCannotImproveVote
  <2>6. L \in SUBSET Endpoint /\ H \in SUBSET Endpoint /\ L \subseteq L \cup M /\ L \cup M \subseteq H
    BY <2>2
  <2> HIDE DEF bal, L, H
  <2> QED BY <2>3, <2>4, <2>5, <2>6, MaxIndexAssumption, BoundaryBetween
<1> QED BY <1>1, Invariance, PTL

-----------------------------------------------------------------------------
(***************************************************************************)
(* What relayers read of a validator in quorum or majority mode: the       *)
(* published checkpoints behave as CheckpointBoard says, the snapshot      *)
(* never runs ahead of them, and the validator stops for good behind both  *)
(* durable guards.  GuardInv needs no assumption; StorageInv assumes that  *)
(* a request does not outlive the process that sent it.                    *)
(***************************************************************************)

-----------------------------------------------------------------------------
(* The inductive invariants.                                               *)

\* A worker that set the halt persists the local file before the remote status
\* and both before it panics; past either, a running process is halted.
GuardInv ==
    /\ \A w \in Worker : /\ guard[w] # "none" => halted
                         /\ guard[w] \in {"remote", "panic"} => tombstone
                         /\ guard[w] = "panic" => reorgFlag
    /\ hpc = "panicked" => tombstone /\ reorgFlag
    /\ mode = "running" /\ (tombstone \/ reorgFlag) => halted
    /\ ExitGuarded

\* Only reported checkpoints are counted, committed, in flight and stored.
ReportedOnly ==
    /\ tree.committed \in Reports \cup {None}
    /\ samples \in [Endpoint -> Reports \cup {None}]
    /\ received \in [Endpoint -> Reports \cup {None}]
    /\ wire \subseteq Reports
    /\ \A i \in IndexSet : stored[i] # None => stored[i] \in Reports /\ Index(stored[i]) = i

\* Requests in flight are on the history of the process that sent them, and
\* die with a process that crashes.
WireInHistory ==
    /\ mode = "running" => \A c \in wire : IsPrefix(c, tree.committed)
    /\ mode = "crashed" => wire = {}

\* One task at a time may move the latest index, and only up.
SoleAnnouncer ==
    /\ ~publishLatest["history"]
    /\ \A t \in chunk["history"] : ~t.publish
    /\ \A c, d \in queue["live"] : c = d
    /\ \A t, u \in chunk["live"] : t = u
    /\ \A w \in Worker : \A t \in chunk[w] :
         /\ t.stage \in {"latest", "latestWrite"} => t.publish
         /\ t.stage = "latestWrite" => Index(t.cp) > latestIndex

\* The snapshot and the worker's tree are published up to where it replays; its
\* target and the channel's are; its job holds the rest.
CoverageInv ==
    /\ Covered(snapshot, Len(snapshot))
    /\ hpc \in {"wait", "snapshot"} => Covered(htree, Len(htree))
    /\ hpc \in {"replay", "submit"} => Covered(htree, hbase)
    /\ hpc = "submit" =>
         /\ htree = htarget
         /\ hbase <= Len(htree)
         /\ \A i \in hbase .. Index(htarget) - 1 :
              CheckpointAt(htree, i) \in InJob("history") \/ stored[i] = CheckpointAt(htree, i)
    /\ watch # None => Held(watch)
    /\ htarget # None => Held(htarget)
    /\ pc = "publish" => tree.committed \in InJob("live") \/ Held(tree.committed)

StorageInv ==
    /\ ReportedOnly
    /\ WireInHistory
    /\ Consistent
    /\ SubmissionsFit
    /\ SoleAnnouncer
    /\ CoverageInv

-----------------------------------------------------------------------------
(* The guards.                                                             *)

\* The steps that leave publication alone.
LEMMA OutsidePublication ==
    ASSUME [Next]_vars
    PROVE  \/ UNCHANGED pubVars
           \/ \E f : Publish(f) /\ UNCHANGED <<mode, hpc>>
           \/ LiveHalt /\ UNCHANGED <<mode, hpc>>
           \/ \E t : PublishHistory(t)
           \/ HistoryHalt
           \/ PublicationStep /\ mode = "running" /\ UNCHANGED <<mode, hpc>>
           \/ OutageEnds /\ UNCHANGED <<mode, hpc>>
           \/ (\E c \in wire : WriteCheckpoint(c)) /\ UNCHANGED <<mode, hpc>>
           \/ LiveExit /\ mode = "running"
           \/ Crash
<1> USE DEF processVars, historyVars
<1>1. CASE mode = "running" /\ LiveStep
  <2>1. CASE BeginSampling \/ ReuseSamples \/ (\E e \in Endpoint : Receive(e)) \/ EndStream
             \/ RecoveryFails \/ NotifyHistory
    BY <2>1 DEF BeginSampling, ReuseSamples, Receive, EndStream, RecoveryFails, NotifyHistory
  <2>2. CASE StreamVerify
    BY <2>2 DEF StreamVerify
  <2>3. CASE BatchVerify
    BY <2>3 DEF BatchVerify
  <2>4. CASE RecoverBatch
    BY <2>4 DEF RecoverBatch
  <2> QED BY <1>1, <2>1, <2>2, <2>3, <2>4 DEF LiveStep
<1>2. CASE mode = "running" /\ HistoryStep
  BY <1>2 DEF HistoryStep, TakeTarget, HistoryIngest, HistoryVerified, HistoryMismatch,
     HistoryPublished, PersistSnapshot, HistoryPanic
<1>3. CASE \E i \in IndexSet : IndexRpc(i) \/ IndexStream(i)
  BY <1>3 DEF IndexRpc, IndexStream
<1>4. CASE Restart
  BY <1>4 DEF Restart
<1>5. CASE UNCHANGED vars
  BY <1>5 DEF vars
<1> QED BY <1>1, <1>2, <1>3, <1>4, <1>5 DEF Next

\* The order of the two guards and of the panic survives every step.
LEMMA GuardInductive ==
    ASSUME IInv, GuardInv, [Next]_vars
    PROVE  GuardInv'
<1>0. /\ guard \in [Worker -> GuardStage] /\ "live" \in Worker /\ "history" \in Worker
      /\ halted \in BOOLEAN /\ tombstone \in BOOLEAN /\ reorgFlag \in BOOLEAN
  BY WorkerAssumption DEF IInv, TypeOK, PubTypeOK
<1> USE DEF GuardInv, ExitGuarded
<1>1. CASE UNCHANGED <<guard, halted, tombstone, reorgFlag, mode, hpc>>
  BY <1>1
<1>2. ASSUME NEW w \in Worker, Halt(w), UNCHANGED <<tombstone, reorgFlag, mode>>,
             hpc' \in {hpc, "halt"}
      PROVE  GuardInv'
  BY <1>0, <1>2 DEF Halt, GuardStage
<1>3. CASE mode = "running" /\ LiveStep
  <2>1. CASE UNCHANGED <<guard, halted, tombstone, reorgFlag, mode, hpc>>
    BY <1>1, <2>1
  <2>2. CASE LiveHalt /\ UNCHANGED <<mode, hpc>>
    BY <1>0, <1>2, <2>2 DEF LiveHalt, storageVars
  <2> USE DEF processVars, historyVars, pubVars, storageVars
  <2>3. CASE StreamVerify
    BY <2>1, <2>2, <2>3 DEF StreamVerify, Publish
  <2>4. CASE BatchVerify
    BY <2>1, <2>2, <2>4 DEF BatchVerify, Publish
  <2>5. CASE RecoverBatch
    BY <2>1, <2>5 DEF RecoverBatch, Publish
  <2>6. CASE BeginSampling \/ ReuseSamples \/ (\E e \in Endpoint : Receive(e)) \/ EndStream
             \/ RecoveryFails \/ NotifyHistory
    BY <2>1, <2>6 DEF BeginSampling, ReuseSamples, Receive, EndStream, RecoveryFails,
       NotifyHistory
  <2> QED BY <1>3, <2>3, <2>4, <2>5, <2>6 DEF LiveStep
<1>4. CASE mode = "running" /\ HistoryStep
  <2> USE DEF processVars, pubVars, storageVars
  <2>1. CASE HistoryPanic
    BY <1>0, <2>1 DEF HistoryPanic
  <2>2. CASE HistoryHalt
    BY <1>0, <1>2, <2>2 DEF HistoryHalt
  <2>3. ASSUME NEW t, PublishHistory(t) PROVE GuardInv'
    BY <2>3 DEF PublishHistory
  <2>4. CASE TakeTarget \/ HistoryIngest \/ HistoryPublished \/ PersistSnapshot
    BY <2>4 DEF TakeTarget, HistoryIngest, HistoryPublished, PersistSnapshot
  <2> QED BY <1>4, <2>1, <2>2, <2>3, <2>4 DEF HistoryStep, HistoryVerified, HistoryMismatch
<1>5. CASE PublicationStep /\ UNCHANGED <<mode, hpc>>
  <2>1. PICK w \in Worker : \/ TakeChunk(w) \/ PersistTombstone(w) \/ PersistReorgStatus(w)
                            \/ \E t \in chunk[w] : TaskStep(w, t)
    BY <1>5 DEF PublicationStep
  <2>2. CASE PersistTombstone(w)
    BY <1>0, <1>5, <2>2 DEF PersistTombstone
  <2>3. CASE PersistReorgStatus(w)
    BY <1>0, <1>5, <2>3 DEF PersistReorgStatus
  <2>4. CASE TakeChunk(w)
    BY <1>1, <1>5, <2>4 DEF TakeChunk, storageVars
  <2>5. ASSUME NEW t \in chunk[w], TaskStep(w, t) PROVE GuardInv'
    <3>1. CASE FetchConflict(w, t)
      BY <1>2, <1>5, <3>1 DEF FetchConflict, storageVars
    <3>2. CASE ~FetchConflict(w, t)
      BY <1>1, <1>5, <2>5, <3>2 DEF TaskStep, FetchAbsent, FetchSame, Sign, DispatchWrite,
         WriteAcknowledged, RetrySubmission, ReadLatestIndex, WriteLatestIndex,
         RetryLatestIndex, storageVars
    <3> QED BY <3>1, <3>2
  <2> QED BY <2>1, <2>2, <2>3, <2>4, <2>5
<1>6. CASE (OutageEnds \/ \E c \in wire : WriteCheckpoint(c)) /\ UNCHANGED <<mode, hpc>>
  BY <1>1, <1>6 DEF OutageEnds, WriteCheckpoint, storageVars
<1>7. CASE \E i \in IndexSet : IndexRpc(i) \/ IndexStream(i)
  BY <1>1, <1>7 DEF IndexRpc, IndexStream, pubVars, storageVars, processVars, historyVars
<1>8. CASE LiveExit
  BY <1>0, <1>8 DEF LiveExit, Exit, Stop, VolatileReset, LoopReset, storageVars
<1>9. CASE Crash
  BY <1>9 DEF Crash, Stop, VolatileReset, LoopReset, storageVars
<1>10. CASE Restart
  BY <1>10 DEF Restart, pubVars, storageVars
<1>11. CASE UNCHANGED vars
  BY <1>1, <1>11 DEF vars, pubVars, storageVars, processVars, historyVars
<1> QED BY <1>3, <1>4, <1>5, <1>6, <1>7, <1>8, <1>9, <1>10, <1>11
        DEF Next, processVars, historyVars

\* GuardInv is an invariant of the validator.
LEMMA GuardInvariance == Spec => [](IInv /\ GuardInv)
<1>1. Init => GuardInv
  BY WorkerAssumption DEF Init, PubInit, VolatileInit, GuardInv, ExitGuarded
<1>2. IInv /\ GuardInv /\ [Next]_vars => GuardInv'
  BY GuardInductive
<1> QED BY <1>1, <1>2, Invariance, PTL DEF Spec

\* The process ends by its own panic only behind the local tombstone and the
\* published reorg status (persist_reorg_guard), so no restart signs again.
THEOREM PanicIsGuarded == Spec => []ExitGuarded
<1>1. GuardInv => ExitGuarded
  BY DEF GuardInv
<1> QED BY <1>1, GuardInvariance, PTL

\* Once reorg_halt is set by either submitter, no task signs, dispatches a
\* write or moves the latest index, and no snapshot is written (unless_reorg).
THEOREM HaltIsFinal == Spec => HaltStopsPublication
<1>1. ASSUME [Next]_vars, halted, halted'
      PROVE  /\ signed' = signed
             /\ wire' \subseteq wire
             /\ latestIndex' = latestIndex
             /\ snapshot' = snapshot
  <2>1. snapshot' = snapshot
    <3>1. CASE LiveExit \/ Crash
      BY <3>1 DEF LiveExit, Exit, Crash, Stop
    <3>2. CASE HistoryStep
      BY <1>1, <3>2 DEF HistoryStep, TakeTarget, HistoryIngest, HistoryVerified,
         HistoryMismatch, HistoryPublished, PersistSnapshot, HistoryPanic, PublishHistory,
         HistoryHalt
    <3>3. CASE LiveStep
      BY <3>3 DEF LiveStep, BeginSampling, ReuseSamples, Receive, EndStream, RecoveryFails,
         NotifyHistory, StreamVerify, BatchVerify, RecoverBatch
    <3>4. CASE Restart \/ \E i \in IndexSet : IndexRpc(i) \/ IndexStream(i)
      BY <3>4 DEF Restart, IndexRpc, IndexStream
    <3>5. CASE UNCHANGED vars
      BY <3>5 DEF vars
    <3> QED BY <1>1, <3>1, <3>2, <3>3, <3>4, <3>5 DEF Next
  <2>2. UNCHANGED <<signed, wire, latestIndex>> => signed' = signed
             /\ wire' \subseteq wire /\ latestIndex' = latestIndex
    OBVIOUS
  <2>3. CASE UNCHANGED pubVars
    BY <2>1, <2>2, <2>3 DEF pubVars, storageVars
  <2>4. CASE PublicationStep
    BY <1>1, <2>1, <2>2, <2>4 DEF PublicationStep, TakeChunk, PersistTombstone,
       PersistReorgStatus, TaskStep, FetchAbsent, FetchSame, FetchConflict, Sign,
       DispatchWrite, WriteAcknowledged, RetrySubmission, ReadLatestIndex,
       WriteLatestIndex, RetryLatestIndex, Awaiting, storageVars
  <2>5. CASE OutageEnds \/ \E c \in wire : WriteCheckpoint(c)
    BY <2>1, <2>5 DEF OutageEnds, WriteCheckpoint, storageVars
  <2>6. CASE LiveExit \/ Crash
    BY <1>1, <2>6 DEF LiveExit, Exit, Crash, Stop, VolatileReset
  <2>7. CASE LiveHalt \/ HistoryHalt \/ (\E f : Publish(f)) \/ \E t : PublishHistory(t)
    BY <2>1, <2>2, <2>7 DEF LiveHalt, HistoryHalt, Publish, PublishHistory, storageVars
  <2> QED BY <1>1, <2>3, <2>4, <2>5, <2>6, <2>7, OutsidePublication
<1>2. [Next]_vars => [halted /\ halted' => /\ signed' = signed
                                           /\ wire' \subseteq wire
                                           /\ latestIndex' = latestIndex
                                           /\ snapshot' = snapshot]_vars
  BY <1>1
<1> QED BY <1>2, PTL DEF Spec, HaltStopsPublication

-----------------------------------------------------------------------------
(* Checkpoints of one history.                                             *)

\* What a threshold backs, some endpoint reports.
LEMMA BackedIsReported ==
    ASSUME NEW c \in Checkpoint, NEW bal \in [Endpoint -> Reports \cup {None}],
           Backed(c, bal)
    PROVE  c \in Reports
<1> DEFINE B == {e \in Endpoint : IsPrefix(c, bal[e])}
<1>1. B # {}
  <2>1. Cardinality(B) >= Required /\ Required \in Nat \ {0}
    BY RequiredRange, EndpointAssumption, FS_CardinalityType DEF Backed
  <2> HIDE DEF B
  <2> SUFFICES ASSUME B = {} PROVE FALSE
    OBVIOUS
  <2>2. Cardinality(B) = 0
    BY FS_EmptySet
  <2> QED BY <2>1, <2>2
<1>2. PICK e \in Endpoint : IsPrefix(c, bal[e])
  BY <1>1
<1>3. bal[e] # None
  <2>1. c \in Tree /\ Len(c) \in Nat /\ Len(c) # 0 /\ << >> \in Tree
    BY TreeLength DEF Checkpoint
  <2>2. ~IsPrefix(c, << >>)
    BY <2>1, PrefixPointwise
  <2> QED BY <1>2, <2>2 DEF None
<1> QED BY <1>2, <1>3, ReportsClosed

-----------------------------------------------------------------------------
(* What each kind of step does to StorageInv.                              *)

\* The types the proofs below need.
LEMMA StorageTypes ==
    ASSUME IInv
    PROVE  /\ PubTypeOK
           /\ "live" \in Worker /\ "history" \in Worker
           /\ tree.committed \in StorableTree /\ tree.committed \in Tree
           /\ snapshot \in StorableTree /\ snapshot \in Tree
           /\ htree \in StorableTree /\ htree \in Tree
           /\ htarget \in StorableTree /\ htarget \in Tree
           /\ watch \in StorableTree /\ watch \in Tree
           /\ hbase \in Nat
           /\ InHand \subseteq Storable
           /\ \A v \in Worker : InJob(v) \subseteq Storable
           /\ Storable \subseteq Checkpoint
<1>1. /\ PubTypeOK /\ tree.committed \in StorableTree /\ snapshot \in StorableTree
      /\ htree \in StorableTree /\ htarget \in StorableTree /\ watch \in StorableTree
      /\ hbase \in Nat
  BY MaxIndexAssumption DEF IInv, TypeOK, StorableFrontier
<1>2. StorableTree \subseteq Tree
  BY StorableTreeLength
<1>3. \A v \in Worker : InJob(v) \subseteq Storable
  BY <1>1 DEF PubTypeOK, InJob, Task
<1>4. InHand \subseteq Storable
  BY <1>1, <1>3 DEF InHand, PubTypeOK
<1>5. Storable \subseteq Checkpoint
  BY DEF Storable
<1> QED BY <1>1, <1>2, <1>3, <1>4, <1>5, WorkerAssumption

\* Coverage survives a step that keeps the history worker, the channel and the
\* committed head, while storage grows and a job loses only durable values.
LEMMA CoverageKept ==
    ASSUME IInv, CoverageInv, Grows, UNCHANGED <<snapshot, trailVars>>,
           tree'.committed = tree.committed, pc' = "publish" => pc = "publish",
           \A v \in Worker : \A c \in InJob(v) : c \in InJob(v)' \/ stored'[Index(c)] = c
    PROVE  CoverageInv'
<1> USE DEF trailVars, watchVars, historyVars
<1>1. /\ \A c \in Storable : stored[Index(c)] = c => stored'[Index(c)] = c
      /\ \A t \in StorableTree : \A n \in 0 .. Len(t) :
           (\A i \in 0 .. n - 1 : stored[i] = CheckpointAt(t, i))
             => \A i \in 0 .. n - 1 : stored'[i] = CheckpointAt(t, i)
  BY DurableStays
<1>2. /\ snapshot \in StorableTree /\ htree \in StorableTree /\ htarget \in StorableTree
      /\ watch \in StorableTree /\ tree.committed \in StorableTree /\ hbase \in Nat
      /\ "live" \in Worker /\ "history" \in Worker
  BY StorageTypes
<1>3. Covered(snapshot, Len(snapshot))'
  <2>1. Len(snapshot) \in 0 .. Len(snapshot)
    BY <1>2, StorableTreeLength
  <2> QED BY <1>1, <1>2, <2>1 DEF CoverageInv, Covered
<1>4. (hpc \in {"wait", "snapshot"} => Covered(htree, Len(htree)))'
  <2>1. Len(htree) \in 0 .. Len(htree)
    BY <1>2, StorableTreeLength
  <2> QED BY <1>1, <1>2, <2>1 DEF CoverageInv, Covered
<1>5. (hpc \in {"replay", "submit"} => Covered(htree, hbase))'
  <2> SUFFICES ASSUME hpc \in {"replay", "submit"}
               PROVE  \A i \in 0 .. hbase - 1 : stored'[i] = CheckpointAt(htree, i)
    BY DEF Covered
  <2>1. hbase <= Len(htree)
    BY DEF IInv, HistoryTrails, CoverageInv
  <2>2. hbase \in 0 .. Len(htree)
    BY <1>2, <2>1, StorableTreeLength
  <2> QED BY <1>1, <1>2, <2>2 DEF CoverageInv, Covered
<1>6. (hpc = "submit" =>
         /\ htree = htarget
         /\ hbase <= Len(htree)
         /\ \A i \in hbase .. Index(htarget) - 1 :
              \/ CheckpointAt(htree, i) \in InJob("history")
              \/ stored[i] = CheckpointAt(htree, i))'
  <2> SUFFICES ASSUME hpc = "submit"
               PROVE  /\ htree = htarget
                      /\ hbase <= Len(htree)
                      /\ \A i \in hbase .. Index(htarget) - 1 :
                           \/ CheckpointAt(htree, i) \in InJob("history")'
                           \/ stored'[i] = CheckpointAt(htree, i)
    OBVIOUS
  <2>1. htree = htarget /\ hbase <= Len(htree)
    BY DEF CoverageInv
  <2>2. ASSUME NEW i \in hbase .. Index(htarget) - 1
        PROVE  \/ CheckpointAt(htree, i) \in InJob("history")'
               \/ stored'[i] = CheckpointAt(htree, i)
    <3>1. i \in 0 .. Len(htree) - 1
      BY <1>2, <2>1, StorableTreeLength DEF Index
    <3>2. Index(CheckpointAt(htree, i)) = i /\ CheckpointAt(htree, i) \in Storable
      BY <1>2, <3>1, CheckpointAtIndex
    <3>3. CheckpointAt(htree, i) \in InJob("history") \/ stored[i] = CheckpointAt(htree, i)
      BY DEF CoverageInv
    <3> QED BY <1>1, <1>2, <3>2, <3>3
  <2> QED BY <2>1, <2>2
<1>7. /\ (watch # None => Held(watch))'
      /\ (htarget # None => Held(htarget))'
  BY <1>1, <1>2 DEF CoverageInv, Held, StorableTree
<1>8. (pc = "publish" => tree.committed \in InJob("live") \/ Held(tree.committed))'
  <2> SUFFICES ASSUME pc = "publish"
               PROVE  \/ tree.committed \in InJob("live")'
                      \/ stored'[Index(tree.committed)] = tree.committed
    BY DEF Held
  <2>1. Len(tree.committed) > 0
    BY <1>2, StorableTreeLength DEF IInv, HistoryTrails
  <2>2. tree.committed \in Storable
    BY <1>2, <2>1, StorableTreeLength
  <2> QED BY <1>1, <1>2, <2>2 DEF CoverageInv, Held
<1> QED BY <1>3, <1>4, <1>5, <1>6, <1>7, <1>8 DEF CoverageInv

\* A step that leaves storage, requests, jobs and the committed head alone.
LEMMA StorageQuiet ==
    ASSUME IInv, StorageInv, CoverageInv',
           UNCHANGED <<stored, latestIndex, wire, queue, chunk, publishLatest, mode>>,
           tree'.committed = tree.committed,
           samples' \in [Endpoint -> Reports \cup {None}],
           received' \in [Endpoint -> Reports \cup {None}]
    PROVE  StorageInv'
<1>1. \A v \in Worker : InJob(v)' = InJob(v)
  BY DEF InJob
<1>2. ReportedOnly' /\ WireInHistory'
  BY DEF StorageInv, ReportedOnly, WireInHistory
<1>3. Consistent'
  BY <1>1 DEF StorageInv, Consistent, InHand
<1>4. SubmissionsFit' /\ SoleAnnouncer'
  BY DEF StorageInv, SubmissionsFit, SoleAnnouncer, Fits, Held
<1> QED BY <1>2, <1>3, <1>4 DEF StorageInv

\* Jobs that only shrink, and requests taken from jobs, stay on the history.
LEMMA HandInHistory ==
    ASSUME IInv, ReportedOnly, WireInHistory, mode = "running"
    PROVE  /\ \A c \in InHand : IsPrefix(c, tree.committed)
           /\ InHand \subseteq Reports
<1>1. \A c \in InHand : IsPrefix(c, tree.committed)
  BY DEF InHand, IInv, WorkInHistory, WireInHistory
<1>2. ASSUME NEW c \in InHand PROVE c \in Reports
  <2>1. c \in Checkpoint /\ c \in Tree
    BY StorageTypes DEF Checkpoint
  <2>2. tree.committed # None
    <3>1. Len(c) \in Nat /\ Len(c) # 0 /\ << >> \in Tree /\ Len(<< >>) = 0
      BY <2>1, TreeLength DEF Checkpoint
    <3>2. ~IsPrefix(c, << >>)
      BY <2>1, <3>1, PrefixPointwise
    <3> QED BY <1>1, <3>2 DEF None
  <2> QED BY <1>1, <2>1, <2>2, ReportsClosed DEF ReportedOnly
<1> QED BY <1>1, <1>2

\* A publication step: one announcer at a time, and nothing else moves.
LEMMA StoragePublication ==
    ASSUME IInv, StorageInv, PublicationStep, mode = "running",
           UNCHANGED <<db, snapshot, processVars, loopVars, watchVars, historyVars>>
    PROVE  StorageInv'
<1> USE DEF processVars, loopVars
<1>0. PubTypeOK /\ "live" \in Worker /\ "history" \in Worker /\ SubmissionsFit
  BY StorageTypes DEF StorageInv
<1>1. /\ SubmissionsFit'
      /\ stored' = stored
      /\ \A v \in Worker : InJob(v)' \subseteq InJob(v)
      /\ \A v \in Worker : \A c \in InJob(v) : c \in InJob(v)' \/ stored'[Index(c)] = c
      /\ wire' \subseteq InHand
  BY <1>0, PublicationStepFits
<1>2. InHand' \subseteq InHand
  BY <1>1 DEF InHand
<1>3. ReportedOnly' /\ WireInHistory'
  BY <1>1, HandInHistory DEF StorageInv, ReportedOnly, WireInHistory
<1>4. Consistent'
  BY <1>2 DEF StorageInv, Consistent
<1>5. CoverageInv'
  BY <1>1, CoverageKept DEF StorageInv, Grows, trailVars
<1>6. SoleAnnouncer'
  <2>1. PICK w \in Worker : \/ TakeChunk(w) \/ PersistTombstone(w) \/ PersistReorgStatus(w)
                            \/ \E t \in chunk[w] : TaskStep(w, t)
    BY DEF PublicationStep
  <2>2. CASE PersistTombstone(w) \/ PersistReorgStatus(w)
    BY <2>2 DEF PersistTombstone, PersistReorgStatus, jobVars, StorageInv, SoleAnnouncer
  <2>3. CASE TakeChunk(w)
    <3>1. /\ latestIndex' = latestIndex
          /\ \A v \in Worker : \A u \in chunk'[v] :
               \/ v # w /\ u \in chunk[v]
               \/ v = w /\ u.stage = "fetch" /\ u.cp \in queue[w]
                        /\ u.publish = (publishLatest[w] /\ Above(queue[w], u.cp) = {})
          /\ \A v \in Worker : queue'[v] \subseteq queue[v]
      BY <1>0, <2>3, TakeChunkFits
    <3>2. publishLatest'["history"] = FALSE \/ publishLatest'["history"] = publishLatest["history"]
      BY <1>0, <2>3 DEF TakeChunk, PubTypeOK
    <3>3. \A t, u \in chunk'["live"] : t = u
      <4>1. CASE w # "live"
        BY <1>0, <3>1, <4>1 DEF StorageInv, SoleAnnouncer
      <4>2. CASE w = "live"
        <5>1. chunk' \in [Worker -> SUBSET Task]
          BY <1>0, PublicationStepSafe DEF PubTypeOK
        <5>2. \A t, u \in chunk'["live"] :
                t.cp = u.cp /\ t.stage = u.stage /\ t.publish = u.publish
          BY <1>0, <3>1, <4>2 DEF StorageInv, SoleAnnouncer
        <5> QED BY <1>0, <5>1, <5>2 DEF Task
      <4> QED BY <4>1, <4>2
    <3> QED BY <1>0, <3>1, <3>2, <3>3 DEF StorageInv, SoleAnnouncer
  <2>4. ASSUME NEW t \in chunk[w], TaskStep(w, t) PROVE SoleAnnouncer'
    <3>0. t \in Task
      BY <1>0 DEF PubTypeOK
    <3>1. ASSUME NEW s \in Stage, MoveTo(w, t, s), UNCHANGED <<queue, publishLatest>>,
                 s \in {"latest", "latestWrite"} => t.publish,
                 s = "latestWrite" => Index(t.cp) > latestIndex',
                 \/ latestIndex' = latestIndex
                 \/ t.stage = "latestWrite" /\ s = "done"
          PROVE  SoleAnnouncer'
      <4> DEFINE moved == [t EXCEPT !.stage = s]
      <4>1. moved.cp = t.cp /\ moved.publish = t.publish /\ moved.stage = s
        BY <3>0 DEF Task
      <4>2. \A v \in Worker : \A u \in chunk'[v] :
              \/ u \in chunk[v] /\ (v = w => u # t)
              \/ v = w /\ u = moved
        BY <1>0, <3>1, MoveToKeeps
      <4> HIDE DEF moved
      <4>3. \A u \in chunk'["history"] : ~u.publish
        BY <1>0, <4>1, <4>2 DEF StorageInv, SoleAnnouncer
      <4>4. \A u, o \in chunk'["live"] : u = o
        BY <1>0, <4>2 DEF StorageInv, SoleAnnouncer
      <4>5. \A v \in Worker : \A u \in chunk'[v] :
              u.stage \in {"latest", "latestWrite"} => u.publish
        BY <3>1, <4>1, <4>2 DEF StorageInv, SoleAnnouncer
      <4>6. ASSUME NEW v \in Worker, NEW u \in chunk'[v], u.stage = "latestWrite"
            PROVE  Index(u.cp) > latestIndex'
        <5>1. CASE u = moved
          BY <3>1, <4>1, <4>6, <5>1
        <5>2. CASE u # moved
          <6>1. u \in chunk[v] /\ (v = w => u # t)
            BY <4>2, <5>2
          <6>2. u.publish /\ v = "live"
            BY <4>6, <6>1, WorkerAssumption DEF StorageInv, SoleAnnouncer
          <6>3. latestIndex' = latestIndex
            <7> SUFFICES ASSUME t.stage = "latestWrite" PROVE FALSE
              BY <3>1
            <7>1. t.publish /\ w = "live"
              BY WorkerAssumption DEF StorageInv, SoleAnnouncer
            <7> QED BY <6>1, <6>2, <7>1 DEF StorageInv, SoleAnnouncer
          <6> QED BY <4>6, <6>1, <6>3 DEF StorageInv, SoleAnnouncer
        <5> QED BY <5>1, <5>2
      <4> QED BY <3>1, <4>3, <4>4, <4>5, <4>6 DEF StorageInv, SoleAnnouncer
    <3>2. CASE FetchConflict(w, t)
      BY <3>2 DEF FetchConflict, jobVars, storageVars, StorageInv, SoleAnnouncer
    <3>3. CASE ReadLatestIndex(w, t)
      <4>1. t.publish
        BY <3>3 DEF ReadLatestIndex, Awaiting, StorageInv, SoleAnnouncer
      <4> QED BY <3>1, <3>3, <4>1 DEF ReadLatestIndex, storageVars, Stage
    <3>4. CASE RetryLatestIndex(w, t)
      <4>1. t.publish
        BY <3>4 DEF RetryLatestIndex, Awaiting, StorageInv, SoleAnnouncer
      <4> QED BY <3>1, <3>4, <4>1 DEF RetryLatestIndex, storageVars, Stage
    <3>5. CASE WriteLatestIndex(w, t)
      BY <3>1, <3>5 DEF WriteLatestIndex, Awaiting, Stage
    <3>6. CASE FetchSame(w, t) \/ WriteAcknowledged(w, t)
      BY <3>1, <3>6 DEF FetchSame, WriteAcknowledged, Durable, storageVars, Stage
    <3>7. CASE FetchAbsent(w, t) \/ Sign(w, t) \/ DispatchWrite(w, t) \/ RetrySubmission(w, t)
      BY <3>1, <3>7 DEF FetchAbsent, Sign, DispatchWrite, RetrySubmission, storageVars, Stage
    <3> QED BY <2>4, <3>2, <3>3, <3>4, <3>5, <3>6, <3>7 DEF TaskStep
  <2> QED BY <2>1, <2>2, <2>3, <2>4
<1> QED BY <1>1, <1>3, <1>4, <1>5, <1>6 DEF StorageInv

\* Storage applies a request: at a free index or over the same value.
LEMMA StorageWrite ==
    ASSUME IInv, StorageInv, NEW c \in wire, WriteCheckpoint(c),
           UNCHANGED <<db, snapshot, processVars, loopVars, watchVars, historyVars>>
    PROVE  StorageInv'
<1> USE DEF processVars, loopVars
<1>0. PubTypeOK /\ "live" \in Worker /\ "history" \in Worker /\ SubmissionsFit /\ Consistent
  BY StorageTypes DEF StorageInv
<1>1. /\ SubmissionsFit' /\ Grows
      /\ c \in Storable /\ stored' = [stored EXCEPT ![Index(c)] = c]
      /\ wire' \subseteq wire
      /\ \A v \in Worker : InJob(v)' = InJob(v)
      /\ \A v \in Worker : \A u \in chunk'[v] : \E o \in chunk[v] :
           u = IF o.cp = c /\ o.stage = "writing" THEN [o EXCEPT !.stage = "written"] ELSE o
  BY <1>0, WriteCheckpointFits
<1>2. InHand' \subseteq InHand
  BY <1>1 DEF InHand
<1>3. ReportedOnly'
  <2>1. c \in Reports /\ Index(c) \in IndexSet /\ stored \in [IndexSet -> Storable \cup {None}]
    BY <1>0, <1>1 DEF StorageInv, ReportedOnly, PubTypeOK, Storable
  <2>2. \A i \in IndexSet : stored'[i] = IF i = Index(c) THEN c ELSE stored[i]
    BY <1>1, <2>1
  <2> QED BY <1>1, <2>1, <2>2 DEF StorageInv, ReportedOnly
<1>4. WireInHistory'
  BY <1>1 DEF StorageInv, WireInHistory
<1>5. Consistent'
  BY <1>2 DEF StorageInv, Consistent
<1>6. CoverageInv'
  BY <1>1, CoverageKept DEF StorageInv, trailVars
<1>7. SoleAnnouncer'
  <2>1. UNCHANGED <<queue, publishLatest, latestIndex>>
    BY DEF WriteCheckpoint
  <2> DEFINE After(o) == IF o.cp = c /\ o.stage = "writing"
                         THEN [o EXCEPT !.stage = "written"] ELSE o
  <2>2. \A o \in Task : /\ After(o).cp = o.cp /\ After(o).publish = o.publish
                        /\ After(o).stage \in {"latest", "latestWrite"} =>
                             After(o).stage = o.stage
    BY DEF Task
  <2>3. \A v \in Worker : \A u \in chunk'[v] : \E o \in chunk[v] : o \in Task /\ u = After(o)
    BY <1>0, <1>1 DEF PubTypeOK
  <2> HIDE DEF After
  <2> QED BY <1>0, <2>1, <2>2, <2>3 DEF StorageInv, SoleAnnouncer
<1> QED BY <1>1, <1>3, <1>4, <1>5, <1>6, <1>7 DEF StorageInv

\* A longer head goes to publication: it is reported, and everything in hand is
\* on its history.
LEMMA StoragePublish ==
    ASSUME IInv, IInv', StorageInv, mode = "running", NEW f, f.committed \in Storable,
           IsPrefix(tree.committed, f.committed), f.committed \in Reports, Publish(f),
           UNCHANGED <<snapshot, processVars, received, trailVars>>
    PROVE  StorageInv'
<1> USE DEF trailVars, watchVars, historyVars, processVars
<1>0. /\ PubTypeOK /\ "live" \in Worker /\ "history" \in Worker
      /\ tree.committed \in Tree /\ f.committed \in Tree
      /\ InHand \subseteq Storable /\ Storable \subseteq Tree
  BY StorageTypes DEF Storable, Checkpoint
<1>1. /\ tree' = f /\ pc' = "publish" /\ samples' = EmptyBallot
      /\ StartJob("live", {f.committed}, TRUE)
      /\ UNCHANGED <<stored, latestIndex, wire>>
  BY DEF Publish, storageVars
<1>2. /\ InJob("live")' = {f.committed}
      /\ InJob("history")' = InJob("history")
  BY <1>0, <1>1, StartJobSafe
<1>3. /\ queue'["live"] = {f.committed} /\ chunk'["live"] = {}
      /\ queue'["history"] = queue["history"] /\ chunk'["history"] = chunk["history"]
      /\ publishLatest'["history"] = publishLatest["history"]
  BY <1>0, <1>1 DEF StartJob, PubTypeOK
<1>4. \A c \in Storable : IsPrefix(c, tree.committed) => IsPrefix(c, f.committed)
  BY <1>0, PrefixOrder
<1>5. /\ \A c \in InHand : IsPrefix(c, tree.committed)
      /\ InHand \subseteq Reports
  BY HandInHistory DEF StorageInv
<1>6. ReportedOnly'
  <2>1. EmptyBallot \in [Endpoint -> Reports \cup {None}]
    BY DEF EmptyBallot
  <2> QED BY <1>1, <2>1 DEF StorageInv, ReportedOnly
<1>7. InHand' \subseteq InHand \cup {f.committed}
  BY <1>1, <1>2, WorkerAssumption DEF InHand
<1>8. \A c \in InHand' : IsPrefix(c, f.committed)
  BY <1>0, <1>4, <1>5, <1>7, PrefixOrder
<1>9. WireInHistory'
  BY <1>1, <1>8 DEF StorageInv, WireInHistory, InHand
<1>10. Consistent'
  <2>1. \A c, d \in Storable : IsPrefix(c, f.committed) /\ IsPrefix(d, f.committed)
           /\ Index(c) = Index(d) => c = d
    BY <1>0, OneValuePerIndex DEF Storable
  <2> QED BY <1>0, <1>7, <1>8, <2>1 DEF Consistent
<1>11. SubmissionsFit'
  BY <1>1, <1>3, WorkerAssumption DEF StorageInv, SubmissionsFit, Fits, Held
<1>12. SoleAnnouncer'
  BY <1>1, <1>3, WorkerAssumption DEF StorageInv, SoleAnnouncer
<1>13. CoverageInv'
  BY <1>1, <1>2 DEF StorageInv, CoverageInv, Covered, Held
<1> QED BY <1>6, <1>9, <1>10, <1>11, <1>12, <1>13 DEF StorageInv

\* The history worker queues every checkpoint between its tree and its target.
LEMMA StorageHistoryJob ==
    ASSUME IInv, IInv', StorageInv, mode = "running", hpc = "replay",
           NEW t, t = htarget, \A j \in 1 .. hbase : t[j] = htree[j], PublishHistory(t)
    PROVE  StorageInv'
<1> USE DEF watchVars, processVars, loopVars
<1> DEFINE S == {CheckpointAt(t, i) : i \in hbase .. Index(htarget) - 1}
<1>0. /\ PubTypeOK /\ "live" \in Worker /\ "history" \in Worker
      /\ tree.committed \in Tree /\ htarget \in StorableTree /\ t \in Tree
      /\ htree \in StorableTree /\ htree \in Tree /\ hbase \in Nat
      /\ InHand \subseteq Storable
  BY StorageTypes
<1>1. /\ htree' = t /\ hpc' = "submit"
      /\ StartJob("history", S, FALSE)
      /\ UNCHANGED <<stored, latestIndex, wire, snapshot, mode, tree, pc, samples, received,
                     watch, hbase, htarget>>
  BY DEF PublishHistory, storageVars
<1>2. /\ hbase < Len(t) /\ hbase <= Len(htree) /\ Index(htarget) = Len(t) - 1
      /\ Len(t) \in Nat /\ Len(htree) \in Nat
  BY <1>0, TreeLength DEF IInv, TargetAhead, HistoryTrails, Index
<1>3. \A i \in hbase .. Index(htarget) - 1 : i \in 0 .. Len(t) - 1
  BY <1>0, <1>2
<1>4. S \subseteq Storable /\ \A c \in S : IsPrefix(c, t)
  BY <1>0, <1>3, CheckpointAtIndex, PrefixCheckpointAt
<1>5. \A c \in S : IsPrefix(c, tree.committed)
  <2>1. IsPrefix(t, tree.committed)
    BY DEF IInv, WorkInHistory
  <2> QED BY <1>0, <1>4, <2>1, PrefixOrder DEF Storable, Checkpoint
<1> HIDE DEF S
<1>6. InJob("history")' = S /\ InJob("live")' = InJob("live")
  BY <1>0, <1>1, <1>4, StartJobSafe
<1>7. /\ queue'["live"] = queue["live"] /\ chunk'["live"] = chunk["live"]
      /\ queue'["history"] = S /\ chunk'["history"] = {}
      /\ ~publishLatest'["history"]
  BY <1>0, <1>1 DEF StartJob, PubTypeOK
<1>8. ReportedOnly' /\ WireInHistory'
  BY <1>1 DEF StorageInv, ReportedOnly, WireInHistory
<1>9. Consistent'
  <2>1. InHand' \subseteq InHand \cup S
    BY <1>1, <1>6, WorkerAssumption DEF InHand
  <2>2. \A c \in InHand : IsPrefix(c, tree.committed)
    BY HandInHistory DEF StorageInv
  <2>3. \A c, d \in Storable : IsPrefix(c, tree.committed) /\ IsPrefix(d, tree.committed)
           /\ Index(c) = Index(d) => c = d
    BY <1>0, OneValuePerIndex DEF Storable
  <2>4. \A c \in InHand' : c \in Storable /\ IsPrefix(c, tree.committed)
    BY <1>0, <1>4, <1>5, <2>1, <2>2
  <2> QED BY <2>3, <2>4 DEF Consistent
<1>10. SubmissionsFit'
  BY <1>1, <1>7, WorkerAssumption DEF StorageInv, SubmissionsFit, Fits, Held
<1>11. SoleAnnouncer'
  BY <1>1, <1>7, WorkerAssumption DEF StorageInv, SoleAnnouncer
<1>12. CoverageInv'
  <2>1. \A i \in 0 .. hbase - 1 : stored[i] = CheckpointAt(t, i)
    <3>1. \A i \in 0 .. hbase - 1 : stored[i] = CheckpointAt(htree, i)
      BY DEF StorageInv, CoverageInv, Covered
    <3>2. ASSUME NEW i \in 0 .. hbase - 1 PROVE CheckpointAt(t, i) = CheckpointAt(htree, i)
      <4>1. PICK u \in Tree, v \in Tree, n \in Nat : u = t /\ v = htree /\ n = hbase
        BY <1>0
      <4>2. n <= Len(u) /\ n <= Len(v) /\ (\A j \in 1 .. n : u[j] = v[j]) /\ i \in 0 .. n - 1
        BY <1>2, <4>1
      <4>3. CheckpointAt(u, i) = CheckpointAt(v, i)
        BY <4>2, SameCheckpoints
      <4> QED BY <4>1, <4>3
    <3> QED BY <3>1, <3>2
  <2>2. \A i \in hbase .. Index(htarget) - 1 : CheckpointAt(t, i) \in S
    BY DEF S
  <2>3. hbase <= Len(t)
    BY <1>0, <1>2
  <2> QED BY <1>1, <1>6, <2>1, <2>2, <2>3 DEF StorageInv, CoverageInv, Covered, Held
<1> QED BY <1>8, <1>9, <1>10, <1>11, <1>12 DEF StorageInv

\* The history worker's other steps.
LEMMA StorageHistory ==
    ASSUME IInv, IInv', StorageInv, mode = "running", HistoryStep
    PROVE  StorageInv'
<1> USE DEF watchVars, processVars, loopVars, pubVars, storageVars, jobVars
<1>0. /\ PubTypeOK /\ "live" \in Worker /\ "history" \in Worker
      /\ htarget \in StorableTree /\ htarget \in Tree
      /\ htree \in StorableTree /\ htree \in Tree /\ hbase \in Nat
      /\ Len(htree) \in Nat /\ Len(htarget) \in Nat
  BY StorageTypes, TreeLength
<1>1. ASSUME CoverageInv',
             UNCHANGED <<stored, latestIndex, wire, queue, chunk, publishLatest, mode, tree,
                         samples, received>>
      PROVE  StorageInv'
  BY <1>1, StorageQuiet DEF StorageInv, ReportedOnly
<1>2. CASE TakeTarget
  <2>1. /\ hpc = "wait" /\ hpc' = "replay" /\ htarget' = watch /\ hbase' = Len(htree)
        /\ UNCHANGED <<stored, latestIndex, wire, queue, chunk, publishLatest, mode, tree,
                       samples, received, pc, watch, htree, snapshot>>
    BY <1>2 DEF TakeTarget
  <2>2. CoverageInv'
    BY <2>1 DEF StorageInv, CoverageInv, Covered, Held, InJob
  <2> QED BY <1>1, <2>1, <2>2
<1>3. CASE HistoryIngest
  <2>1. /\ hpc = "replay" /\ htree' = Append(htree, db[Len(htree)])
        /\ UNCHANGED <<stored, latestIndex, wire, queue, chunk, publishLatest, mode, tree,
                       samples, received, pc, watch, hpc, hbase, htarget, snapshot>>
    BY <1>3 DEF HistoryIngest
  <2>2. hbase <= Len(htree)
    BY <2>1 DEF IInv, HistoryTrails
  <2>3. htree' \in Tree
    BY StorableTreeLength DEF IInv, TypeOK
  <2>4. Len(htree') = Len(htree) + 1 /\ \A j \in 1 .. hbase : htree'[j] = htree[j]
    BY <1>0, <2>1, <2>2 DEF Tree
  <2>5. \A i \in 0 .. hbase - 1 : CheckpointAt(htree', i) = CheckpointAt(htree, i)
    <3>1. hbase <= Len(htree')
      BY <1>0, <2>2, <2>4
    <3> QED BY <1>0, <2>2, <2>3, <2>4, <3>1, SameCheckpoints
  <2>6. CoverageInv'
    BY <2>1, <2>5 DEF StorageInv, CoverageInv, Covered, Held, InJob
  <2> QED BY <1>1, <2>1, <2>6
<1>4. CASE HistoryVerified
  BY <1>0, <1>4, StorageHistoryJob DEF HistoryVerified, Replayed
<1>5. CASE HistoryHalt
  <2>1. CoverageInv'
    BY <1>5 DEF HistoryHalt, StorageInv, CoverageInv, Covered, Held, InJob
  <2> QED BY <1>1, <1>5, <2>1 DEF HistoryHalt
<1>6. CASE HistoryMismatch
  <2>1. CASE \E leaves \in Fetched(hbase, Len(htarget) - hbase) :
               LET t == SubSeq(htree, 1, hbase) \o leaves
               IN  t = htarget /\ PublishHistory(t)
    <3>1. PICK leaves \in Fetched(hbase, Len(htarget) - hbase) :
             /\ SubSeq(htree, 1, hbase) \o leaves = htarget
             /\ PublishHistory(SubSeq(htree, 1, hbase) \o leaves)
      BY <2>1
    <3>2. hpc = "replay" /\ hbase <= Len(htree) /\ hbase < Len(htarget)
      BY <1>6 DEF HistoryMismatch, Replayed, IInv, HistoryTrails, TargetAhead
    <3>3. leaves \in Tree
      <4>1. Len(htarget) - hbase \in Nat
        BY <1>0, <3>2
      <4> QED BY <1>0, <3>1, <4>1, FetchedTyped
    <3>4. \A j \in 1 .. hbase : (SubSeq(htree, 1, hbase) \o leaves)[j] = htree[j]
      BY <1>0, <3>2, <3>3 DEF Tree
    <3> QED BY <3>1, <3>2, <3>4, StorageHistoryJob
  <2> QED BY <1>5, <1>6, <2>1 DEF HistoryMismatch
<1>7. CASE HistoryPublished
  <2>1. /\ hpc = "submit" /\ JobDone("history") /\ hpc' = "snapshot"
        /\ UNCHANGED <<stored, latestIndex, wire, queue, chunk, publishLatest, mode, tree,
                       samples, received, pc, watch, htree, hbase, htarget, snapshot>>
    BY <1>7 DEF HistoryPublished
  <2>2. htree = htarget /\ hbase <= Len(htree)
    BY <2>1 DEF StorageInv, CoverageInv
  <2>3. ASSUME NEW i \in 0 .. Len(htree) - 1
        PROVE  stored[i] = CheckpointAt(htree, i)
    <3>1. CASE i < hbase
      <4>1. i \in 0 .. hbase - 1
        BY <1>0, <3>1
      <4> QED BY <2>1, <4>1 DEF StorageInv, CoverageInv, Covered
    <3>2. CASE i >= hbase /\ i < Len(htree) - 1
      <4>1. i \in hbase .. Index(htarget) - 1
        BY <1>0, <2>2, <3>2 DEF Index
      <4>2. CheckpointAt(htree, i) \in InJob("history") \/ stored[i] = CheckpointAt(htree, i)
        BY <2>1, <4>1 DEF StorageInv, CoverageInv
      <4>3. \A c \in InJob("history") : stored[Index(c)] = c
        BY <1>0, <2>1 DEF JobDone, InJob, StorageInv, SubmissionsFit, Held
      <4>4. Index(CheckpointAt(htree, i)) = i
        BY <1>0, CheckpointAtIndex
      <4> QED BY <4>2, <4>3, <4>4
    <3>3. CASE i = Len(htree) - 1
      <4>1. htarget # None /\ htarget \in Checkpoint
        BY <1>0, <2>2, <3>3, StorableTreeLength DEF Storable, StorableTree
      <4>2. stored[Index(htarget)] = htarget
        BY <4>1 DEF StorageInv, CoverageInv, Held
      <4>3. htarget = CheckpointAt(htarget, Index(htarget))
        BY <1>0, <4>1, PrefixOrder, PrefixIsCheckpointAt
      <4> QED BY <2>2, <3>3, <4>2, <4>3 DEF Index
    <3> QED BY <1>0, <3>1, <3>2, <3>3
  <2>4. CoverageInv'
    BY <2>1, <2>3 DEF StorageInv, CoverageInv, Covered, Held, InJob
  <2> QED BY <1>1, <2>1, <2>4
<1>8. CASE PersistSnapshot
  <2>1. CoverageInv'
    BY <1>8 DEF PersistSnapshot, StorageInv, CoverageInv, Covered, Held, InJob
  <2> QED BY <1>1, <1>8, <2>1 DEF PersistSnapshot
<1>9. CASE HistoryPanic
  <2>1. CoverageInv'
    BY <1>9 DEF HistoryPanic, StorageInv, CoverageInv, Covered, Held, InJob
  <2> QED BY <1>1, <1>9, <2>1 DEF HistoryPanic
<1> QED BY <1>2, <1>3, <1>4, <1>6, <1>7, <1>8, <1>9 DEF HistoryStep

\* The live submitter's steps.
LEMMA StorageLive ==
    ASSUME IInv, IInv', StorageInv, mode = "running", LiveStep
    PROVE  StorageInv'
<1> USE DEF watchVars, historyVars, processVars, pubVars, storageVars, jobVars
<1>0. /\ PubTypeOK /\ "live" \in Worker /\ "history" \in Worker
      /\ samples \in [Endpoint -> Reports \cup {None}]
      /\ received \in [Endpoint -> Reports \cup {None}]
      /\ samples \in [Endpoint -> StorableTree] /\ received \in [Endpoint -> StorableTree]
      /\ EmptyBallot \in [Endpoint -> Reports \cup {None}]
  BY StorageTypes DEF StorageInv, ReportedOnly, IInv, TypeOK, EmptyBallot
<1>1. ASSUME tree'.committed = tree.committed, pc' # "publish",
             UNCHANGED <<stored, latestIndex, wire, queue, chunk, publishLatest, mode,
                         snapshot, watch, changed, hpc, htree, hbase, htarget>>,
             samples' \in [Endpoint -> Reports \cup {None}],
             received' \in [Endpoint -> Reports \cup {None}]
      PROVE  StorageInv'
  <2>1. CoverageInv'
    BY <1>1 DEF StorageInv, CoverageInv, Covered, Held, InJob
  <2> QED BY <1>1, <2>1, StorageQuiet
<1>2. ASSUME NEW bal \in [Endpoint -> Reports \cup {None}], NEW f, f.committed \in Storable,
             IsPrefix(tree.committed, f.committed), Backed(f.committed, bal), Publish(f),
             UNCHANGED <<snapshot, processVars, received, watch, changed, hpc, htree, hbase,
                         htarget>>
      PROVE  StorageInv'
  <2>1. f.committed \in Reports
    BY <1>2, BackedIsReported DEF Storable
  <2> QED BY <1>2, <2>1, StoragePublish DEF trailVars
<1>3. CASE BeginSampling
  BY <1>0, <1>1, <1>3 DEF BeginSampling
<1>4. CASE ReuseSamples
  BY <1>0, <1>1, <1>4 DEF ReuseSamples
<1>5. ASSUME NEW e \in Endpoint, Receive(e) PROVE StorageInv'
  <2>1. PICK c \in Reports \cup {None} : received' = [received EXCEPT ![e] = Merged(e, c)]
    BY <1>5 DEF Receive
  <2>2. Merged(e, c) \in Reports \cup {None}
    BY <1>0 DEF Merged
  <2>3. received' \in [Endpoint -> Reports \cup {None}]
    BY <1>0, <2>1, <2>2
  <2> QED BY <1>0, <1>1, <1>5, <2>3 DEF Receive
<1>6. CASE StreamVerify
  <2>1. CASE LiveHalt
    BY <1>0, <1>1, <1>6, <2>1 DEF StreamVerify, LiveHalt
  <2>2. ASSUME NEW r \in VerifyStep(tree, received, db), Advances(r), Publish(r.frontier)
        PROVE  StorageInv'
    <3>1. Trusted(r, received)
      BY <1>0, VerifyTrusted
    <3> QED BY <1>0, <1>2, <1>6, <2>2, <3>1 DEF StreamVerify, Trusted
  <2>3. ASSUME NEW r \in VerifyStep(tree, received, db), ~Advances(r), tree' = r.frontier,
               UNCHANGED <<pubVars, pc, samples>>
        PROVE  StorageInv'
    <3>1. Trusted(r, received)
      BY <1>0, VerifyTrusted
    <3> QED BY <1>0, <1>1, <1>6, <2>3, <3>1 DEF StreamVerify, Trusted
  <2> QED BY <1>6, <2>1, <2>2, <2>3 DEF StreamVerify
<1>7. CASE EndStream
  BY <1>0, <1>1, <1>7 DEF EndStream
<1>8. CASE BatchVerify
  <2>1. CASE LiveHalt
    BY <1>0, <1>1, <1>8, <2>1 DEF BatchVerify, LiveHalt
  <2>2. ASSUME NEW r \in VerifyStep(tree, samples, db), Advances(r), Publish(r.frontier)
        PROVE  StorageInv'
    <3>1. Trusted(r, samples)
      BY <1>0, VerifyTrusted
    <3> QED BY <1>0, <1>2, <1>8, <2>2, <3>1 DEF BatchVerify, Trusted
  <2>3. ASSUME NEW r \in VerifyStep(tree, samples, db), ~Advances(r), tree' = r.frontier,
               pc' = NextPc(r), samples' \in {samples, EmptyBallot}, UNCHANGED pubVars
        PROVE  StorageInv'
    <3>1. Trusted(r, samples)
      BY <1>0, VerifyTrusted
    <3>2. NextPc(r) # "publish"
      BY DEF NextPc
    <3> QED BY <1>0, <1>1, <1>8, <2>3, <3>1, <3>2 DEF BatchVerify, Trusted
  <2> QED BY <1>8, <2>1, <2>2, <2>3 DEF BatchVerify
<1>9. CASE RecoverBatch
  <2>1. PICK rec \in Recoveries : /\ Advances(rec.result)
                                  /\ Publish(NewFrontier(rec.result.frontier.committed))
    BY <1>9 DEF RecoverBatch
  <2>2. Trusted(rec.result, samples)
    BY RecoveryTrusted
  <2>3. NewFrontier(rec.result.frontier.committed).committed = rec.result.frontier.committed
    BY DEF NewFrontier
  <2> QED BY <1>0, <1>2, <1>9, <2>1, <2>2, <2>3 DEF RecoverBatch, Trusted
<1>10. CASE RecoveryFails
  BY <1>0, <1>1, <1>10 DEF RecoveryFails
<1>11. CASE NotifyHistory
  <2>1. /\ pc = "publish" /\ JobDone("live") /\ watch' = tree.committed /\ pc' = "top"
        /\ UNCHANGED <<stored, latestIndex, wire, queue, chunk, publishLatest, mode,
                       snapshot, hpc, htree, hbase, htarget, tree, samples, received>>
    BY <1>11 DEF NotifyHistory
  <2>2. Held(tree.committed)
    BY <1>0, <2>1 DEF StorageInv, CoverageInv, JobDone, InJob, SubmissionsFit, Held
  <2>3. CoverageInv'
    BY <2>1, <2>2 DEF StorageInv, CoverageInv, Covered, Held, InJob
  <2> QED BY <1>0, <2>1, <2>3, StorageQuiet
<1> QED BY <1>3, <1>4, <1>5, <1>6, <1>7, <1>8, <1>9, <1>10, <1>11 DEF LiveStep

\* The end of a process: no job is left, and a crash takes its requests along.
LEMMA StorageStop ==
    ASSUME IInv, IInv', StorageInv, Stop, mode' \in {"crashed", "exited"},
           wire' \subseteq wire, mode' = "crashed" => wire' = {}
    PROVE  StorageInv'
<1>1. /\ UNCHANGED <<stored, latestIndex, snapshot>>
      /\ queue' = [w \in Worker |-> {}] /\ chunk' = [w \in Worker |-> {}]
      /\ publishLatest' = [w \in Worker |-> FALSE]
      /\ samples' = EmptyBallot /\ received' = EmptyBallot
      /\ watch' = None /\ hpc' = "wait" /\ htarget' = None
      /\ pc' = "top" /\ tree' = NewFrontier(<< >>) /\ htree' = << >>
  BY DEF Stop, VolatileReset, LoopReset, Start, storageVars
<1>2. tree'.committed = None /\ EmptyBallot \in [Endpoint -> Reports \cup {None}]
  BY <1>1 DEF NewFrontier, None, EmptyBallot
<1>3. ReportedOnly' /\ WireInHistory'
  BY <1>1, <1>2 DEF StorageInv, ReportedOnly, WireInHistory
<1>4. \A v \in Worker : InJob(v)' = {}
  BY <1>1 DEF InJob
<1>5. Consistent'
  BY <1>4 DEF StorageInv, Consistent, InHand
<1>6. SubmissionsFit' /\ SoleAnnouncer'
  BY <1>1, WorkerAssumption DEF StorageInv, SubmissionsFit, SoleAnnouncer, Fits, Held
<1>7. CoverageInv'
  <2>1. Len(<< >>) = 0 /\ 0 .. 0 - 1 = {}
    OBVIOUS
  <2> QED BY <1>1, <2>1 DEF StorageInv, CoverageInv, Covered
<1> QED BY <1>3, <1>5, <1>6, <1>7 DEF StorageInv

\* A new process starts where a crashed one left storage: from nothing, or from
\* a snapshot whose checkpoints are durable.
LEMMA StorageRestart ==
    ASSUME IInv, IInv', GuardInv, StorageInv, Restart
    PROVE  StorageInv'
<1>1. PICK t \in RestoredTrees : pc' = "top" /\ tree' = NewFrontier(t) /\ htree' = t
  BY DEF Restart, Start
<1>2. /\ mode = "crashed" /\ mode' = "running"
      /\ UNCHANGED <<stored, latestIndex, wire, queue, chunk, publishLatest, snapshot,
                     samples, received, watch, hpc, hbase, htarget>>
  BY DEF Restart, IInv, TypeOK, GuardInv, ExitGuarded, pubVars, storageVars, jobVars,
     watchVars
<1>3. /\ \A v \in Worker : InJob(v) = {}
      /\ hpc = "wait" /\ watch = None /\ htarget = None /\ wire = {}
  BY <1>2 DEF IInv, Dormant, StorageInv, WireInHistory
<1>4. t = None \/ (t = snapshot /\ snapshot # None /\ stored[Index(snapshot)] = snapshot)
  BY <1>1 DEF RestoredTrees, None
<1>5. tree'.committed = t /\ t \in Reports \cup {None}
  <2>1. snapshot # None => Index(snapshot) \in IndexSet
    BY DEF IInv, TypeOK, StorableTree, Storable
  <2> QED BY <1>1, <1>4, <2>1 DEF StorageInv, ReportedOnly, NewFrontier
<1>6. ReportedOnly' /\ WireInHistory'
  BY <1>2, <1>3, <1>5 DEF StorageInv, ReportedOnly, WireInHistory
<1>7. \A v \in Worker : InJob(v)' = InJob(v)
  BY <1>2 DEF InJob
<1>8. Consistent'
  BY <1>2, <1>7 DEF StorageInv, Consistent, InHand
<1>9. SubmissionsFit' /\ SoleAnnouncer'
  BY <1>2 DEF StorageInv, SubmissionsFit, SoleAnnouncer, Fits, Held
<1>10. CoverageInv'
  <2>1. Covered(snapshot, Len(snapshot))
    BY DEF StorageInv, CoverageInv
  <2>2. \A i \in 0 .. Len(t) - 1 : stored[i] = CheckpointAt(t, i)
    <3>1. CASE t = None
      <4>1. Len(t) = 0
        BY <3>1 DEF None
      <4> QED BY <4>1
    <3>2. CASE t = snapshot
      BY <2>1, <3>2 DEF Covered
    <3> QED BY <1>4, <3>1, <3>2
  <2> QED BY <1>1, <1>2, <1>3, <2>1, <2>2 DEF CoverageInv, Covered
<1> QED BY <1>6, <1>8, <1>9, <1>10 DEF StorageInv

-----------------------------------------------------------------------------
(* The theorems about storage.                                             *)

\* Nothing is published when the validator first starts.
LEMMA StorageInit == Init => StorageInv
<1> SUFFICES ASSUME Init PROVE StorageInv
  OBVIOUS
<1>1. tree.committed = None /\ EmptyBallot \in [Endpoint -> Reports \cup {None}]
  BY DEF Init, NewFrontier, None, EmptyBallot
<1>2. \A v \in Worker : InJob(v) = {}
  BY DEF Init, PubInit, VolatileInit, InJob
<1>3. Len(<< >>) = 0 /\ 0 .. 0 - 1 = {}
  OBVIOUS
<1>4. ReportedOnly /\ WireInHistory /\ Consistent
  BY <1>1, <1>2 DEF Init, PubInit, ReportedOnly, WireInHistory, Consistent, InHand
<1>5. SubmissionsFit /\ SoleAnnouncer
  BY WorkerAssumption DEF Init, PubInit, VolatileInit, SubmissionsFit, SoleAnnouncer
<1>6. CoverageInv
  BY <1>3 DEF Init, CoverageInv, Covered, None
<1> QED BY <1>4, <1>5, <1>6 DEF StorageInv

\* StorageInv survives every step, if a crash takes the requests of the process
\* along.
LEMMA StorageInductive ==
    ASSUME ~RequestsOutliveCrash, IInv, GuardInv, StorageInv, [Next]_vars
    PROVE  StorageInv'
<1>0. IInv'
  BY NextInductive
<1>1. CASE mode = "running" /\ LiveStep
  BY <1>0, <1>1, StorageLive
<1>2. CASE mode = "running" /\ HistoryStep
  BY <1>0, <1>2, StorageHistory
<1>3. CASE UNCHANGED <<stored, latestIndex, wire, queue, chunk, publishLatest, mode, tree, pc,
                       samples, received, snapshot, watch, changed, hpc, htree, hbase, htarget>>
  <2>1. CoverageInv'
    BY <1>3 DEF StorageInv, CoverageInv, Covered, Held, InJob
  <2> QED BY <1>3, <2>1, StorageQuiet DEF StorageInv, ReportedOnly
<1>4. CASE \/ \E i \in IndexSet : IndexRpc(i) \/ IndexStream(i)
           \/ UNCHANGED vars
           \/ /\ OutageEnds
              /\ UNCHANGED <<db, snapshot, processVars, loopVars, watchVars, historyVars>>
  BY <1>3, <1>4 DEF IndexRpc, IndexStream, OutageEnds, vars, pubVars, storageVars, jobVars,
     processVars, loopVars, watchVars, historyVars
<1>5. CASE /\ mode = "running" /\ PublicationStep
           /\ UNCHANGED <<db, snapshot, processVars, loopVars, watchVars, historyVars>>
  BY <1>5, StoragePublication
<1>6. CASE /\ \E c \in wire : WriteCheckpoint(c)
           /\ UNCHANGED <<db, snapshot, processVars, loopVars, watchVars, historyVars>>
  BY <1>6, StorageWrite
<1>7. CASE LiveExit
  BY <1>0, <1>7, StorageStop DEF LiveExit, Exit
<1>8. CASE Crash
  BY <1>0, <1>8, StorageStop DEF Crash
<1>9. CASE Restart
  BY <1>0, <1>9, StorageRestart
<1> QED BY <1>1, <1>2, <1>4, <1>5, <1>6, <1>7, <1>8, <1>9 DEF Next

\* StorageInv is an invariant of a validator whose requests die with it.
LEMMA StorageInvariance ==
    ASSUME ~RequestsOutliveCrash
    PROVE  Spec => [](IInv /\ GuardInv /\ StorageInv)
<1>1. Init => StorageInv
  BY StorageInit
<1>2. IInv /\ GuardInv /\ StorageInv /\ [Next]_vars => StorageInv'
  BY StorageInductive
<1> QED BY <1>1, <1>2, GuardInvariance, PTL DEF Spec

\* The Merkle snapshot advances only after every checkpoint it covers is durable
\* (checkpoint_history_submitter writes it last), also over a crash and a
\* restart from an older snapshot or from none.
THEOREM SnapshotIsCovered ==
    ASSUME ~RequestsOutliveCrash
    PROVE  Spec => []SnapshotCovered
<1>1. ASSUME IInv, StorageInv
      PROVE  SnapshotCovered
  <2>1. \A i \in 0 .. Len(snapshot) - 1 : stored[i] = CheckpointAt(snapshot, i)
    BY <1>1 DEF StorageInv, CoverageInv, Covered
  <2> QED BY <2>1 DEF SnapshotCovered, Index
<1> QED BY <1>1, StorageInvariance, PTL

\* A step of one submission raises no flag, and announces only what is durable,
\* higher than what was announced, and before any halt.
LEMMA PublicationOnBoard ==
    ASSUME IInv, GuardInv, StorageInv, mode = "running", PublicationStep
    PROVE  \/ UNCHANGED <<stored, latestIndex, reorgFlag>>
           \/ Board!RaiseFlag
           \/ \E s \in IndexSet : Board!Announce(s)
<1>1. PICK w \in Worker : \/ TakeChunk(w) \/ PersistTombstone(w) \/ PersistReorgStatus(w)
                          \/ \E t \in chunk[w] : TaskStep(w, t)
  BY DEF PublicationStep
<1>2. CASE TakeChunk(w) \/ PersistTombstone(w)
  BY <1>2 DEF TakeChunk, PersistTombstone, storageVars
<1>3. CASE PersistReorgStatus(w)
  BY <1>3 DEF PersistReorgStatus, Board!RaiseFlag
<1>4. ASSUME NEW t \in chunk[w], TaskStep(w, t)
      PROVE  \/ UNCHANGED <<stored, latestIndex, reorgFlag>>
             \/ \E s \in IndexSet : Board!Announce(s)
  <2>1. CASE WriteLatestIndex(w, t)
    <3>1. t.cp \in Storable /\ Index(t.cp) \in IndexSet /\ t.cp # None
      BY DEF IInv, TypeOK, PubTypeOK, Task, Storable, Checkpoint, None
    <3>2. ~halted /\ t.stage = "latestWrite"
      BY <2>1 DEF WriteLatestIndex, Awaiting
    <3>3. Index(t.cp) > latestIndex
      BY <3>2 DEF StorageInv, SoleAnnouncer
    <3>4. stored[Index(t.cp)] = t.cp
      BY <3>2 DEF StorageInv, SubmissionsFit, Held
    <3>5. ~reorgFlag
      BY <3>2 DEF GuardInv
    <3>6. latestIndex' = Index(t.cp) /\ UNCHANGED <<stored, reorgFlag>>
      BY <2>1 DEF WriteLatestIndex
    <3> QED BY <3>1, <3>3, <3>4, <3>5, <3>6 DEF Board!Announce
  <2>2. CASE ~WriteLatestIndex(w, t)
    BY <1>4, <2>2 DEF TaskStep, FetchAbsent, FetchSame, FetchConflict, Sign, DispatchWrite,
       WriteAcknowledged, RetrySubmission, ReadLatestIndex, RetryLatestIndex, storageVars
  <2> QED BY <2>1, <2>2
<1> QED BY <1>1, <1>2, <1>3, <1>4

\* The validator implements CheckpointBoard, what relayers read: each checkpoint
\* is written once, with a value some endpoint reported, across crashes, lost
\* snapshots and forks of the finalized history; the latest index names a durable
\* checkpoint, only grows, and stands still from the reorg status on.
THEOREM PublicationImplementsBoard ==
    ASSUME ~RequestsOutliveCrash
    PROVE  Spec => ImplementsBoard
<1> DEFINE Sound == IInv /\ GuardInv /\ StorageInv
           Value == [i \in IndexSet |-> {c \in Reports : Index(c) = i}]
<1>0. Board!Slot = IndexSet /\ DOMAIN Value = IndexSet
  BY DEF Board!Slot
<1>1. Init => Board!Init
  BY <1>0 DEF Init, PubInit, Board!Init, None
<1>2. ASSUME Sound, [Next]_vars
      PROVE  [Board!Next]_<<stored, latestIndex, reorgFlag>>
  <2>1. CASE UNCHANGED <<stored, latestIndex, reorgFlag>>
    BY <2>1
  <2>2. CASE PublicationStep /\ mode = "running"
    BY <1>0, <1>2, <2>2, PublicationOnBoard DEF Board!Next
  <2>3. ASSUME NEW c \in wire, WriteCheckpoint(c)
        PROVE  [Board!Next]_<<stored, latestIndex, reorgFlag>>
    <3>1. /\ c \in Storable /\ Index(c) \in IndexSet
          /\ Fits(c) /\ stored' = [stored EXCEPT ![Index(c)] = c]
      BY <1>2, <2>3, WriteCheckpointFits DEF IInv, TypeOK, StorageInv, Storable
    <3>2. UNCHANGED <<latestIndex, reorgFlag>>
      BY <2>3 DEF WriteCheckpoint
    <3>3. CASE stored[Index(c)] = None
      <4>1. c \in Reports
        BY <1>2 DEF StorageInv, ReportedOnly
      <4>2. c \in Value[Index(c)]
        BY <3>1, <4>1
      <4>3. Board!Post(Index(c), c)
        BY <3>1, <3>2, <3>3 DEF Board!Post
      <4> QED BY <1>0, <3>1, <4>2, <4>3 DEF Board!Next
    <3>4. CASE stored[Index(c)] = c
      <4>1. stored' = stored
        BY <1>2, <3>1, <3>4 DEF IInv, TypeOK, PubTypeOK
      <4> QED BY <3>2, <4>1
    <3> QED BY <3>1, <3>3, <3>4 DEF Fits
  <2>4. CASE LiveExit \/ Crash \/ OutageEnds
    BY <2>1, <2>4 DEF LiveExit, Exit, Crash, Stop, OutageEnds, storageVars
  <2>5. CASE LiveHalt \/ HistoryHalt \/ (\E f : Publish(f)) \/ \E t : PublishHistory(t)
    BY <2>1, <2>5 DEF LiveHalt, HistoryHalt, Publish, PublishHistory, storageVars
  <2>6. CASE UNCHANGED pubVars
    BY <2>1, <2>6 DEF pubVars, storageVars
  <2> QED BY <1>2, <2>2, <2>3, <2>4, <2>5, <2>6, OutsidePublication
<1>3. Sound /\ [Next]_vars => [Board!Next]_<<stored, latestIndex, reorgFlag>>
  BY <1>2
<1>4. Spec => []Sound
  BY StorageInvariance
<1> HIDE DEF Sound
<1> QED BY <1>1, <1>3, <1>4, PTL DEF Spec, ImplementsBoard, Board!Spec
=============================================================================
