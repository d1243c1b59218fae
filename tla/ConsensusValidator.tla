-------------------------- MODULE ConsensusValidator --------------------------
(***************************************************************************)
(* A validator in quorum or majority mode (agents/validator/src/submit.rs, *)
(* consensus_checkpoint_submitter and checkpoint_history_submitter;        *)
(* validator.rs, start-up): the live submitter samples the endpoints,      *)
(* replays indexed insertions, commits the history that a threshold of     *)
(* endpoints authenticates and publishes its head; one history worker      *)
(* publishes the older checkpoints and the snapshot.  Indexers write the   *)
(* insertion database concurrently.  The process may crash at any step and *)
(* restart from storage.                                                   *)
(***************************************************************************)
EXTENDS InsertionIndex

CONSTANTS
    Lightweight,           \* websocket-only indexing, no RPC recovery
    RequestsOutliveCrash,  \* a dispatched write may land after a crash
    MaxCrashes             \* bound on the number of crashes

ASSUME FlagsAssumption == Lightweight \in BOOLEAN /\ RequestsOutliveCrash \in BOOLEAN
ASSUME CrashAssumption == MaxCrashes \in Nat
ASSUME WorkerAssumption == Worker = {"live", "history"}

VARIABLES
    mode,      \* "running", "crashed", or "exited" after its own panic
    crashes,   \* crashes so far
    pc,        \* where the live submitter is in its loop
    tree,      \* its CheckpointTree
    samples,   \* the retained samples, EmptyBallot for the code's None
    received,  \* the ballot being collected
    pending,   \* endpoints that have not answered this read
    fresh,     \* an answer arrived since the last completed verification
    watch,     \* the latest history target sent, None when none was
    changed,   \* the history worker has not seen watch
    hpc,       \* where the history worker is in its loop
    htree,     \* its own tree
    hbase,     \* its leaf count when it took the current target
    htarget,   \* the target it is publishing
    past       \* values signed by earlier processes

loopVars == <<pc, tree, samples, received, pending, fresh>>
historyVars == <<hpc, htree, hbase, htarget>>
watchVars == <<watch, changed>>
processVars == <<mode, crashes, past>>
vars == <<pubVars, db, snapshot, processVars, loopVars, watchVars, historyVars>>

LivePc == {"top", "stream", "batch", "recover", "publish", "halt"}
HistoryPc == {"wait", "replay", "submit", "snapshot", "halt", "panicked"}

StorableFrontier == [committed : StorableTree, accumulated : StorableTree,
                     sampled : SUBSET Storable]

\* Every variable has its type, and no tree outgrows the indices it may hold.
TypeOK ==
    /\ PubTypeOK
    /\ db \in [IndexSet -> Leaf \cup {NoLeaf}]
    /\ snapshot \in StorableTree
    /\ mode \in {"running", "crashed", "exited"}
    /\ crashes \in 0 .. MaxCrashes
    /\ pc \in LivePc
    /\ tree \in StorableFrontier
    /\ samples \in [Endpoint -> StorableTree]
    /\ received \in [Endpoint -> StorableTree]
    /\ pending \in SUBSET Endpoint
    /\ fresh \in BOOLEAN
    /\ watch \in StorableTree
    /\ changed \in BOOLEAN
    /\ hpc \in HistoryPc
    /\ htree \in StorableTree
    /\ hbase \in 0 .. MaxIndex + 1
    /\ htarget \in StorableTree
    /\ past \in SUBSET Storable

-----------------------------------------------------------------------------
(* Process start, crash and exit.                                          *)

Start(t) ==
    /\ pc' = "top"
    /\ tree' = NewFrontier(t)
    /\ htree' = t

LoopReset ==
    /\ samples' = EmptyBallot
    /\ received' = EmptyBallot
    /\ pending' = {}
    /\ fresh' = FALSE
    /\ watch' = None
    /\ changed' = FALSE
    /\ hpc' = "wait"
    /\ hbase' = 0
    /\ htarget' = None

Stop ==
    /\ VolatileReset
    /\ LoopReset
    /\ Start(<< >>)
    /\ past' = past \cup signed
    /\ UNCHANGED <<storageVars, outage, db, snapshot>>

Init ==
    /\ PubInit
    /\ db = [i \in IndexSet |-> NoLeaf]
    /\ snapshot = None
    /\ mode = "running"
    /\ crashes = 0
    /\ pc = "top"
    /\ tree = NewFrontier(<< >>)
    /\ samples = EmptyBallot
    /\ received = EmptyBallot
    /\ pending = {}
    /\ fresh = FALSE
    /\ watch = None
    /\ changed = FALSE
    /\ hpc = "wait"
    /\ htree = << >>
    /\ hbase = 0
    /\ htarget = None
    /\ past = {}

Crash ==
    /\ mode = "running"
    /\ crashes < MaxCrashes
    /\ crashes' = crashes + 1
    /\ mode' = "crashed"
    /\ wire' = IF RequestsOutliveCrash THEN wire ELSE {}
    /\ Stop

\* ensure_absent and build_and_validate refuse to start past a guard.
Restart ==
    /\ mode # "running"
    /\ ~tombstone
    /\ ~reorgFlag
    /\ mode' = "running"
    /\ \E t \in RestoredTrees : Start(t)
    /\ UNCHANGED <<pubVars, db, snapshot, crashes, past, samples, received, pending,
                   fresh, watchVars, hpc, hbase, htarget>>

\* A panic of the live task fails try_join_all and ends the process.
Exit ==
    /\ mode' = "exited"
    /\ UNCHANGED <<crashes, wire>>
    /\ Stop

-----------------------------------------------------------------------------
(* Indexing.                                                               *)

\* The RPC indexer stores what its node returns, replacing another leaf.
IndexRpc(i) ==
    /\ ~Lightweight
    /\ \E leaf \in LeavesAt(i) : db' = [db EXCEPT ![i] = leaf]
    /\ UNCHANGED <<pubVars, snapshot, processVars, loopVars, watchVars, historyVars>>

\* The websocket stores the next leaf in order, and never over an existing one.
IndexStream(i) ==
    /\ db[i] = NoLeaf
    /\ \A j \in IndexSet : Len(tree.committed) <= j /\ j < i => db[j] # NoLeaf
    /\ \E leaf \in LeavesAt(i) : db' = [db EXCEPT ![i] = leaf]
    /\ UNCHANGED <<pubVars, snapshot, processVars, loopVars, watchVars, historyVars>>

-----------------------------------------------------------------------------
(* The live submitter.                                                     *)

\* The idle gate: a healthy stream, no sample, no next insertion, no audit due.
MustNotIdle ==
    \/ ~Lightweight
    \/ samples # EmptyBallot
    \/ tree.committed # << >>
    \/ \E i \in IndexSet : i = Len(tree.committed) /\ db[i] # NoLeaf

AtTop == pc = "top" /\ hpc # "panicked"

BeginSampling ==
    /\ AtTop
    /\ MustNotIdle
    /\ pc' = "stream"
    /\ received' = EmptyBallot
    /\ pending' = Endpoint
    /\ fresh' = FALSE
    /\ UNCHANGED <<pubVars, db, snapshot, processVars, tree, samples, watchVars,
                   historyVars>>

\* Samples younger than the refresh interval are verified again.
ReuseSamples ==
    /\ AtTop
    /\ samples # EmptyBallot
    /\ pc' = "batch"
    /\ UNCHANGED <<pubVars, db, snapshot, processVars, tree, samples, received,
                   pending, fresh, watchVars, historyVars>>

\* merge_response: an advancing endpoint keeps an old sample that is still of use.
Merged(e, c) ==
    LET old == samples[e]
    IN  IF /\ old # None
           /\ c # None
           /\ Index(c) > Index(old)
           /\ ~TreeExceedsCheckpoint(old, tree.committed)
           /\ RootAt(tree, Index(old)) \in {{}, {old}}
        THEN old ELSE c

Receive(e) ==
    /\ pc = "stream"
    /\ e \in pending
    /\ pending' = pending \ {e}
    /\ fresh' = TRUE
    /\ \E c \in Reports \cup {None} :
         received' = [received EXCEPT ![e] = Merged(e, c)]
    /\ UNCHANGED <<pubVars, db, snapshot, processVars, pc, tree, samples, watchVars,
                   historyVars>>

LiveHalt ==
    /\ Halt("live")
    /\ pc' = "halt"
    /\ UNCHANGED <<storageVars, wire, outage, jobVars, signed, tree, samples, fresh>>

\* The committed head goes to publication; f is the frontier that was verified.
Publish(f) ==
    /\ tree' = f
    /\ samples' = EmptyBallot
    /\ pc' = "publish"
    /\ StartJob("live", {f.committed}, TRUE)
    /\ UNCHANGED <<storageVars, wire, outage, halted, guard, signed>>

\* Mutation: the head that is already committed is published again.
AdvancesAlways(r) == r.outcome = "Verified"

Advances(r) == r.outcome = "Verified" /\ r.frontier.committed # tree.committed

StreamVerify ==
    /\ pc = "stream"
    /\ fresh
    /\ HasThreshold(received)
    /\ \/ /\ Conflicting(tree, received)
          /\ LiveHalt
       \/ /\ ~Conflicting(tree, received)
          /\ \E r \in VerifyStep(tree, received, db) :
               \/ /\ Advances(r)
                  /\ Publish(r.frontier)
                  /\ fresh' = FALSE
               \/ /\ ~Advances(r)
                  /\ tree' = r.frontier
                  /\ fresh' = (r.outcome = "More")
                  /\ UNCHANGED <<pubVars, pc, samples>>
    /\ UNCHANGED <<db, snapshot, processVars, received, pending, watchVars, historyVars>>

EndStream ==
    /\ pc = "stream"
    /\ pending = {}
    /\ \/ /\ ~HasThreshold(received)
          /\ pc' = "top"
          /\ UNCHANGED samples
       \/ /\ HasThreshold(received)
          /\ ~fresh
          /\ pc' = "batch"
          /\ samples' = received
    /\ UNCHANGED <<pubVars, db, snapshot, processVars, tree, received, pending, fresh,
                   watchVars, historyVars>>

\* What a vote that does not advance leaves to do.
NextPc(r) ==
    CASE r.outcome = "More" -> "batch"
      [] /\ r.outcome = "WaitingForRpc"
         /\ ~Lightweight
         /\ Recoverable(r.frontier, samples) # {} -> "recover"
      [] OTHER -> "top"

\* Only a vote that waits for insertions or for recovery keeps its samples.
KeepsSamples(r) ==
    \/ r.outcome \in {"More", "WaitingForInsertions"}
    \/ NextPc(r) = "recover"

BatchVerify ==
    /\ pc = "batch"
    /\ \/ /\ Conflicting(tree, samples)
          /\ LiveHalt
       \/ /\ ~Conflicting(tree, samples)
          /\ \E r \in VerifyStep(tree, samples, db) :
               \/ /\ Advances(r)
                  /\ Publish(r.frontier)
                  /\ UNCHANGED fresh
               \/ /\ ~Advances(r)
                  /\ tree' = r.frontier
                  /\ pc' = NextPc(r)
                  /\ samples' = IF KeepsSamples(r) THEN samples ELSE EmptyBallot
                  /\ UNCHANGED <<pubVars, fresh>>
    /\ UNCHANGED <<db, snapshot, processVars, received, pending, watchVars, historyVars>>

\* What RPC recovery may bring: a contiguous run of insertions after the
\* committed frontier, up to the highest sample among the replayed ones, and
\* the result of putting it to the same ballot.
Recoveries ==
    LET first == Len(tree.committed)
        lengths == {n \in 1 .. MaxIndex + 1 :
                      \E i \in Recoverable(tree, samples) : first + n - 1 <= i}
    IN  UNION {{[leaves |-> leaves, result |-> r] :
                  r \in Evaluate(RecoveredFrontier(tree, samples, leaves), samples)} :
                 leaves \in UNION {Fetched(first, n) : n \in lengths}}

\* The recovered leaves win the vote: store the verified prefix, publish, and
\* forget the suffix the vote did not authenticate.
RecoverBatch ==
    /\ pc = "recover"
    /\ \E rec \in Recoveries :
         LET first == Len(tree.committed)
             head == rec.result.frontier.committed
         IN  /\ Advances(rec.result)
             /\ db' = StoreInsertions(first, SubSeq(rec.leaves, 1, Len(head) - first))
             /\ Publish(NewFrontier(head))
    /\ UNCHANGED <<snapshot, processVars, received, pending, fresh, watchVars,
                   historyVars>>

\* The fetch fails or times out, or the vote is lost; or one verified row
\* cannot be stored and the rows before it stay.  Resample.
RecoveryFails ==
    /\ pc = "recover"
    /\ \/ UNCHANGED db
       \/ \E rec \in Recoveries :
            LET first == Len(tree.committed)
            IN  /\ Advances(rec.result)
                /\ \E m \in 0 .. Len(rec.result.frontier.committed) - first - 1 :
                     db' = StoreInsertions(first, SubSeq(rec.leaves, 1, m))
    /\ samples' = EmptyBallot
    /\ pc' = "top"
    /\ UNCHANGED <<pubVars, snapshot, processVars, tree, received, pending, fresh,
                   watchVars, historyVars>>

\* The head is durable: hand the older checkpoints to the history worker.
NotifyHistory ==
    /\ pc = "publish"
    /\ JobDone("live")
    /\ hpc # "panicked"
    /\ watch' = tree.committed
    /\ changed' = TRUE
    /\ pc' = "top"
    /\ UNCHANGED <<pubVars, db, snapshot, processVars, tree, samples, received, pending,
                   fresh, historyVars>>

\* Mutation: the process panics behind the local guard alone.
LiveExitEarly ==
    /\ guard["live"] \in {"remote", "panic"}
    /\ Exit

\* The worker's panic surfaces at the loop's head, or in the send above.
LiveExit ==
    /\ \/ guard["live"] = "panic"
       \/ pc = "top" /\ hpc = "panicked"
       \/ pc = "publish" /\ JobDone("live") /\ hpc = "panicked"
    /\ Exit

-----------------------------------------------------------------------------
(* The history worker.                                                     *)

TakeTarget ==
    /\ hpc = "wait"
    /\ changed
    /\ changed' = FALSE
    /\ htarget' = watch
    /\ hbase' = Len(htree)
    /\ hpc' = "replay"
    /\ UNCHANGED <<pubVars, db, snapshot, processVars, loopVars, watch, htree>>

HistoryIngest ==
    /\ hpc = "replay"
    /\ Len(htree) <= Index(htarget)
    /\ db[Len(htree)] # NoLeaf
    /\ htree' = Append(htree, db[Len(htree)])
    /\ UNCHANGED <<pubVars, db, snapshot, processVars, loopVars, watchVars, hpc, hbase,
                   htarget>>

Replayed == hpc = "replay" /\ Len(htree) > Index(htarget)

\* Mutation: the first replayed checkpoint is skipped.
PublishHistoryAfterBase(t) ==
    /\ htree' = t
    /\ hpc' = "submit"
    /\ StartJob("history", {CheckpointAt(t, i) : i \in hbase + 1 .. Index(htarget) - 1}, FALSE)
    /\ UNCHANGED <<storageVars, wire, outage, halted, guard, signed, snapshot, processVars,
                   loopVars, watchVars, hbase, htarget>>

\* Every checkpoint below the target, which the live submitter has published.
PublishHistory(t) ==
    /\ htree' = t
    /\ hpc' = "submit"
    /\ StartJob("history", {CheckpointAt(t, i) : i \in hbase .. Index(htarget) - 1}, FALSE)
    /\ UNCHANGED <<storageVars, wire, outage, halted, guard, signed, snapshot, processVars,
                   loopVars, watchVars, hbase, htarget>>

\* Mutation: the replayed root is not compared with the target.
HistoryUnverified ==
    /\ Replayed
    /\ PublishHistory(htree)
    /\ UNCHANGED db

HistoryVerified ==
    /\ Replayed
    /\ htree = htarget
    /\ PublishHistory(htree)
    /\ UNCHANGED db

HistoryHalt ==
    /\ Halt("history")
    /\ hpc' = "halt"
    /\ UNCHANGED <<storageVars, wire, outage, jobVars, signed, db, snapshot, processVars,
                   loopVars, watchVars, htree, hbase, htarget>>

\* The replayed rows miss the target: fetch them again if RPC recovery exists.
HistoryMismatch ==
    /\ Replayed
    /\ htree # htarget
    /\ IF Lightweight \/ Len(htree) = hbase
       THEN HistoryHalt
       ELSE \E leaves \in Fetched(hbase, Len(htarget) - hbase) :
              LET t == SubSeq(htree, 1, hbase) \o leaves
              IN  \/ /\ t = htarget
                     /\ db' = StoreInsertions(hbase, leaves)
                     /\ PublishHistory(t)
                  \/ /\ t # htarget
                     /\ HistoryHalt

\* Mutation: the snapshot does not wait for the uploads.
HistoryNotPublished ==
    /\ hpc = "submit"
    /\ hpc' = "snapshot"
    /\ UNCHANGED <<pubVars, db, snapshot, processVars, loopVars, watchVars, htree, hbase,
                   htarget>>

HistoryPublished ==
    /\ hpc = "submit"
    /\ JobDone("history")
    /\ hpc' = "snapshot"
    /\ UNCHANGED <<pubVars, db, snapshot, processVars, loopVars, watchVars, htree, hbase,
                   htarget>>

\* The write may fail or time out: the snapshot is best effort.
PersistSnapshot ==
    /\ hpc = "snapshot"
    /\ ~halted
    /\ snapshot' \in {snapshot, htree}
    /\ hpc' = "wait"
    /\ UNCHANGED <<pubVars, db, processVars, loopVars, watchVars, htree, hbase, htarget>>

HistoryPanic ==
    /\ guard["history"] = "panic"
    /\ hpc # "panicked"
    /\ hpc' = "panicked"
    /\ UNCHANGED <<pubVars, db, snapshot, processVars, loopVars, watchVars, htree, hbase,
                   htarget>>

-----------------------------------------------------------------------------

LiveStep ==
    \/ BeginSampling
    \/ ReuseSamples
    \/ \E e \in Endpoint : Receive(e)
    \/ StreamVerify
    \/ EndStream
    \/ BatchVerify
    \/ RecoverBatch
    \/ RecoveryFails
    \/ NotifyHistory

HistoryStep ==
    \/ TakeTarget
    \/ HistoryIngest
    \/ HistoryVerified
    \/ HistoryMismatch
    \/ HistoryPublished
    \/ PersistSnapshot
    \/ HistoryPanic

\* Storage and the indexers' nodes are outside the process; the rest is in it.
Next ==
    \/ /\ mode = "running"
       /\ \/ LiveStep
          \/ HistoryStep
          \/ \E i \in IndexSet : IndexRpc(i) \/ IndexStream(i)
          \/ /\ PublicationStep
             /\ UNCHANGED <<db, snapshot, processVars, loopVars, watchVars, historyVars>>
          \/ LiveExit
    \/ /\ OutageEnds \/ \E c \in wire : WriteCheckpoint(c)
       /\ UNCHANGED <<db, snapshot, processVars, loopVars, watchVars, historyVars>>
    \/ Crash
    \/ Restart

Spec == Init /\ [][Next]_vars

-----------------------------------------------------------------------------
(* Safety.                                                                 *)

\* The votes the live submitter is counting.
CurrentBallot == IF pc = "stream" THEN received ELSE samples

\* A process commits only an extension of what it committed, and only when the
\* histories reported by a threshold of distinct endpoints all contain it: a
\* matching later root authenticates every earlier insertion, whatever the
\* database, the cached frontiers and RPC recovery did in between.
CommitNeedsThreshold ==
    [][mode = "running" /\ mode' = "running" /\ tree'.committed # tree.committed
         => /\ IsPrefix(tree.committed, tree'.committed)
            /\ Cardinality({e \in Endpoint :
                    IsPrefix(tree'.committed, CurrentBallot[e])}) >= Required]_vars

\* Whatever one process signs, live or historical, is a prefix of the one
\* history it committed: it never signs two values for an index.
SignedInHistory == \A c \in signed : IsPrefix(c, tree.committed)

\* What relayers read: checkpoints are written once, each a value some endpoint
\* reported, across crashes, restarts without a snapshot and forks of the
\* finalized history; the latest index names a durable checkpoint, only grows,
\* and does not move once the reorg status is published.
Board ==
    INSTANCE CheckpointBoard WITH
        Value <- [i \in IndexSet |-> {c \in Reports : Index(c) = i}],
        Blank <- None, board <- stored, latest <- latestIndex, flag <- reorgFlag
ImplementsBoard == Board!Spec

\* The snapshot advances only after every checkpoint it covers is durable.
SnapshotCovered ==
    snapshot # None =>
        \A i \in 0 .. Index(snapshot) : stored[i] = CheckpointAt(snapshot, i)

\* Once the shared halt is set no worker signs, dispatches a write, or moves
\* the latest index or the snapshot, whichever worker detected the conflict.
HaltStopsPublication ==
    [][halted /\ halted' => /\ signed' = signed
                            /\ wire' \subseteq wire
                            /\ latestIndex' = latestIndex
                            /\ snapshot' = snapshot]_vars

\* The process ends by its own panic only behind both durable guards, so no
\* restart can resume signing.
ExitGuarded == mode = "exited" => tombstone /\ reorgFlag

\* Stopping the replay early loses no vote: whichever of the missing roots
\* turn out to match, the signing boundary stays where it is.
EarlyStopSound ==
    pc \in {"stream", "batch"} /\ HasThreshold(CurrentBallot)
      /\ ReplayCannotImproveVote(tree, CurrentBallot)
        => \A M \in SUBSET Missing(tree, CurrentBallot) :
             LET m == Matching(tree, CurrentBallot)
             IN  NthHighest(CurrentBallot, m \cup M, Required)
                   = NthHighest(CurrentBallot, m, Required)

\* The assertion of verified_checkpoints: the worker's tree is never ahead of
\* the target it takes, however targets coalesce.
TargetAhead == hpc = "replay" => hbase < Len(htarget) /\ Len(htree) <= Len(htarget)

-----------------------------------------------------------------------------
(* The inductive invariant behind CommitNeedsThreshold, SignedInHistory    *)
(* and TargetAhead.                                                        *)

\* All work in progress lies on the committed history.
WorkInHistory ==
    /\ \A w \in Worker : \A c \in InJob(w) : IsPrefix(c, tree.committed)
    /\ IsPrefix(watch, tree.committed)
    /\ IsPrefix(htarget, tree.committed)

\* The history worker trails its target, the target trails the channel, and
\* the channel trails a head that is being published.
HistoryTrails ==
    /\ Len(htree) <= Len(tree.committed)
    /\ Len(htarget) <= Len(watch)
    /\ pc = "publish" => /\ Len(htree) < Len(tree.committed)
                         /\ Len(watch) < Len(tree.committed)
    /\ changed => Len(htree) < Len(watch) /\ Len(htarget) < Len(watch)
    /\ hpc = "replay" => hbase <= Len(htree)

\* Without a process there is no work.
Dormant ==
    mode # "running" =>
        /\ pc = "top" /\ hpc = "wait"
        /\ watch = None /\ htarget = None /\ ~changed
        /\ \A w \in Worker : InJob(w) = {}
        /\ signed = {}

IInv ==
    /\ TypeOK
    /\ Coherent(tree)
    /\ WorkInHistory
    /\ SignedInHistory
    /\ HistoryTrails
    /\ TargetAhead
    /\ Dormant

-----------------------------------------------------------------------------
(* Beyond the guarantee of one process.                                    *)

\* No value is signed for an index at which another value was signed before,
\* by this process or by an earlier one.
NeverSignSecondValue ==
    \A c, d \in signed \cup past : Index(c) = Index(d) => c = d
=============================================================================
