--------------------------- MODULE ClassicValidator ---------------------------
(***************************************************************************)
(* A validator that reads one RPC connection (agents/validator/src/        *)
(* submit.rs, checkpoint_submitter and backfill_checkpoint_submitter;      *)
(* validator.rs, run): the tip submitter starts at the tree the chain      *)
(* reports and follows its latest checkpoint; the backfill submitter       *)
(* publishes everything below, from the restored snapshot up, and then     *)
(* writes the snapshot.  Both tasks verify what they replay from the       *)
(* database against a reported root before they sign any of it.            *)
(***************************************************************************)
EXTENDS InsertionIndex

CONSTANTS
    RpcRecovery,    \* websocket indexing with an RPC fallback
    MaxCrashes      \* bound on the number of crashes

ASSUME RecoveryAssumption == RpcRecovery \in BOOLEAN
ASSUME CrashAssumption == MaxCrashes \in Nat
ASSUME WorkerAssumption == Worker = {"tip", "backfill"}

VARIABLES
    mode,      \* "stopped", "running", or "exited" after a task's panic
    crashes,   \* crashes so far
    wpc,       \* where each submitter is
    wtree,     \* each submitter's tree
    wbase,     \* its leaf count when it took its target: the verified tree
    wtarget    \* the correctness checkpoint it verifies against

workVars == <<wpc, wtree, wbase, wtarget>>
vars == <<pubVars, db, snapshot, mode, crashes, workVars>>

WorkPc == {"read", "replay", "submit", "snapshot", "halt", "done"}

\* Every variable has its type, and no tree outgrows the indices it may hold.
TypeOK ==
    /\ PubTypeOK
    /\ db \in [IndexSet -> Leaf \cup {NoLeaf}]
    /\ snapshot \in StorableTree
    /\ mode \in {"stopped", "running", "exited"}
    /\ crashes \in 0 .. MaxCrashes
    /\ wpc \in [Worker -> WorkPc]
    /\ wtree \in [Worker -> StorableTree]
    /\ wbase \in [Worker -> 0 .. MaxIndex + 1]
    /\ wtarget \in [Worker -> StorableTree]

-----------------------------------------------------------------------------
(* Process start, crash and exit.                                          *)

Init ==
    /\ PubInit
    /\ db = [i \in IndexSet |-> NoLeaf]
    /\ snapshot = None
    /\ mode = "stopped"
    /\ crashes = 0
    /\ wpc = [w \in Worker |-> "done"]
    /\ wtree = [w \in Worker |-> None]
    /\ wbase = [w \in Worker |-> 0]
    /\ wtarget = [w \in Worker |-> None]

\* run: past both guards, read the tip's tree, then restore a snapshot that is
\* not ahead of it, then spawn both submitters.
Start ==
    /\ mode # "running"
    /\ ~tombstone
    /\ ~reorgFlag
    /\ mode' = "running"
    /\ \E tip \in Reports, old \in RestoredTrees :
         /\ Len(old) <= Len(tip)
         /\ wtree' = [w \in Worker |-> IF w = "tip" THEN tip ELSE old]
         /\ wbase' = [w \in Worker |-> IF w = "tip" THEN Len(tip) ELSE Len(old)]
         /\ wtarget' = [w \in Worker |-> tip]
         /\ wpc' = [w \in Worker |-> IF w = "tip" THEN "read" ELSE "replay"]
    /\ UNCHANGED <<pubVars, db, snapshot, crashes>>

Stop ==
    /\ VolatileReset
    /\ wpc' = [w \in Worker |-> "done"]
    /\ wtree' = [w \in Worker |-> None]
    /\ wbase' = [w \in Worker |-> 0]
    /\ wtarget' = [w \in Worker |-> None]
    /\ UNCHANGED <<storageVars, outage, db, snapshot>>

Crash ==
    /\ mode = "running"
    /\ crashes < MaxCrashes
    /\ crashes' = crashes + 1
    /\ mode' = "stopped"
    /\ wire' = {}
    /\ Stop

\* Mutation: only the tip submitter is joined.
ExitOfTip ==
    /\ guard["tip"] = "panic"
    /\ mode' = "exited"
    /\ UNCHANGED <<crashes, wire>>
    /\ Stop

\* Either task's panic fails try_join_all and ends the process.
Exit ==
    /\ \E w \in Worker : guard[w] = "panic"
    /\ mode' = "exited"
    /\ UNCHANGED <<crashes, wire>>
    /\ Stop

-----------------------------------------------------------------------------
(* Indexing: a later report of a row replaces it.                          *)

IndexInsertion(i) ==
    /\ \E leaf \in LeavesAt(i) : db' = [db EXCEPT ![i] = leaf]
    /\ UNCHANGED <<pubVars, snapshot, mode, crashes, workVars>>

-----------------------------------------------------------------------------
(* The submitters.                                                         *)

\* The tip's next correctness checkpoint; one behind the tree is ignored.
ReadCheckpoint ==
    /\ wpc["tip"] = "read"
    /\ \E c \in Reports :
         /\ ~TreeExceedsCheckpoint(c, wtree["tip"])
         /\ wtarget' = [wtarget EXCEPT !["tip"] = c]
    /\ wbase' = [wbase EXCEPT !["tip"] = Len(wtree["tip"])]
    /\ wpc' = [wpc EXCEPT !["tip"] = "replay"]
    /\ UNCHANGED <<pubVars, db, snapshot, mode, crashes, wtree>>

IngestLeaf(w) ==
    LET i == Len(wtree[w])
    IN  /\ wpc[w] = "replay"
        /\ i <= Index(wtarget[w])
        /\ db[i] # NoLeaf
        /\ wtree' = [wtree EXCEPT ![w] = Append(@, db[i])]
        /\ UNCHANGED <<pubVars, db, snapshot, mode, crashes, wpc, wbase, wtarget>>

Replayed(w) == wpc[w] = "replay" /\ Len(wtree[w]) > Index(wtarget[w])

\* Mutation: an off-by-one takes the tree the replay began with.
PublishFromBase(w, t) ==
    /\ wtree' = [wtree EXCEPT ![w] = t]
    /\ wpc' = [wpc EXCEPT ![w] = "submit"]
    /\ StartJob(w, {CheckpointAt(t, i) : i \in wbase[w] - 1 .. Index(t)}, TRUE)
    /\ UNCHANGED <<storageVars, wire, outage, halted, guard, signed, snapshot, mode,
                   crashes, wbase, wtarget>>

\* sign_and_submit_checkpoints: the target included, and its latest index.
PublishVerified(w, t) ==
    /\ wtree' = [wtree EXCEPT ![w] = t]
    /\ wpc' = [wpc EXCEPT ![w] = "submit"]
    /\ StartJob(w, {CheckpointAt(t, i) : i \in wbase[w] .. Index(t)}, TRUE)
    /\ UNCHANGED <<storageVars, wire, outage, halted, guard, signed, snapshot, mode,
                   crashes, wbase, wtarget>>

\* Mutation: the replayed root is not compared with the target.
Unverified(w) ==
    /\ Replayed(w)
    /\ PublishVerified(w, wtree[w])
    /\ UNCHANGED db

Verified(w) ==
    /\ Replayed(w)
    /\ wtree[w] = wtarget[w]
    /\ PublishVerified(w, wtree[w])
    /\ UNCHANGED db

HaltWorker(w) ==
    /\ Halt(w)
    /\ wpc' = [wpc EXCEPT ![w] = "halt"]
    /\ UNCHANGED <<storageVars, wire, outage, jobVars, signed, db, snapshot, mode, crashes,
                   wtree, wbase, wtarget>>

\* The replayed rows miss the target: fetch them again if there is a fallback
\* and something was replayed; a lasting disagreement halts.
Mismatch(w) ==
    /\ Replayed(w)
    /\ wtree[w] # wtarget[w]
    /\ IF ~RpcRecovery \/ Len(wtree[w]) = wbase[w]
       THEN HaltWorker(w)
       ELSE \E leaves \in Fetched(wbase[w], Len(wtarget[w]) - wbase[w]) :
              LET t == SubSeq(wtree[w], 1, wbase[w]) \o leaves
              IN  \/ /\ t = wtarget[w]
                     /\ db' = StoreInsertions(wbase[w], leaves)
                     /\ PublishVerified(w, t)
                  \/ /\ t # wtarget[w]
                     /\ HaltWorker(w)

\* Mutation: the snapshot does not wait for the uploads.
NotPublished(w) ==
    /\ wpc[w] = "submit"
    /\ wpc' = [wpc EXCEPT ![w] = IF w = "tip" THEN "read" ELSE "snapshot"]
    /\ UNCHANGED <<pubVars, db, snapshot, mode, crashes, wtree, wbase, wtarget>>

Published(w) ==
    /\ wpc[w] = "submit"
    /\ JobDone(w)
    /\ wpc' = [wpc EXCEPT ![w] = IF w = "tip" THEN "read" ELSE "snapshot"]
    /\ UNCHANGED <<pubVars, db, snapshot, mode, crashes, wtree, wbase, wtarget>>

\* The write is best effort, and no longer made once halted.
PersistSnapshot ==
    /\ wpc["backfill"] = "snapshot"
    /\ ~halted
    /\ snapshot' \in {snapshot, wtree["backfill"]}
    /\ wpc' = [wpc EXCEPT !["backfill"] = "done"]
    /\ UNCHANGED <<pubVars, db, mode, crashes, wtree, wbase, wtarget>>

Elsewhere == <<db, snapshot, mode, crashes, workVars>>

Next ==
    \/ /\ mode = "running"
       /\ \/ ReadCheckpoint
          \/ PersistSnapshot
          \/ \E i \in IndexSet : IndexInsertion(i)
          \/ \E w \in Worker : IngestLeaf(w) \/ Verified(w) \/ Mismatch(w) \/ Published(w)
          \/ PublicationStep /\ UNCHANGED Elsewhere
          \/ Exit
    \/ /\ OutageEnds \/ \E c \in wire : WriteCheckpoint(c)
       /\ UNCHANGED Elsewhere
    \/ Crash
    \/ Start

Spec == Init /\ [][Next]_vars

\* The runtime polls a halted worker's guard writes, which are retried until
\* they succeed, and the joined tasks.
FairSpec ==
    /\ Spec
    /\ WF_vars(mode = "running" /\ Exit)
    /\ \A w \in Worker :
         WF_vars(/\ mode = "running"
                 /\ PersistTombstone(w) \/ PersistReorgStatus(w)
                 /\ UNCHANGED Elsewhere)

-----------------------------------------------------------------------------
(* Properties.                                                             *)

\* The tip and the backfill submitter of one process sign one history, though
\* each verifies its own replay against its own reading of the chain.
OneHistory ==
    \A c, d \in signed : IsPrefix(c, d) \/ IsPrefix(d, c)

\* A published checkpoint is never replaced by another value, whichever task
\* publishes the index and whatever an earlier process published.
PublishedImmutable ==
    [][\A i \in IndexSet : stored[i] # None => stored'[i] = stored[i]]_vars

\* The snapshot, restored only below the tip, covers durable checkpoints only.
SnapshotCovered ==
    snapshot # None =>
        \A i \in 0 .. Index(snapshot) : stored[i] = CheckpointAt(snapshot, i)

\* Whoever publishes the latest index, the checkpoint it names is durable.
LatestIndexStored == latestIndex # -1 => stored[latestIndex] # None

\* A halt ends the process: a panic of either joined task does.
HaltTerminates == halted ~> mode # "running"
=============================================================================
