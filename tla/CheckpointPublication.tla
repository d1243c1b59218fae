------------------------ MODULE CheckpointPublication ------------------------
(***************************************************************************)
(* Signing and publication of checkpoints, the part of ValidatorSubmitter  *)
(* that every submitter task runs (agents/validator/src/submit.rs:         *)
(* submit_checkpoints, sign_and_submit_checkpoint,                         *)
(* publish_latest_checkpoint_index, unless_reorg, persist_reorg_guard;     *)
(* reorg_tombstone.rs), over the checkpoint storage                        *)
(* (hyperlane-base/src/traits/checkpoint_syncer.rs and its backends).      *)
(*                                                                         *)
(* The module is open: a composing module decides when a worker starts a   *)
(* job (StartJob) and what a worker does once its guard is persisted.      *)
(* Every await is a step of its own, so storage and the other workers may  *)
(* move between the read, the signature and the write.                     *)
(***************************************************************************)
EXTENDS CheckpointTree

CONSTANTS
    Worker,               \* submitter tasks sharing the halt
    MaxIndex,             \* largest leaf index of the instance
    MaxSignConcurrency    \* checkpoints of one chunk submitted concurrently

ASSUME MaxIndexAssumption == MaxIndex \in Nat
ASSUME ConcurrencyAssumption == MaxSignConcurrency \in Nat \ {0}

IndexSet == 0 .. MaxIndex
Storable == {c \in Checkpoint : Index(c) \in IndexSet}
StorableTree == Storable \cup {None}

Stage == {"fetch", "sign", "write", "writing", "written",
          "latest", "latestWrite", "done"}
Task == [cp : Storable, stage : Stage, publish : BOOLEAN]
GuardStage == {"none", "local", "remote", "panic"}

VARIABLES
    stored,       \* checkpoint storage: own signed value per index, or None
    latestIndex,  \* published latest index, -1 when absent
    reorgFlag,    \* the reorg status object exists in checkpoint storage
    tombstone,    \* the local fail-stop file exists
    wire,         \* write requests dispatched and not yet applied
    outage,       \* calls to storage and signers may still fail
    halted,       \* the shared, irreversible reorg_halt
    guard,        \* how far each worker is in persist_reorg_guard
    queue,        \* checkpoints of the worker's job not yet in a chunk
    chunk,        \* the tasks of the worker's current chunk
    publishLatest,\* the job's first checkpoint still owns the latest index
    signed        \* values this process has signed

storageVars == <<stored, latestIndex, reorgFlag, tombstone>>
jobVars == <<queue, chunk, publishLatest>>
pubVars == <<storageVars, wire, outage, halted, guard, jobVars, signed>>

PubTypeOK ==
    /\ stored \in [IndexSet -> Storable \cup {None}]
    /\ latestIndex \in IndexSet \cup {-1}
    /\ reorgFlag \in BOOLEAN
    /\ tombstone \in BOOLEAN
    /\ wire \in SUBSET Storable
    /\ outage \in BOOLEAN
    /\ halted \in BOOLEAN
    /\ guard \in [Worker -> GuardStage]
    /\ queue \in [Worker -> SUBSET Storable]
    /\ chunk \in [Worker -> SUBSET Task]
    /\ publishLatest \in [Worker -> BOOLEAN]
    /\ signed \in SUBSET Storable

\* The volatile state of a process that has just started, or of no process.
VolatileInit ==
    /\ halted = FALSE
    /\ guard = [w \in Worker |-> "none"]
    /\ queue = [w \in Worker |-> {}]
    /\ chunk = [w \in Worker |-> {}]
    /\ publishLatest = [w \in Worker |-> FALSE]
    /\ signed = {}

VolatileReset ==
    /\ halted' = FALSE
    /\ guard' = [w \in Worker |-> "none"]
    /\ queue' = [w \in Worker |-> {}]
    /\ chunk' = [w \in Worker |-> {}]
    /\ publishLatest' = [w \in Worker |-> FALSE]
    /\ signed' = {}

PubInit ==
    /\ stored = [i \in IndexSet |-> None]
    /\ latestIndex = -1
    /\ reorgFlag = FALSE
    /\ tombstone = FALSE
    /\ wire = {}
    /\ outage = TRUE
    /\ VolatileInit

-----------------------------------------------------------------------------
(* The shared halt and the durable guard.                                  *)

\* A worker meets a conflict: reorg_halt is set before anything else.
Halt(w) ==
    /\ halted' = TRUE
    /\ guard' = [guard EXCEPT ![w] = IF @ = "none" THEN "local" ELSE @]

\* persist_reorg_guard, first loop: retried until the local file is durable.
PersistTombstone(w) ==
    /\ guard[w] = "local"
    /\ tombstone' = TRUE
    /\ guard' = [guard EXCEPT ![w] = "remote"]
    /\ UNCHANGED <<stored, latestIndex, reorgFlag, wire, outage, halted, jobVars, signed>>

\* Second loop: retried until the reorg status is in checkpoint storage.
PersistReorgStatus(w) ==
    /\ guard[w] = "remote"
    /\ reorgFlag' = TRUE
    /\ guard' = [guard EXCEPT ![w] = "panic"]
    /\ UNCHANGED <<stored, latestIndex, tombstone, wire, outage, halted, jobVars, signed>>

-----------------------------------------------------------------------------
(* Jobs: submit_checkpoints takes chunks of the highest indices.           *)

\* The checkpoints the worker's job still holds.
InJob(w) == queue[w] \cup {t.cp : t \in chunk[w]}

JobDone(w) == queue[w] = {} /\ \A t \in chunk[w] : t.stage = "done"

StartJob(w, checkpoints, publish) ==
    /\ queue' = [queue EXCEPT ![w] = checkpoints]
    /\ chunk' = [chunk EXCEPT ![w] = {}]
    /\ publishLatest' = [publishLatest EXCEPT ![w] = publish]

Above(S, c) == {d \in S : Index(d) > Index(c)}

TakeChunk(w) ==
    LET next == {c \in queue[w] : Cardinality(Above(queue[w], c)) < MaxSignConcurrency}
    IN  /\ queue[w] # {}
        /\ \A t \in chunk[w] : t.stage = "done"
        /\ queue' = [queue EXCEPT ![w] = @ \ next]
        /\ chunk' = [chunk EXCEPT ![w] =
             {[cp |-> c, stage |-> "fetch",
               publish |-> publishLatest[w] /\ Above(queue[w], c) = {}] : c \in next}]
        /\ publishLatest' = [publishLatest EXCEPT ![w] = FALSE]
        /\ UNCHANGED <<storageVars, wire, outage, halted, guard, signed>>

-----------------------------------------------------------------------------
(* One checkpoint: fetch, compare, sign, write, then the latest index.     *)

MoveTo(w, t, s) ==
    chunk' = [chunk EXCEPT ![w] = (@ \ {t}) \cup {[t EXCEPT !.stage = s]}]

\* Once durable, only the task that owns the latest index has more to do.
Durable(t) == IF t.publish THEN "latest" ELSE "done"

\* Mutation: a call is not raced against the halt.
AwaitingRegardless(w, t, s) == t \in chunk[w] /\ t.stage = s

Awaiting(w, t, s) == ~halted /\ t \in chunk[w] /\ t.stage = s

FetchAbsent(w, t) ==
    /\ Awaiting(w, t, "fetch")
    /\ stored[Index(t.cp)] = None
    /\ MoveTo(w, t, "sign")
    /\ UNCHANGED <<storageVars, wire, outage, halted, guard, queue, publishLatest, signed>>

FetchSame(w, t) ==
    /\ Awaiting(w, t, "fetch")
    /\ stored[Index(t.cp)] = t.cp
    /\ MoveTo(w, t, Durable(t))
    /\ UNCHANGED <<storageVars, wire, outage, halted, guard, queue, publishLatest, signed>>

\* Mutation: a conflicting value in storage is overwritten.
FetchConflictOverwrites(w, t) ==
    /\ Awaiting(w, t, "fetch")
    /\ stored[Index(t.cp)] \notin {None, t.cp}
    /\ MoveTo(w, t, "sign")
    /\ UNCHANGED <<storageVars, wire, outage, halted, guard, queue, publishLatest, signed>>

\* Storage returns another value this validator signed at the index: fail stop.
FetchConflict(w, t) ==
    /\ Awaiting(w, t, "fetch")
    /\ stored[Index(t.cp)] \notin {None, t.cp}
    /\ Halt(w)
    /\ UNCHANGED <<storageVars, wire, outage, jobVars, signed>>

Sign(w, t) ==
    /\ Awaiting(w, t, "sign")
    /\ signed' = signed \cup {t.cp}
    /\ MoveTo(w, t, "write")
    /\ UNCHANGED <<storageVars, wire, outage, halted, guard, queue, publishLatest>>

\* Mutation: the write is not awaited.
DispatchWriteOnly(w, t) ==
    /\ Awaiting(w, t, "write")
    /\ wire' = wire \cup {t.cp}
    /\ MoveTo(w, t, Durable(t))
    /\ UNCHANGED <<outage, storageVars, halted, guard, queue, publishLatest, signed>>

DispatchWrite(w, t) ==
    /\ Awaiting(w, t, "write")
    /\ wire' = wire \cup {t.cp}
    /\ MoveTo(w, t, "writing")
    /\ UNCHANGED <<outage, storageVars, halted, guard, queue, publishLatest, signed>>

\* Storage applies a dispatched request, whether or not its sender still waits.
WriteCheckpoint(c) ==
    /\ c \in wire
    /\ wire' = wire \ {c}
    /\ stored' = [stored EXCEPT ![Index(c)] = c]
    /\ chunk' = [w \in Worker |->
         {IF t.cp = c /\ t.stage = "writing" THEN [t EXCEPT !.stage = "written"] ELSE t
            : t \in chunk[w]}]
    /\ UNCHANGED <<outage, latestIndex, reorgFlag, tombstone, halted, guard, queue,
                   publishLatest, signed>>

WriteAcknowledged(w, t) ==
    /\ Awaiting(w, t, "written")
    /\ MoveTo(w, t, Durable(t))
    /\ UNCHANGED <<storageVars, wire, outage, halted, guard, queue, publishLatest, signed>>

\* An error of a signer or of storage: call_and_retry_indefinitely starts over.
RetrySubmission(w, t) ==
    /\ outage
    /\ \E s \in {"sign", "write", "writing", "written"} : Awaiting(w, t, s)
    /\ MoveTo(w, t, "fetch")
    /\ UNCHANGED <<storageVars, wire, outage, halted, guard, queue, publishLatest, signed>>

\* update_latest_index reads, and writes only a higher index.
ReadLatestIndex(w, t) ==
    /\ Awaiting(w, t, "latest")
    /\ MoveTo(w, t, IF Index(t.cp) > latestIndex THEN "latestWrite" ELSE "done")
    /\ UNCHANGED <<storageVars, wire, outage, halted, guard, queue, publishLatest, signed>>

WriteLatestIndex(w, t) ==
    /\ Awaiting(w, t, "latestWrite")
    /\ latestIndex' = Index(t.cp)
    /\ MoveTo(w, t, "done")
    /\ UNCHANGED <<stored, reorgFlag, tombstone, wire, outage, halted, guard, queue,
                   publishLatest, signed>>

RetryLatestIndex(w, t) ==
    /\ outage
    /\ Awaiting(w, t, "latestWrite")
    /\ MoveTo(w, t, "latest")
    /\ UNCHANGED <<storageVars, wire, outage, halted, guard, queue, publishLatest, signed>>

\* Failures may go on for as long as the outage lasts.
OutageEnds ==
    /\ outage
    /\ outage' = FALSE
    /\ UNCHANGED <<storageVars, wire, halted, guard, jobVars, signed>>

TaskStep(w, t) ==
    \/ FetchAbsent(w, t)
    \/ FetchSame(w, t)
    \/ FetchConflict(w, t)
    \/ Sign(w, t)
    \/ DispatchWrite(w, t)
    \/ WriteAcknowledged(w, t)
    \/ RetrySubmission(w, t)
    \/ ReadLatestIndex(w, t)
    \/ WriteLatestIndex(w, t)
    \/ RetryLatestIndex(w, t)

PublicationStep ==
    \E w \in Worker :
        \/ TakeChunk(w)
        \/ PersistTombstone(w)
        \/ PersistReorgStatus(w)
        \/ \E t \in chunk[w] : TaskStep(w, t)
=============================================================================
