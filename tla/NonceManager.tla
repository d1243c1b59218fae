---------------------------- MODULE NonceManager ----------------------------
(***************************************************************************)
(* The nonces of one Ethereum account in the lander, the part of the       *)
(* agents that submits transactions.  The inclusion stage asks for a nonce *)
(* each time it submits a transaction; the finality stage, the reprocess   *)
(* task and the inclusion stage move the boundaries to what the chain      *)
(* reports; an operator may lower the upper nonce.  All state is in        *)
(* RocksDB, one key at a time, and a crash may fall between two writes.    *)
(*                                                                         *)
(* boundary_update_lock serializes assignments and boundary updates, but   *)
(* not the operator's overwrite.                                           *)
(***************************************************************************)
EXTENDS Integers, FiniteSets

CONSTANTS Tx,             \* transactions
          NoTx,           \* TransactionUuid::default()
          MaxNonce,       \* bound: nonces 0..MaxNonce
          MaxFaults       \* bound: nonces a reorg takes back, errors, overwrites
                          \*   of the upper nonce and crashes, together

ASSUME TxAssumption == NoTx \notin Tx
ASSUME BoundsAssumption == MaxNonce \in Nat /\ MaxFaults \in Nat

None == -1                    \* no nonce; U256::MAX in nonceOf
Nonce == 0..MaxNonce
NoRange == [start |-> 0, end |-> None]

VARIABLES
  chainNext,   \* get_next_nonce_on_finalized_block: transactions finalized
  finalized,   \* finalized_nonce_by_signer_address, None when absent
  upper,       \* upper_nonce_by_signer_address
  range,       \* reorged_nonce_range_by_signer_address
  txOf,        \* transaction_uuid_by_nonce_and_signer_address
  nonceOf,     \* evm_nonce_by_transaction_uuid
  status,      \* of the stored transactions
  pool,        \* the inclusion stage's transactions, at first all: it may take
               \*   one up long after it was built
  finality,    \* the finality stage's
  lock,        \* boundary_update_lock: "free", "update" or "assign"
  update,      \* the boundary update in progress: [pc, seen]
  job,         \* the submission in progress: [pc, tx, nonce], the old nonce
               \*   until it is unlinked, the new one until it is stored
  overwrite,   \* the operator's command in progress: [pc, desired, top, tx]
  faults,      \* so far
  \* history: the highest nonce ever stored as finalized, and whether all went
  \* well: nothing cut into an overwrite, no crash or error fell between the
  \* writes that link or unlink a transaction and its nonce, no error between
  \* those of the boundaries, and no dropped transaction was processed again
  high, clean

boundaries == <<finalized, upper, range, high>>
links == <<txOf, nonceOf>>
stages == <<status, pool, finality>>
vars == <<chainNext, boundaries, links, stages, lock, update, job, overwrite, faults, clean>>

NoUpdate == [pc |-> "idle", seen |-> None]
Due == [NoUpdate EXCEPT !.pc = "due"]     \* none since the start
NoJob == [pc |-> "idle", tx |-> NoTx, nonce |-> None]
JobAt(pc, nonce) == [pc |-> pc, tx |-> job.tx, nonce |-> nonce]
NoOverwrite == [pc |-> "idle", desired |-> 0, top |-> 0, tx |-> NoTx]

\* NonceStatus::calculate_nonce_status: Freed when dropped; Taken until
\* finalized.
Freed(t) == status[t] = "Dropped"
Taken(t) == status[t] \in {"Pending", "Included"}

Init ==
  /\ chainNext = 0 /\ faults = 0
  /\ finalized = None /\ upper = 0 /\ range = NoRange /\ high = None
  /\ txOf = [n \in Nonce |-> NoTx] /\ nonceOf = [t \in Tx |-> None]
  /\ status = [t \in Tx |-> "Pending"] /\ pool = Tx /\ finality = {}
  /\ lock = "free" /\ update = Due /\ job = NoJob /\ overwrite = NoOverwrite
  /\ clean = TRUE

-----------------------------------------------------------------------------
(* The chain: any service may use the account, and a reorg may reach below *)
(* what was called finalized.                                              *)

ChainFinalizes ==
  /\ chainNext <= MaxNonce
  /\ chainNext' = chainNext + 1
  /\ UNCHANGED <<boundaries, links, stages, lock, update, job, overwrite, faults, clean>>

ChainReorgs ==
  /\ chainNext > 0 /\ faults < MaxFaults
  /\ chainNext' = chainNext - 1 /\ faults' = faults + 1
  /\ UNCHANGED <<boundaries, links, stages, lock, update, job, overwrite, clean>>

-----------------------------------------------------------------------------
(* NonceUpdater.update_boundaries, one at a time.  It does nothing when    *)
(* the last update is younger than a block, but the first one after a      *)
(* start always reads the chain.                                           *)

\* Who takes the lock while an overwrite goes on works on what it changes.
TakeLock(holder) ==
  /\ lock = "free" /\ lock' = holder
  /\ clean' = (clean /\ overwrite.pc = "idle")

\* Mutation: the count of nonces used is taken for the last one.
FinalizedCount == chainNext

LastFinalized == chainNext - 1

ReadChain ==
  /\ update.pc \in {"due", "idle"}
  /\ update' = [update EXCEPT !.pc = "record", !.seen = LastFinalized]
  /\ UNCHANGED <<chainNext, boundaries, links, stages, lock, job, overwrite, faults, clean>>

\* Mutation: the earlier range is replaced, not extended.
LatestRange(old, seen) == [start |-> seen + 1, end |-> old]

\* The nonces that were finalized and are not any more, and the ones of an
\* earlier regression that has not been made good.
MergedRange(old, seen) ==
  [start |-> IF range # NoRange /\ range.start < seen + 1 THEN range.start ELSE seen + 1,
   end   |-> IF range.end > old THEN range.end ELSE old]

RecordRegression ==
  /\ update.pc = "record" /\ TakeLock("update")
  /\ range' = IF update.seen < finalized THEN MergedRange(finalized, update.seen) ELSE range
  /\ update' = [update EXCEPT !.pc = "finalized"]
  /\ UNCHANGED <<chainNext, finalized, upper, high, links, stages, job, overwrite, faults>>

StoreFinalized ==
  /\ update.pc = "finalized"
  /\ finalized' = update.seen
  /\ high' = IF update.seen > high THEN update.seen ELSE high
  /\ update' = [update EXCEPT !.pc = "upper"]
  /\ UNCHANGED <<chainNext, upper, range, links, stages, lock, job, overwrite, faults, clean>>

nonce_available(n) == txOf[n] = NoTx \/ Freed(txOf[n])

\* Mutation: down to the lowest available nonce.
TrimmedToFree(floor, top) ==
  CHOOSE n \in floor..top :
    /\ n = top \/ nonce_available(n)
    /\ \A m \in floor..(n - 1) : ~nonce_available(m)

\* trim_freed_upper_nonces: down to the lowest nonce above which all are
\* available.
Trimmed(floor, top) ==
  CHOOSE n \in floor..top :
    /\ \A m \in n..(top - 1) : nonce_available(m)
    /\ n = floor \/ ~nonce_available(n - 1)

Recovered == range # NoRange /\ update.seen >= range.end

\* Raised when another service has used the nonces up to here, then trimmed.
SetUpper ==
  /\ update.pc = "upper"
  /\ upper' = Trimmed(update.seen + 1, IF update.seen >= upper THEN update.seen + 1 ELSE upper)
  /\ update' = IF Recovered THEN [update EXCEPT !.pc = "clear"] ELSE NoUpdate
  /\ lock' = IF Recovered THEN lock ELSE "free"
  /\ UNCHANGED <<chainNext, finalized, range, high, links, stages, job, overwrite, faults, clean>>

ClearRange ==
  /\ update.pc = "clear"
  /\ range' = NoRange /\ update' = NoUpdate /\ lock' = "free"
  /\ UNCHANGED <<chainNext, finalized, upper, high, links, stages, job, overwrite, faults, clean>>

\* A database error ends it where it is; the next request starts another, but
\* an assignment that waits for the lock sees the boundaries as they are.
UpdateFails ==
  /\ update.pc \notin {"due", "idle"} /\ faults < MaxFaults
  /\ update' = Due /\ lock' = (IF lock = "update" THEN "free" ELSE lock)
  /\ faults' = faults + 1 /\ clean' = (clean /\ update.pc # "upper")
  /\ UNCHANGED <<chainNext, boundaries, links, stages, job, overwrite>>

-----------------------------------------------------------------------------
(* The stages, as far as they store statuses and ask for nonces.           *)

\* Its nonce is used on the chain, which does not say by whom.
MayBeOnChain(t) == nonceOf[t] # None /\ nonceOf[t] < chainNext

\* InclusionStage::try_process_tx_with_next_status.  Pending: submit again, if
\* it is ready for that.
Pending(t) ==
  /\ job.pc = "idle" /\ t \in pool
  /\ status' = [status EXCEPT ![t] = "Pending"]
  /\ job' \in {NoJob, [NoJob EXCEPT !.pc = "validate", !.tx = t]}
  /\ clean' = (clean /\ ~Freed(t))
  /\ UNCHANGED <<chainNext, boundaries, links, pool, finality, lock, update, overwrite, faults>>

Included(t) ==
  /\ job.pc = "idle" /\ t \in pool /\ nonceOf[t] # None
  /\ \E s \in {"Included"} \cup (IF MayBeOnChain(t) THEN {"Finalized"} ELSE {}) :
       status' = [status EXCEPT ![t] = s]
  /\ pool' = pool \ {t} /\ finality' = finality \cup {t}
  /\ clean' = (clean /\ ~Freed(t))
  /\ UNCHANGED <<chainNext, boundaries, links, lock, update, job, overwrite, faults>>

\* A failing simulation, estimate or submission, or a dropped status.
DropPending(t) ==
  /\ t \in pool /\ (job.pc = "idle" \/ (job.pc = "send" /\ job.tx = t))
  /\ status' = [status EXCEPT ![t] = "Dropped"] /\ pool' = pool \ {t} /\ job' = NoJob
  /\ UNCHANGED <<chainNext, boundaries, links, finality, lock, update, overwrite, faults, clean>>

\* FinalityStage::try_process_tx_with_next_status.
Finalize(t) ==
  /\ t \in finality /\ (MayBeOnChain(t) \/ status[t] = "Finalized")
  /\ status' = [status EXCEPT ![t] = "Finalized"] /\ finality' = finality \ {t}
  /\ clean' = (clean /\ ~Freed(t))
  /\ UNCHANGED <<chainNext, boundaries, links, pool, lock, update, job, overwrite, faults>>

DropIncluded(t) ==
  /\ t \in finality /\ status[t] # "Finalized"
  /\ status' = [status EXCEPT ![t] = "Dropped"] /\ finality' = finality \ {t}
  /\ UNCHANGED <<chainNext, boundaries, links, pool, lock, update, job, overwrite, faults, clean>>

\* get_reprocess_txs and the insertion into the pool: whatever their status.
Reprocess ==
  /\ update.pc = "idle" /\ lock = "free"
  /\ pool' = pool \cup ({txOf[n] : n \in range.start..range.end} \ {NoTx})
  /\ pool' # pool
  /\ UNCHANGED <<chainNext, boundaries, links, status, finality, lock, update, job, overwrite,
                 faults, clean>>

-----------------------------------------------------------------------------
(* NonceManager.calculate_next_nonce                                       *)

\* validate_assigned_nonce: the stored nonce is still good.  The status it
\* looks at is that of the copy being submitted, always pending.
KeepsNonce(t) == nonceOf[t] # None /\ nonceOf[t] > finalized

\* After update_boundaries, which waits for an update in progress.
Validate ==
  /\ job.pc = "validate" /\ update.pc = "idle"
  /\ job' = IF KeepsNonce(job.tx)
            THEN JobAt("send", None)
            ELSE JobAt("lock", nonceOf[job.tx])
  /\ UNCHANGED <<chainNext, boundaries, links, stages, lock, update, overwrite, faults, clean>>

\* Mutation: the old nonce stays this transaction's.
AssignOver ==
  /\ job.pc = "lock" /\ TakeLock("assign")
  /\ job' = JobAt("pick", None)
  /\ UNCHANGED <<chainNext, boundaries, links, stages, update, overwrite, faults>>

\* assign_next_nonce.  Unlinks the old nonce if it is still this transaction's.
AssignNext ==
  /\ job.pc = "lock" /\ TakeLock("assign")
  /\ \/ /\ job.nonce # None /\ txOf[job.nonce] = job.tx
        /\ txOf' = [txOf EXCEPT ![job.nonce] = NoTx]
        /\ job' = JobAt("unlink", None)
     \/ /\ job.nonce # None => txOf[job.nonce] # job.tx
        /\ job' = JobAt("pick", None)
        /\ UNCHANGED txOf
  /\ UNCHANGED <<chainNext, boundaries, nonceOf, stages, update, overwrite, faults>>

\* Mutation: the transaction keeps its old nonce until it has a new one.
UnlinkUuidOnly ==
  /\ job.pc = "unlink"
  /\ job' = JobAt("pick", None)
  /\ UNCHANGED <<chainNext, boundaries, links, stages, lock, update, overwrite, faults, clean>>

Unlink ==
  /\ job.pc = "unlink"
  /\ nonceOf' = [nonceOf EXCEPT ![job.tx] = None]
  /\ job' = JobAt("pick", None)
  /\ UNCHANGED <<chainNext, boundaries, txOf, stages, lock, update, overwrite, faults, clean>>

\* identify_next_nonce: the first available one above the finalized nonce, at
\* the latest the upper nonce itself.
Next_nonce ==
  LET free == {n \in (finalized + 1)..(upper - 1) : nonce_available(n)}
  IN  IF free # {} THEN CHOOSE n \in free : \A m \in free : n <= m
      ELSE IF finalized + 1 > upper THEN finalized + 1 ELSE upper

Pick ==
  /\ job.pc = "pick" /\ Next_nonce <= MaxNonce
  /\ upper' = IF Next_nonce = upper THEN Next_nonce + 1 ELSE upper
  /\ job' = JobAt("link", Next_nonce)
  /\ UNCHANGED <<chainNext, finalized, range, high, links, stages, lock, update, overwrite, faults,
                 clean>>

\* set_tracked_tx_uuid: two writes.
Link ==
  /\ job.pc = "link"
  /\ txOf' = [txOf EXCEPT ![job.nonce] = job.tx]
  /\ job' = JobAt("note", job.nonce)
  /\ UNCHANGED <<chainNext, boundaries, nonceOf, stages, lock, update, overwrite, faults, clean>>

Note ==
  /\ job.pc = "note"
  /\ nonceOf' = [nonceOf EXCEPT ![job.tx] = job.nonce]
  /\ lock' = "free"
  /\ job' = JobAt("send", None)
  /\ UNCHANGED <<chainNext, boundaries, txOf, stages, update, overwrite, faults, clean>>

\* What ends between the two writes of a link leaves the first.
HalfLinked == job.pc \in {"unlink", "note"}

\* A database or chain error in calculate_next_nonce drops the transaction; so
\* does, in the model, the bound on nonces.
NonceFails ==
  /\ \/ job.pc \notin {"idle", "send"} /\ faults < MaxFaults /\ faults' = faults + 1
     \/ job.pc = "pick" /\ Next_nonce > MaxNonce /\ UNCHANGED faults
  /\ status' = [status EXCEPT ![job.tx] = "Dropped"] /\ pool' = pool \ {job.tx}
  /\ lock' = IF lock = "assign" THEN "free" ELSE lock
  /\ job' = NoJob /\ clean' = (clean /\ ~HalfLinked)
  /\ UNCHANGED <<chainNext, boundaries, links, finality, update, overwrite>>

\* The node has accepted the transaction, or says it has one with the nonce.
Sent ==
  /\ job.pc = "send"
  /\ job' = NoJob /\ pool' = pool \cup {job.tx}
  /\ status' = [status EXCEPT ![job.tx] = "Pending"] /\ clean' = (clean /\ ~Freed(job.tx))
  /\ UNCHANGED <<chainNext, boundaries, links, finality, lock, update, overwrite, faults>>

\* A retryable error: adapter.submit is called again.
Retry ==
  /\ job.pc = "send"
  /\ job' = JobAt("validate", None)
  /\ UNCHANGED <<chainNext, boundaries, links, stages, lock, update, overwrite, faults, clean>>

-----------------------------------------------------------------------------
(* overwrite_upper_nonce, which does not take the lock.  Without a desired *)
(* nonce it is finalized + 1.                                              *)

Overwrite(desired) ==
  /\ overwrite.pc = "idle" /\ faults < MaxFaults
  /\ desired < upper /\ desired > finalized
  /\ overwrite' = [pc |-> "upper", desired |-> desired, top |-> upper, tx |-> NoTx]
  /\ faults' = faults + 1
  /\ clean' = (clean /\ lock = "free")
  /\ UNCHANGED <<chainNext, boundaries, links, stages, lock, update, job>>

OverwriteUpper ==
  /\ overwrite.pc = "upper"
  /\ upper' = overwrite.desired
  /\ overwrite' = [overwrite EXCEPT !.pc = "clear"]
  /\ UNCHANGED <<chainNext, finalized, range, high, links, stages, lock, update, job, faults,
                 clean>>

Tracked == {n \in overwrite.desired..(overwrite.top - 1) : txOf[n] # NoTx}

\* The next tracked nonce is cleared, then its transaction's.
ClearNonce ==
  /\ overwrite.pc = "clear" /\ Tracked # {}
  /\ \E n \in Tracked :
       /\ \A m \in Tracked : n <= m
       /\ txOf' = [txOf EXCEPT ![n] = NoTx]
       /\ overwrite' = [overwrite EXCEPT !.pc = "forget", !.desired = n + 1, !.tx = txOf[n]]
  /\ UNCHANGED <<chainNext, boundaries, nonceOf, stages, lock, update, job, faults, clean>>

ForgetNonce ==
  /\ overwrite.pc = "forget"
  /\ nonceOf' = [nonceOf EXCEPT ![overwrite.tx] = None]
  /\ overwrite' = [overwrite EXCEPT !.pc = "clear"]
  /\ UNCHANGED <<chainNext, boundaries, txOf, stages, lock, update, job, faults, clean>>

OverwriteEnds ==
  /\ overwrite.pc = "clear" /\ Tracked = {}
  /\ overwrite' = NoOverwrite
  /\ UNCHANGED <<chainNext, boundaries, links, stages, lock, update, job, faults,
                 clean>>

\* Nonces that an error or a crash leaves above the upper nonce.
HalfCleared == overwrite.pc \in {"clear", "forget"}

OverwriteFails ==
  /\ overwrite.pc # "idle" /\ faults < MaxFaults
  /\ overwrite' = NoOverwrite /\ faults' = faults + 1
  /\ clean' = (clean /\ ~HalfCleared)
  /\ UNCHANGED <<chainNext, boundaries, links, stages, lock, update, job>>

-----------------------------------------------------------------------------
\* The process restarts; TransactionDbLoader.load.
Crash ==
  /\ faults < MaxFaults /\ faults' = faults + 1
  /\ pool' = {t \in Tx : status[t] = "Pending"}
  /\ finality' = {t \in Tx : status[t] = "Included"}
  /\ lock' = "free"
  /\ update' = Due /\ job' = NoJob /\ overwrite' = NoOverwrite
  /\ clean' = (clean /\ ~HalfLinked /\ ~HalfCleared)
  /\ UNCHANGED <<chainNext, boundaries, links, status>>

Boundaries == ReadChain \/ RecordRegression \/ StoreFinalized \/ SetUpper \/ ClearRange
              \/ UpdateFails
Stages == \/ \E t \in Tx : Pending(t) \/ Included(t) \/ DropPending(t)
                           \/ Finalize(t) \/ DropIncluded(t)
          \/ Reprocess
Submission == Validate \/ AssignNext \/ Unlink \/ Pick \/ Link \/ Note \/ NonceFails \/ Sent
              \/ Retry
Operator == \/ \E n \in Nonce : Overwrite(n)
            \/ OverwriteUpper \/ ClearNonce \/ ForgetNonce \/ OverwriteEnds \/ OverwriteFails

Next == ChainFinalizes \/ ChainReorgs \/ Boundaries \/ Stages \/ Submission \/ Operator \/ Crash

Spec == Init /\ [][Next]_vars

-----------------------------------------------------------------------------
Updates == [pc : {"due", "idle", "record", "finalized", "upper", "clear"}, seen : None..MaxNonce]
Jobs == [pc : {"idle", "validate", "lock", "unlink", "pick", "link", "note", "send"},
         tx : Tx \cup {NoTx}, nonce : None..MaxNonce]
Commands == [pc : {"idle", "upper", "clear", "forget"}, desired : 0..(MaxNonce + 1),
             top : 0..(MaxNonce + 1), tx : Tx \cup {NoTx}]

TypeOK ==
  /\ chainNext \in 0..(MaxNonce + 1) /\ faults \in 0..MaxFaults
  /\ finalized \in None..MaxNonce /\ upper \in 0..(MaxNonce + 1) /\ high \in None..MaxNonce
  /\ range \in [start : 0..(MaxNonce + 1), end : None..MaxNonce]
  /\ txOf \in [Nonce -> Tx \cup {NoTx}] /\ nonceOf \in [Tx -> None..MaxNonce]
  /\ status \in [Tx -> {"Pending", "Included", "Finalized", "Dropped"}]
  /\ pool \subseteq Tx /\ finality \subseteq Tx
  /\ lock \in {"free", "update", "assign"} /\ clean \in BOOLEAN
  /\ update \in Updates /\ job \in Jobs /\ overwrite \in Commands

\* "A crash between those writes can cause duplicate reprocessing, but cannot
\* lose a regression": every nonce that was once stored as finalized and is
\* not any more is in the range whose transactions are reprocessed
\* (update_boundary_nonces_from_chain).
RegressionCovered ==
  \A n \in (finalized + 1)..high : n \in range.start..range.end

\* "The upper boundary tracks the highest nonce still held by a non-Freed
\* transaction" (trim_freed_upper_nonces): it is above every nonce held, once
\* an overwrite has ended, if none of the mishaps of clean has happened.
\* assign_next_nonce takes the upper nonce without a look at who holds it.
HeldBelowUpper ==
  clean /\ overwrite.pc = "idle" =>
    \A n \in Nonce : ~nonce_available(n) => n < upper

\* Two transactions that wait for the chain never have the same nonce, short
\* of those mishaps (assign_next_nonce, validate_assigned_nonce): the node would
\* take one for a replacement of the other.
NoSharedNonce ==
  clean =>
    \A t, u \in Tx : t # u /\ Taken(t) /\ Taken(u) /\ nonceOf[t] # None =>
      nonceOf[t] # nonceOf[u]

\* A nonce above the finalized one that a waiting transaction holds is the
\* nonce that transaction is sent with, short of those mishaps
\* (set_tracked_tx_uuid and its reversal): no other transaction will fill it,
\* and the chain takes nothing beyond a gap.
HeldIsSent ==
  clean /\ overwrite.pc = "idle" =>
    \A n \in (finalized + 1)..MaxNonce :
      txOf[n] # NoTx /\ Taken(txOf[n]) /\ ~(job.pc = "note" /\ job.tx = txOf[n]) =>
        nonceOf[txOf[n]] = n
=============================================================================
