# A TLA+ verification of Hyperlane's agents

This directory holds TLA+ modules, TLC configurations and TLAPS proofs for
three programs of this repository that keep state over a long time and act on
it with effects that cannot be taken back:

* the Rust **validator** (`rust/main/agents/validator`), which signs Merkle
  checkpoints of the messages an origin chain dispatched. A relayer that holds a
  threshold of such signatures can have a message processed, so a validator must
  not sign a root its chain does not have, must not sign two values for one
  index, and must publish everything it authenticated;
* the TypeScript **rebalancer** (`typescript/rebalancer`), which moves the
  collateral of a warp route between chains. Every move takes minutes and is
  decided on reads that are older than it, so it must count what is on its way
  once, must not send what it already sent, and must come to rest;
* the Ethereum **nonce manager** of the Rust lander (`rust/main/lander`), which
  gives nonces to the transactions of one account. It must not give one nonce to
  two of them, must not leave a gap, and must notice when the chain takes back
  what it had called final.

## 1. Inventory of the system

### The validator (modelled)

| Part | State it keeps | Operations |
| --- | --- | --- |
| `CheckpointTree` (`submit.rs`) | the committed frontier, the replayed (accumulated) frontier, the frontiers captured at sampled indices | prepare_samples, ingest, root_at, commit |
| Endpoint vote (`submit.rs`, `checkpoint_consensus.rs`) | one slot per configured endpoint | required, verify_checkpoint_batch_step, replay_cannot_improve_vote, evaluate_checkpoint_batch, recover_checkpoint_batch |
| Live submitter (`consensus_checkpoint_submitter`) | tree, retained samples, the answers of the current read | sample, merge, verify, recover, publish the head, notify the history worker |
| History worker (`checkpoint_history_submitter`) | its own tree, the target it took from a `watch` channel | replay, verify, publish what is below the target, write the snapshot |
| Classic submitters (`checkpoint_submitter`, `backfill_checkpoint_submitter`) | one tree each | read a correctness checkpoint, replay, verify, publish, write the snapshot |
| Publication (`submit_checkpoints`, `sign_and_submit_checkpoint`, `publish_latest_checkpoint_index`) | chunks of concurrent submissions | fetch, compare, sign, write, update the latest index, retry without end |
| Halt and guard (`unless_reorg`, `persist_reorg_guard`, `reorg_tombstone.rs`) | a shared irreversible flag; a local file; a remote status object | halt, persist locally, persist remotely, panic; refuse to start |
| Insertion index (`hyperlane_db.rs`, `merkle_tree_hook_sync.rs`) | rows by leaf index | RPC indexing (overwrites), websocket indexing (first writer wins), verified repair |
| Checkpoint storage (`CheckpointSyncer`) | signed checkpoint per index, latest index, snapshot, reorg status | unconditional reads and writes |

The parts interact by shared state and by messages. The live submitter and the
history worker are two tasks of one process with their own clones of the
submitter; they share the database, checkpoint storage, the `reorg_halt` watch
channel and the one-place channel of history targets. The indexers write the
database while both replay it. Checkpoint storage is remote: a dispatched write
lands whether or not its sender still waits. The process may crash at any
await, and starts again from what is durable.

What is hard in it: the interleaving of two or three tasks over storage calls
that are not atomic; rows rewritten under a replay; answers of endpoints that
arrive one by one, retreat, or fork; frontiers cached across votes; a crash
between a signature and its write; a fail-stop that must hold every task at
once and must survive a restart; and retries without end that must still
publish everything. `PROJECT.json` lists these hazards line by line.

What makes its parts correct: a commit is backed by a threshold of endpoints
and extends what was committed; one process signs one history; a published
value is never replaced; the snapshot covers durable checkpoints only; the
latest index names a durable checkpoint and does not go back; a halt stops
every task, is durable before the process ends, and ends it; every committed
index is published in the end.

### The rebalancer (modelled)

| Part | State it keeps | Operations |
| --- | --- | --- |
| Strategies (`strategy/*.ts`) | none: routes are computed from balances and from what is in flight | reserve for transfers, simulate pending and proposed rebalances, categorize, match surpluses with deficits, filter; compose |
| `ActionTracker` | three in-memory stores: user transfers, intents, actions | sync each with explorer and chain, create, complete, fail, expire, recover, find partly fulfilled intents |
| `Monitor`, `RebalancerOrchestrator` | the polling event: balances at one confirmed block per chain | poll, three syncs at once, ask the strategies, execute |
| `Rebalancer` | the routes of a cycle | check, send per origin chain in order, wait for confirmations, record |
| `InventoryRebalancer` | the operator's own tokens | continue or create an intent, deposit in part or whole, move tokens over an external bridge |

The cycle is one sequence of awaits in one process; users, the relayer, the
explorer, the external bridge, the chains and time go on beside it. The stores
do not survive the process. What is hard: balances, deliveries and the explorer
are three sources of different age; a send that fails may have been mined; a sync
that failed goes on in the background; one intent is fulfilled over many
cycles; strategies that are run one after the other see only part of what the
others did.

### The lander's nonce manager (modelled)

State, in RocksDB and one key at a time: the finalized and the upper nonce, the
range of nonces taken back by the chain, the transaction of a nonce, the nonce
of a transaction, the status of a transaction. Operations:
`calculate_next_nonce` (validate, assign, link) when the inclusion stage
submits; `update_boundaries` by whoever asks, at most once a block;
`get_reprocess_txs`; the operator's `overwrite_upper_nonce`. A mutex serializes
assignments and updates, not the overwrite; other services may use the account;
finality may regress; a crash may fall between any two writes.

### The rest of the repository (not modelled yet, or not at all)

* **Lander, dispatcher** (`rust/main/lander/src/dispatcher`): building, inclusion
  and finality stages over pools and a payload database. Modelled only as far
  as they store transaction statuses, ask for nonces, reprocess and reload.
* **Relayer** (`rust/main/agents/relayer`): per-destination prepare, submit and
  confirm queues of pending messages, with backoff and retries.
* **Contract sync** (`rust/main/hyperlane-base/src/contract_sync`): forward and
  backward sequence-aware cursors that rewind on gaps.
* **Websocket session** (`merkle_tree_hook_sync.rs`, `scraper_websocket`):
  subscription, catch-up, cut-over from RPC indexing, health, cursor
  persistence. Only its effect on the rows is modelled.
* **Announcement** (`validator.rs`): backoff, funding gate, one submission in
  flight.
* **Scraper, chain adapters, Solidity and Sealevel contracts, TypeScript SDK,
  CLI and infrastructure**: I/O, encodings, on-chain programs that are
  sequential within a transaction, and tooling. Left out.

## 2. Modules

```
CheckpointBoard           abstract: what readers of the storage are promised
CheckpointTree            frontier and vote, pure operators
  CheckpointPublication   signing, publication, halt and guard; open: no Next
    InsertionIndex        database rows, RPC nodes, snapshot restoration
      ConsensusValidator  live submitter + history worker, crash, restart
        ConsensusValidatorFair   fairness and liveness
          MCConsensusValidator   instances for TLC
      ClassicValidator    tip + backfill submitters, crash, restart
        MCClassicValidator       instances for TLC
CheckpointPublicationProofs     the operators of the vote; what a step of publication keeps
  ConsensusValidatorProofs      history, types, commits, early stop; then
                                the published state, guard, refinement
  ClassicValidatorProofs        one history, published state

RebalanceStrategy         the strategies, pure operators
  RebalanceRounds         cycles over an exact tracker: what strategies do over time
  ConfirmedRounds         cycles at the level of blocks and confirmations
  Rebalancer              the whole cycle with faults, on ActionTracker
ActionTracker             the stores of the tracker, pure operators
RebalanceStrategyProofs   induction, folds and sums; totals, and the routes of a cycle
  RebalanceRoundsProofs   what one strategy moves, chain by chain
  ConfirmedRoundsProofs   the reads of a cycle agree
  RebalancerProofs        the stores of the tracker through whole cycles
  MCRebalanceRounds, MCConfirmedRounds, MCRebalancer   instances for TLC

NonceManager              nonces, boundaries, stages, overwrite, crash
  MCNonceManager          an instance for TLC
NonceManagerProofs
```

**CheckpointBoard.** What relayers, who read the storage, rely on: a slot is
written once and with a value that belongs there, the latest index names a
written slot and only grows, and it does not move once the reorg flag is up.
`ConsensusValidator` implements it (`ImplementsBoard`), with the mapping
`board <- stored`, `latest <- latestIndex`, `flag <- reorgFlag`; the classic
validator does not, since its latest index may go back (section 4).

**CheckpointTree.** A Merkle root commits to the leaves under it, so a tree, a
frontier and a checkpoint are sequences of leaves: the index is the length less
one, and two roots are equal when the sequences are (hashes are assumed
collision-free; hook address and domain are constants of the deployment). The
empty sequence stands for an absent value. `Evaluate` and `VerifyStep` return
the set that holds the result, which is a singleton whenever a threshold
matches. `VerifyStep` replays one leaf per step and reports `"More"` for the
code's `None`: the code replays up to `MERKLE_REPLAY_YIELD_INTERVAL` leaves
between yields (all of them, in `verify_checkpoint_batch`), and one is the
finest interleaving with the indexers that its yields allow.

**CheckpointPublication.** A worker's job is a set of checkpoints not yet in a
chunk (`queue`) and the tasks of the current chunk. Each task goes through the
stages `fetch`, `sign`, `write`, `writing`, `written`, `latest`, `latestWrite`,
`done`; each await of the code is a step. `Awaiting` is `unless_reorg`: with the
halt set no call returns. `DispatchWrite` puts the request on the `wire`;
`WriteCheckpoint` is storage applying it, later, and possibly after its sender
gave up (`RetrySubmission`), halted or crashed. Storage holds the values signed
by this validator; a value of another signer, which the code overwrites with a
warning, is not modelled. `outage` says whether calls may still fail.

**InsertionIndex.** The finalized histories RPC nodes may serve are a constant,
so forks, lagging nodes and nodes that change their mind are all possible
answers. `RestoredTrees` is `restored_snapshot_tree`: the snapshot if this
validator's own checkpoint at its index has its root, or nothing, since an
unreadable snapshot is ignored.

**ConsensusValidator.** `pc` is the live loop: `top`, `stream` (answers arrive
one by one; verification starts as soon as a threshold answered), `batch` (the
samples are verified again), `recover`, `publish`, `halt`. `hpc` is the history
worker: `wait`, `replay`, `submit`, `snapshot`, `halt`, `panicked`. Timers are
abstracted to nondeterminism: samples may be refreshed or reused at any turn of
the loop, and an idle audit may be due whenever something is committed. The
live task joins the history worker only where the code polls its `JoinSet`, at
the loop's head, or where sending to its dropped channel panics.

**ClassicValidator.** The two submitters are the same actions over per-worker
variables, differing as the code does: the tip starts at the tree the chain
reports, the backfill submitter at the restored snapshot, with the tip's tree
as its target; the tip reads a new correctness checkpoint after each job, and
the backfill submitter writes the snapshot and ends.

**RebalanceStrategy.** One operator per method of `BaseStrategy` and its
subclasses: projections of the balances, the band of each kind of strategy
(below what a chain is in deficit, to what it is filled, what it keeps),
scaling, the matching loop, the filter against actual balances, the composition.
Integer division rounds as `BigInt` does. Amounts are canonical units.

**RebalanceRounds.** Users transfer, messages are delivered in any order, and a
cycle sends all routes the strategies propose. The tracker is exact here: this
module is about what the strategies do to the collateral over several cycles.

**ConfirmedRounds.** Blocks and the tag a chain's reorg period stands for:
`Poll` fixes a block per chain and reads balances there, `Decide` asks for
deliveries at the same blocks, `ProcessResults` records sends once confirmed
and fails the intents of routes that `validateRoute` refused. It justifies what `Rebalancer` takes for granted: that the three reads agree.

**ActionTracker, Rebalancer.** The stores are sequences of intents and actions;
every method that changes them is an operator from store to store. `pc` is the
cycle: `idle`, `sync` (both explorer queries under way, answered in any order or
failing while the other goes on as an *orphan*), `plan`, `send` (origins in
parallel, in order on each), `inventory`, `execute`, and `down` after a crash.
`setting.faults` says what may go wrong in a behaviour: a mined send that reports
an error, one that is not mined, a missing receipt, failing queries, checks and
bridges, expiry, staleness, a crash. Time is two actions, `IntentGrowsOld` and
`MovementGrowsStale`.

**NonceManager.** `update`, `job` and `overwrite` are the three programs, each a
program counter and the local values it read before an await; each database
write is a step. `lock` is `boundary_update_lock`. `U256` options become numbers
with `None == -1`, so that "nothing finalized" is the nonce before the first.
The two writes of the upper nonce in one update (raise, then trim) are one step.
`high` and `clean` are history: the highest nonce ever stored as finalized, and
whether any of the mishaps listed in section 4 has happened.

Each module keeps, next to the definition it alters and marked *Mutation*, the
faulty variants that show that a property can fail.

## 3. Runs

| Run | Bounds | Checks |
| --- | --- | --- |
| `vote` | 3 endpoints, majority (2 of 3), 2 leaves, fork at the second, endpoint symmetry | `CommitNeedsThreshold` |
| `publication` | 1 endpoint, 3 leaves, fork in the middle, chunks of 2 | `TypeOK`, `SignedInHistory`, `TargetAhead`, `ImplementsBoard`, `HaltStopsPublication` |
| `crash` | 2 endpoints, quorum (1 of 2), 2 leaves, fork, 1 crash, symmetry | `EarlyStopSound`, `SnapshotCovered`, `ExitGuarded`, `ImplementsBoard` |
| `history_published` | 1 endpoint, lightweight, 3 leaves, no fork, `FairSpec` | `CommittedEventuallyPublished` |
| `second_signature` | 1 endpoint, fork, 1 crash | violates `NeverSignSecondValue` |
| `halt_terminates` | 1 endpoint, fork at the first leaf, `LoopFairSpec` | violates `HaltTerminates` |
| `classic` | 2 leaves, fork at the first, chunks of 2, RPC recovery, 1 crash, `FairSpec` | `TypeOK`, `OneHistory`, `SnapshotCovered`, `LatestIndexStored`, `PublishedImmutable`, `HaltTerminates` |
| `rounds` | 3 chains, one weighted strategy or a deficit and a minimum strategy composed, 2 transfers of 1 or 5, at most 2 rebalances in flight as a cycle begins | `StaysInBand`, `ProposesOnce`, `ReservationHonoured`, `Converges` |
| `confirmed` | 3 chains, tags and latest, 4 blocks, 3 rebalances | `TypeOK`, `OriginDeducted`, `Conserved` |
| `rebalancer` | 2 chains; movable with 2 intents and a user, or a crash and expiry; inventory with 2 intents, 2 movements, failing sends, receipts and bridges | `TypeOK`, `CountedOnce`, `OneActionPerMessage`, `ActionsOfOpenIntents`, `NeverOverdeposits` |
| `rebalancer_timely` | 2 chains, inventory; without faults 1 intent, 3 movements, a user; with faults 2 intents, 2 movements; `FairSpec` | `ActionsOfOpenIntents`, `Fulfilled`, `IntentsEnd` |
| `nonce` | 2 transactions, nonces 0 and 1, 2 faults (reorg, error, overwrite or crash), symmetry | `TypeOK`, `RegressionCovered`, `HeldBelowUpper`, `NoSharedNonce`, `HeldIsSent` |

The validator's runs and `confirmed` set `CHECK_DEADLOCK FALSE`: a process that
ended behind its guard, or crashed with no crash left to spend, really stops,
and a chain at its last block of the bound mines no more. The other runs check
for deadlock.

Why these bounds are enough to be interesting. A vote needs three endpoints for
a minority to exist under majority, and two for an early stop under quorum. A
fork at the second of two leaves gives a common prefix to commit and a value to
conflict with; the third leaf of `publication` lets targets coalesce while the
history worker has more than one checkpoint to publish. Three chains let a
strategy choose between surpluses and between deficits; a transfer of 5 exceeds
what a chain holds, so that the deficit strategy has something to do. Two
intents let one be recovered, expire or be lost while another is open; several
movements per intent are needed because the chain in deficit holds less
inventory than the intent. Two transactions and two nonces suffice for a nonce to
be shared, given away, trimmed and taken back, and two faults for a regression
met by a crash.

**Fairness.** In the validator the runtime polls every task that can make
progress, so the submitters' steps and their storage calls are weakly fair. A
call that fails is retried (`call_and_retry_indefinitely`), and failing is not
progress: the liveness properties assume that an outage of storage or of a
signer ends, after which calls are answered. Nothing is assumed of endpoints,
indexers or crashes in `FairSpec`; `LoopFairSpec` adds that the live loop keeps
turning, since its reads are bounded by a 20 s timeout. In the rebalancer
`WF(Process)` says that the monitor keeps polling and that one of the outcomes of
an awaited call comes (never which one, so that faults remain possible); the
relayer delivers what can be delivered, the external bridge ends its movements,
and time passes. `rounds` assumes that cycles go on and that the oldest
rebalance in flight is delivered; users need not do anything.

## 4. Where code and comments part

Two runs show it, each against a comment of the code:

1. *A second signature after a crash* (`second_signature`). The refusal to sign
   a second value looks at checkpoint storage. A process that signed and crashed
   before its write landed leaves no trace, and its successor may sign another
   value. The first signature was never published; the comment at
   `submit.rs:1392` states more than the code ensures.
   `docs/validator-signing-safety.md` names durable signing intent as follow-up.
2. *A halt that does not end the process* (`halt_terminates`). If the history
   worker detects the conflict while the live submitter awaits a storage or
   signer call, the live submitter is pending for ever and never joins the
   worker's panic. Signing is safely halted and the guards are durable, but the
   process does not exit as `submit.rs:1320-1321` says. `classic` shows that the
   classic mode, where the agent joins both tasks, does end.

The others were met while modelling. They are behaviours of these models, and
the properties above say by an explicit condition that they exclude them; drop
the condition, or state the property named, and TLC prints the trace.

* *The latest index may go back in classic mode.* The backfill submitter too
  publishes the latest index, and `update_latest_index` reads and writes in two
  calls (`checkpoint_syncer.rs:33`): `[][latestIndex' >= latestIndex]_vars` fails in
  `ClassicValidator`. In consensus mode `ImplementsBoard` shows it monotonic.
* *Confirmations and block tags are one block apart* (`Agreeing` in
  `ConfirmedRounds`). `sendTransactionsForChain` waits for `reorgPeriod`
  confirmations, which ethers counts from the transaction's own block, and
  `getConfirmedBlockTag` subtracts the whole period. With a number `n > 0` a cycle
  that starts at once reads the origin at the block before the transaction while
  the intent is already added to its destination: the amount is counted twice,
  against the comment at `ActionTracker.ts:373`.
* *A reservation may be taken* (`ReservationHonoured`). Surpluses are computed on
  balances that include what is in flight, and `filterRoutes` looks at the raw
  balance without reservations; a chain with a rebalance on its way can be asked
  for what a pending transfer needs (`BaseStrategy.ts:89`).
* *A failed query leaves a sync behind* (`OneActionPerMessage`, fault `explorer`).
  `Promise.all` rejects with the first failure; the other sync goes on and may
  recover a message that a send is about to record under its own intent
  (`RebalancerOrchestrator.ts:158`).
* *Two inventory intents at once.* An intent whose movement is in flight is
  passed over by `getPartiallyFulfilledInventoryIntents`, so a second one is
  created beside it, against the "single-intent architecture" of
  `InventoryRebalancer.ts:410`.
* *A mined deposit whose send failed is not recorded* (`NeverOverdeposits`, fault
  `lost`), and is deposited again.
* *Mishaps of the nonce manager* (`clean`). An overwrite does not take
  `boundary_update_lock`, so an assignment may go on with the boundary it
  replaces; a crash or error between the two writes of a link leaves a nonce held
  by a transaction that is sent with another; an error between the finalized
  and the upper write lets a waiting assignment take a nonce above the upper one;
  and `get_reprocess_txs` takes up dropped transactions too, whose nonce may have
  been given away. `RegressionCovered` holds through all of them.

Two comments are also out of date: `submit.rs:1391-1392` and
`docs/validator-signing-safety.md` say that GCS has no snapshots, which
`gcs_storage.rs:181-200` implements.

## 5. Proofs

**The consensus validator: what is signed.** TLAPS proves, for every set of
endpoints, both thresholds, every set of histories, every concurrency, any number
of crashes, and whether or not requests outlive a crash:

* `TypeCorrect`: `Spec => []TypeOK`. It is not only typing: trees, targets and
  jobs stay within the indices of the histories.
* `SigningIsHistorical`: `Spec => []SignedInHistory`.
* `TargetAlwaysAhead`: `Spec => []TargetAhead`, the assertion of
  `verified_checkpoints`.
* `CommitsAreBacked`: `Spec => CommitNeedsThreshold`, an action property.
* `EarlyStopIsSound`: `Spec => []EarlyStopSound`.

The assumptions are those the modules name: a finite non-empty endpoint set, one
of the two thresholds, histories within the indices, a positive concurrency.

`SignedInHistory` is not inductive: a signature comes from a
task, which comes from a job, which was cut out of a frontier that some replay
built from rows the indexers may have rewritten since. The inductive invariant
`IInv` adds:

* `Coherent(tree)`: the committed tree is a prefix of the replayed one, and so
  is every captured sample, past the committed one. This is what `prepare_samples`
  protects when an endpoint retreats, and why committing a sample extends what
  was committed, whatever the rows have become.
* `WorkInHistory`: every checkpoint in a job, the target in the channel and the
  target being published are prefixes of the committed history. The history
  worker's own replay may diverge; it starts a job only when the replay equals a
  target.
* `HistoryTrails`: lengths decrease from a head being published to the channel
  to the target to the worker's tree, strictly where something new is handed
  over. This is what makes coalescing targets safe and gives `TargetAhead`.
* `Dormant`: a stopped process holds no work.

`CheckpointPublicationProofs` proves the lemmas about the operators: prefixes, that
every tree operation preserves `Coherent`, and that `Evaluate` and `VerifyStep`
commit only what a threshold of the ballot contains (`EvaluateSound`,
`VerifyStepSound`). For the early stop it proves that the nth highest of a set of
answers counts how many are at least as high (`NthHighestCounts`), so that the
boundary is monotone in the answers, and that a replay which confirms every
missing one is the best case. It also proves what a step of
publication keeps: no checkpoint enters a job but by `StartJob`, and none is
signed that is not in a job. The first half of `ConsensusValidatorProofs` has one step per action.

**The consensus validator: what is published** (second half of
`ConsensusValidatorProofs`).

* `PanicIsGuarded`: `Spec => []ExitGuarded`, and `HaltIsFinal`:
  `Spec => HaltStopsPublication`. Both need no assumption on requests:
  `GuardInv` follows the halt, the two guards and the two program counters.
* `SnapshotIsCovered`: `Spec => []SnapshotCovered`.
* `PublicationImplementsBoard`: `Spec => ImplementsBoard`, the refinement of
  `CheckpointBoard`: every action is a step of the board or leaves it alone.

The last two assume `~RequestsOutliveCrash`. They are false without it: a write
that lands after its process crashed may replace what the successor published
(section 6). `StorageInv` then says: only reported values are under way or
stored (`ReportedOnly`), what is on the wire belongs to the committed history
(`WireInHistory`), a task past its fetch and a request on the wire hold a
value for a slot that is blank or holds that value already (`Consistent`,
`SubmissionsFit`), one task of the process at a time announces an index
(`SoleAnnouncer`), and all that the snapshot, or the history worker's tree
covers is stored, up to what its current job still has to write
(`CoverageInv`).

**The classic validator** (`ClassicValidatorProofs`), for every set of
histories, every concurrency and any number of crashes: `TypeCorrect`,
`SubmittersSignOneHistory` (`OneHistory`), `PublishedOnce` (`PublishedImmutable`),
`SnapshotIsCovered`, `LatestIndexIsStored`, all of `Spec`, which `FairSpec` of the
run implies. The two submitters share nothing but storage and the halt, so the
invariant needs something both are measured against: the `Trunk`, the history
the tip submitter has verified (a replay under way counts up to where it began).
`WorkOnTrunk` says that the backfill's target, every job, signature and request is
a prefix of it, `ReplayBounds` that a replay lies between its base and its target,
`Dormant` and `GuardInv` what a process leaves behind; `Consistent`,
`SubmissionsFit` and `CoverageInv` are as above.

**The nonce manager** (`NonceManagerProofs`), for every set of transactions and
every bound on nonces and faults:

* `TypeCorrect`: `Spec => []TypeOK`, with `JobOfTx` added: a submission that is not
  idle has a transaction. Most of its work is that the values chosen by
  `Trimmed` and `Next_nonce` exist and stay within bounds, for which
  `LeastNatural` derives the least element of a set of naturals from the
  library's well-foundedness of `<`.
* `RegressionsCovered`: `Spec => []RegressionCovered`. It is not inductive: while an
  update is between recording the range and storing the finalized nonce, the
  range has to cover what that write is about to uncover, and before the range
  is cleared the finalized nonce has to be the one that was compared with its
  end. `UpdateInv` says both. This is the argument of the comment at
  `boundary.rs:25`: the order of the four writes makes every crash point safe.
* `UpperAboveHeld` (`HeldBelowUpper`), `NonceHasOneHolder` (`NoSharedNonce`) and
  `HolderIsSent` (`HeldIsSent`), from `HoldingInv`. The lock is held by the one program
  that is past taking it (`LockInv`); an overwrite without a mishap runs alone
  (`OverwriteInv`); the finalized nonce passes the upper one only where no submission
  can look at them (`UpperAhead`); a nonce that is not available is below the upper
  one, or about to be cleared by an overwrite (`HeldInv`); the two keys of a link,
  nonce to transaction and transaction to nonce, agree for every transaction that
  is not dropped, except for the link being made or undone at this moment
  (`LinkInv`); and what a submission read before it took the lock, picked or linked
  is still so (`SubmissionInv`). All but the lock hold while `clean` does,
  which is what the mishaps of section 4 end. That a dropped transaction stays
  dropped is a lemma of its own.

The assumptions are that the default uuid is no transaction's and that the
bounds are natural numbers.

**The rebalancer's strategies** (`RebalanceRoundsProofs`), for every set of
chains, every valid configuration, and any history of transfers and deliveries:

* `MovesStayInBand`: `Spec => StaysInBand`, an action property.

`IInv` is little more than types: what is in flight is movable collateral and,
with a single strategy, went over the bridges of that strategy, so that the filter of
`CollateralDeficitStrategy` drops none of it (`SeesAll`) and the balances the
strategy works with are the settled ones. The argument is about one cycle.
`Whole(q, W)` is what the elements of a sequence that are in `W` carry together;
`SettledAt` says what a chain holds once all is delivered in these terms. The
matching loop keeps `Within`: what the routes so far take from a chain, with
what the list of surpluses still holds for it, is at most its surplus, and
likewise what they bring to it and its deficit, until no positive deficit is
left (a deficit may be negative, with a negative buffer, and the sort puts those
last: `SortedFacts`). Scaling leaves no more of a deficit than there was, rounded
in either direction (`ScaledBelow`). Filtering and sending only drop routes
(`SelectedCarries`, `SentWithin`), and a chain has a surplus or a deficit, never
both, so that what was dropped does not push another chain out of its band.
The assumptions: valid strategies, collateral and transfers that are not negative.

**The rebalancer's reads** (`ConfirmedRoundsProofs`), for every set of chains, any
initial collateral, any number of rebalances and blocks:

* `TypeCorrect`: `Spec => []TypeOK`.
* `OriginIsDeducted`: `Spec => []OriginDeducted`.
* `ProjectionIsConserved`: `Spec => []Conserved`.

The strategies are not looked into: whatever routes they return, valid or not,
are begun. The two properties are about reorg periods whose two uses agree, as
in section 4. The inductive invariant: what is recorded as in progress was sent,
and what is recorded as complete was received, no later than the present tag of
the chain (`TagInv`) and, while the event is used, than the tag of the event
(`EventInv`); the balances of the event are those of its blocks, which later
blocks do not change; sends are under way in their phase only (`PhaseInv`); and
no block leaves a router with less than nothing (`SolventInv`), which makes the
balances natural numbers. `Conserved` then follows by induction over the
rebalances: each has left its origin by the tag, and is either counted at its
destination by the tag or in the context that `simulatePendingRebalances` adds.

Sums and folds of the community modules are recursive functions over the subsets
of a set, of which nothing is known before they are shown to exist.
`RebalanceStrategyProofs` does that once: `NatSetInduction` and
`SubsetInduction` state induction for a set instead of a predicate (from the
library's well-foundedness of `<`), `FoldExists` gives the fold of a finite set,
and the lemmas after it take sums apart (`SumSplit`, `SumChange`, `SumLast`) and
say what `simulatePendingRebalances` does to the total (`SimulatedTotal`).

The assumptions are the named ones: finitely many chains, numbered; collateral
that is not negative; reorg periods that are a tag or a natural number.

**The rebalancer's stores** (`RebalancerProofs`), for every set of chains, any
valid strategies, any inventory, costs and bounds, and every set of faults:

* `TypeCorrect`: `Spec => []TypeOK`.
* `NothingAwaited`: `Spec => []ActionsOfOpenIntents`.
* `RecordedOnce`: `Spec => []OneActionPerMessage`.
* `RebalancesCounted`: `Spec => []CountedOnce`.
* `DepositsBounded`: `Spec => []NeverOverdeposits`.

None of them is inductive. `Invariance` proves `Spec => []IInv`, whose parts are:

* `StoreInv`: how intents and actions fit, whichever operation of the tracker
  changed them. A bridge message is the whole of its intent and its only action,
  so that completing it completes the intent; a deposit fails only with its
  intent; the deposits of an intent, completed or not, never exceed it; and a
  movement is awaited only while the deposits leave something of its intent.
  Without the last one, completing the final deposit would end an intent
  whose movement is still awaited, against `ActionsOfOpenIntents`.
* `JobsInv`: the intent of a route that is being sent is not started, has no
  action and no other job. This is what the recording of its result relies on
  after the await, while the explorer's answers are applied.
* `TaskInv`: the intent of the inventory route being executed awaits nothing, and
  the amount of the task and its deposits stay within the intent. The amount
  was computed before the calls that quote and send; no step in between may
  change the deposits.
* `OnceInv`: no message is recorded twice, nor by two jobs, nor by a job and an
  action, and no orphaned query runs, unless a query of the explorer fails.
* `SyncInv`: a message is complete only at the blocks of the polling event, and once
  the sync of actions was answered everything delivered at those blocks is.
* `DepositInv`: what the chains were sent for an intent is what the tracker has
  recorded, unless a mined deposit's send failed.
* `WorldInv`, `NamesInv`: types, and that all names refer to something.

One lemma per operation of the tracker shows that it keeps `StoreInv`
(`completeRebalanceActions`, `failStaleMovements`, the expiry of intents, recovery), and
one lemma per action that it keeps `IInv`. `SendRebalance` and `Plan` need to
know that the routes are routes: `CompositeType` of `RebalanceStrategyProofs` proves,
through the projections, bands, scaling, sort, matching loop and filters, that a
valid composition of strategies returns a sequence of routes between chains of
positive amounts, for balances of either sign.

The assumptions: `SettingsAssumption` (valid strategies, that is what their
constructors check; inventories and costs that are not negative),
`AmountsAssumption` (collateral and the users' transfers are not negative) and
`ChainsAssumption`.

Every inductive invariant was model-checked on the instances of the runs before
it was proved.

**Only model-checked:** the liveness properties and anything that needs ENABLED
(outside the prover's reach), among them `Fulfilled` and `IntentsEnd` of the
rebalancer; and two action properties of `RebalanceRounds` that do not hold for
every value of the constants: `ProposesOnce`, since deficits that were scaled and
rounded down may leave a remainder for the next cycle, and `ReservationHonoured`,
since a later strategy of a composition counts on what an earlier one only
proposed to bring to a chain (two weighted strategies with different weights do
so). They are statements about the configurations of the run. Every safety
invariant a run checks is a theorem. The two violations of section 4 are
counterexamples, which is what TLC is for.

## 6. What the model leaves out

* A value in storage signed by someone else, and conflicts in the message id
  alone; mismatching hook addresses or domains.
* A latest-index or snapshot request that lands after its sender was cancelled
  or crashed: its dispatch and its effect are one step, unlike the checkpoint
  write's.
* `RequestsOutliveCrash` is `FALSE` in the runs, and in the classic model a
  crash always drops the requests under way: set to `TRUE`, `ImplementsBoard`
  fails, because a predecessor's late write may replace what its successor
  published. The code has no fence against it, which
  `docs/validator-signing-safety.md` says.
* An operator removing a guard, the loss of the database or of the bucket, two
  processes with one key.
* The reorg reporter, readiness and metrics.
* Rebalancer: decimals of chains, quotes and slippage (a bridge delivers what it
  was given, fees are one constant cost), reorgs below the reorg period, chains
  without block tags, and the manual mode of the CLI, which runs one cycle.
* Nonce manager: gas prices, the nonce inside a transaction (it decides only
  whether an unchanged gas price is worth a broadcast), a nonce held by a
  transaction missing from the database, and a crash between raising and
  trimming the upper nonce in one update. The bound on nonces drops a
  transaction that would exceed it.
* Not modelled at all, and why: the contracts are sequential within a
  transaction and belong to another development; the chain adapters, the storage
  backends, the scraper and the SDK, CLI and infrastructure are I/O, encodings
  and scripts with no state of their own between runs. They are most of the
  repository's lines; the map covers the programs that keep state.

## 7. Plan

In the order of importance:

1. The lander's stages: pool snapshots and batched status reads, the building
   queue, payload statuses and recovery from the payload database.
2. The websocket session: catch-up, cut-over, health and cursor persistence.
3. Contract-sync cursors, then the relayer's queues, then the announcement.
