----------------------------- MODULE Rebalancer -----------------------------
(***************************************************************************)
(* The warp route rebalancer: Monitor polls, RebalancerOrchestrator syncs  *)
(* the ActionTracker, asks the strategies for routes and has them executed *)
(* by Rebalancer (movable collateral, one bridge message per route) and by *)
(* InventoryRebalancer (deposits of the operator's own tokens, brought to  *)
(* the chain by an external bridge).                                       *)
(*                                                                         *)
(* The chains are modelled at the confirmed block: `collateral' is what a  *)
(* read at the block tag of a polling event returns.  ConfirmedRounds.tla  *)
(* is about the tag itself.  A cycle is split where the code awaits the    *)
(* network; between its steps users transfer, messages are delivered, the  *)
(* explorer indexes, time passes and the process may crash.                *)
(***************************************************************************)
EXTENDS RebalanceStrategy, ActionTracker

CONSTANTS
  InitialCollateral,  \* chain -> amount
  TransferAmount,     \* amount of a user transfer
  Settings            \* what the process may be configured with and exposed to:
\* a set of records
\*   strategies    the configured strategies, in order
\*   inventory     the operator's own tokens at the start, chain -> amount
\*   cost          gas and fees of a deposit, in tokens (0: not a native token)
\*   faults        what may go wrong, see FaultKinds
\* and of bounds
\*   transfers     user transfers
\*   intents       intents: the strategies propose nothing more
\*   messages      messages: further deposits fail
\*   moves         movements over the external bridge: further ones fail
\*   crashes       crashes

FaultKinds == {"crash",     \* the process restarts
               "explorer",  \* an explorer query fails, while the other goes on
               "check",     \* asking whether a message is delivered fails: "no"
               "lost",      \* a transaction is mined but its send reports an error
               "send",      \* a transaction is not mined
               "noId",      \* the receipt of a deposit cannot be fetched
               "bridge",    \* the external bridge fails or does not know a movement
               "expiry",    \* an intent outlives its TTL
               "stale"}     \* a movement outlives the staleness window

ASSUME SettingsAssumption ==
  \A s \in Settings :
    /\ ValidStrategies(s.strategies) /\ s.faults \subseteq FaultKinds
    /\ s.inventory \in [Chains -> Nat] /\ s.cost \in Nat

ASSUME AmountsAssumption == InitialCollateral \in [Chains -> Nat] /\ TransferAmount \in Nat

VARIABLES
  setting,  \* the one of Settings this behaviour has
  \* the chains, the explorer and the external bridge
  collateral, inventory, msgs, moves, crashes,
  \* the ActionTracker
  transfers, intents, actions,
  \* the cycle
  pc,       \* "down", "idle", "sync", "plan", "send", "inventory", "execute"
  event,    \* the polling event: raw balances, delivered messages, inventory
  asked,    \* the explorer queries of the cycle that have no answer yet
  orphans,  \* queries of a failed sync that still run: [query, delivered]
  jobs,     \* movable routes being sent: [intent, route, state, msg]
  wanted,   \* inventory routes of the cycle
  task      \* the inventory route being executed: [intent, amount]

world == <<setting, collateral, inventory, msgs, moves>>
stores == <<transfers, intents, actions>>
cycle == <<pc, event, asked, orphans, jobs, wanted, task>>
vars == <<world, crashes, stores, cycle>>

Fault(kind) == kind \in setting.faults

Kind(k) == {m \in DOMAIN msgs : msgs[m].kind = k}
Delivered == {m \in DOMAIN msgs : msgs[m].delivered}
Explorer(k) == {m \in Kind(k) : msgs[m].explorer = "inflight"}
Store == [intents |-> intents, actions |-> actions]
SetStore(s) == intents' = s.intents /\ actions' = s.actions

Message(kind, origin, destination, amount, intent) ==
  [kind |-> kind, origin |-> origin, destination |-> destination, amount |-> amount,
   delivered |-> FALSE, explorer |-> "unseen", intent |-> intent]

NoEvent == [raw |-> [c \in Chains |-> 0], delivered |-> {}, inventory |-> [c \in Chains |-> 0]]
NoTask == [intent |-> 0, amount |-> 0]

Init ==
  /\ setting \in Settings
  /\ collateral = InitialCollateral /\ inventory = setting.inventory
  /\ msgs = <<>> /\ moves = <<>> /\ crashes = 0
  /\ transfers = <<>> /\ intents = <<>> /\ actions = <<>>
  /\ pc = "idle" /\ event = NoEvent /\ asked = {} /\ orphans = {}
  /\ jobs = <<>> /\ wanted = <<>> /\ task = NoTask

-----------------------------------------------------------------------------
(* The environment *)

UserTransfer(o, d) ==
  /\ Cardinality(Kind("transfer")) < setting.transfers
  /\ o # d
  /\ collateral' = [collateral EXCEPT ![o] = @ + TransferAmount]
  /\ msgs' = Append(msgs, Message("transfer", o, d, TransferAmount, 0))
  /\ UNCHANGED <<setting, inventory, moves, crashes, stores, cycle>>

\* A rebalance brings collateral, the other messages release it and revert
\* while there is too little.  A deposit pays out to the operator.
Deliver(m) ==
  /\ m \in DOMAIN msgs \ Delivered
  /\ LET d == msgs[m].destination
         n == msgs[m].amount
     IN  /\ msgs[m].kind # "rebalance" => collateral[d] >= n
         /\ collateral' = [collateral EXCEPT ![d] = IF msgs[m].kind = "rebalance"
                                                   THEN @ + n ELSE @ - n]
         /\ inventory' = IF msgs[m].kind = "deposit" THEN [inventory EXCEPT ![d] = @ + n]
                                                    ELSE inventory
  /\ msgs' = [msgs EXCEPT ![m].delivered = TRUE]
  /\ UNCHANGED <<setting, moves, crashes, stores, cycle>>

\* The explorer indexes a dispatch, and a delivery, some time after it.  No
\* query asks it for deposits.
ExplorerIndexes(m) ==
  /\ m \in DOMAIN msgs \ Kind("deposit")
  /\ \/ msgs[m].explorer = "unseen" /\ msgs' = [msgs EXCEPT ![m].explorer = "inflight"]
     \/ /\ msgs[m].explorer = "inflight" /\ msgs[m].delivered
        /\ msgs' = [msgs EXCEPT ![m].explorer = "delivered"]
  /\ UNCHANGED <<setting, collateral, inventory, moves, crashes, stores, cycle>>

MoveEnds(v) ==
  /\ v \in DOMAIN moves /\ moves[v].status = "pending"
  /\ \/ /\ moves' = [moves EXCEPT ![v].status = "complete"]
        /\ inventory' = [inventory EXCEPT ![moves[v].destination] = @ + moves[v].amount]
     \/ /\ Fault("bridge")
        /\ moves' = [moves EXCEPT ![v].status = "failed"]
        /\ inventory' = [inventory EXCEPT ![moves[v].origin] = @ + moves[v].amount]
  /\ UNCHANGED <<setting, collateral, msgs, crashes, stores, cycle>>

\* Time passes: an open intent outlives its TTL, a movement that the bridge
\* does not call pending the staleness window.
IntentGrowsOld(i) ==
  /\ Fault("expiry")
  /\ i \in DOMAIN intents /\ ~intents[i].old
  /\ intents[i].status \in {"not_started", "in_progress"}
  /\ intents' = [intents EXCEPT ![i].old = TRUE]
  /\ UNCHANGED <<world, crashes, transfers, actions, cycle>>

MovementGrowsStale(a) ==
  /\ Fault("stale")
  /\ a \in DOMAIN actions /\ ~actions[a].stale
  /\ actions[a].type = "inventory_movement" /\ actions[a].status = "in_progress"
  /\ actions[a].bridgeStatus # "pending"
  /\ actions' = [actions EXCEPT ![a].stale = TRUE]
  /\ UNCHANGED <<world, crashes, transfers, intents, cycle>>

-----------------------------------------------------------------------------
(* Monitor.start and RebalancerOrchestrator.syncActionTracker *)

\* The event's reads, and the start of the three syncs: the one of the
\* intents awaits no network and is over before the others are answered.
Poll ==
  /\ pc = "idle"
  /\ event' = [raw |-> collateral, delivered |-> Delivered, inventory |-> inventory]
  /\ SetStore(syncRebalanceIntents(Store))
  /\ asked' = {"transfers", "actions"}
  /\ pc' = "sync"
  /\ UNCHANGED <<world, crashes, transfers, orphans, jobs, wanted, task>>

\* Mutation: isDelivered is asked at the latest block, not at the event's.
AnsweredLatest(query, delivered) ==
  \/ /\ query = "transfers"
     /\ transfers' = syncTransfers(transfers, Explorer("transfer"), Delivered \cap Kind("transfer"))
     /\ UNCHANGED <<intents, actions>>
  \/ /\ query = "actions"
     /\ SetStore(syncRebalanceActions(Store, msgs, Explorer("rebalance"), Delivered))
     /\ UNCHANGED transfers

\* A query's answer, and the deliveries at the blocks of the event it started
\* with: `confirmed' are the messages isMessageDelivered finds delivered.
Answered(query, delivered) ==
  \E confirmed \in (IF Fault("check") THEN SUBSET delivered ELSE {delivered}) :
    \/ /\ query = "transfers"
       /\ transfers' = syncTransfers(transfers, Explorer("transfer"),
                                     confirmed \cap Kind("transfer"))
       /\ UNCHANGED <<intents, actions>>
    \/ /\ query = "actions"
       /\ SetStore(syncRebalanceActions(Store, msgs, Explorer("rebalance"), confirmed))
       /\ UNCHANGED transfers

ExplorerAnswers(query) ==
  /\ pc = "sync" /\ query \in asked
  /\ Answered(query, event.delivered)
  /\ asked' = asked \ {query}
  /\ UNCHANGED <<world, crashes, pc, event, orphans, jobs, wanted, task>>

\* Promise.all rejects with the first failure; the other query, if it has no
\* answer yet, is not cancelled.
ExplorerFails(query) ==
  /\ Fault("explorer")
  /\ pc = "sync" /\ query \in asked /\ orphans = {}
  /\ orphans' = {[query |-> q, delivered |-> event.delivered] : q \in asked \ {query}}
  /\ asked' = {}
  /\ pc' = "plan"
  /\ UNCHANGED <<world, crashes, stores, event, jobs, wanted, task>>

OrphanAnswered(o) ==
  /\ o \in orphans
  /\ Answered(o.query, o.delivered)
  /\ orphans' = orphans \ {o}
  /\ UNCHANGED <<world, crashes, pc, event, asked, jobs, wanted, task>>

\* What the external bridge may say of its movements: their status, or that
\* it does not find them, or nothing.
BridgeAnswers ==
  LET unreliable == {v \in DOMAIN moves : Fault("bridge")}
  IN  {[v \in DOMAIN moves |-> IF v \in unreliable /\ fault[v] # "none" THEN fault[v]
                                                                     ELSE moves[v].status] :
         fault \in [unreliable -> {"none", "not_found", "error"}]}

SyncMovements ==
  /\ pc = "sync" /\ asked = {}
  /\ \E answer \in BridgeAnswers : SetStore(syncInventoryMovementActions(Store, answer))
  /\ pc' = "plan"
  /\ UNCHANGED <<world, crashes, transfers, event, asked, orphans, jobs, wanted, task>>

-----------------------------------------------------------------------------
(* The strategies, and the movable collateral rebalancer *)

Context == getInflightContext(msgs, transfers, intents, actions)
Routes == CompositeRoutes(setting.strategies, event.raw, Context)

\* createIntents: every movable route gets its intent before anything is sent.
Plan ==
  /\ pc = "plan"
  /\ \E routes \in {IF Len(intents) < setting.intents THEN Routes ELSE <<>>} :
       LET movable == Selected(routes, {r \in Range(routes) : r.bridge # "none"})
       IN  /\ wanted' = Selected(routes, {r \in Range(routes) : r.bridge = "none"})
           /\ intents' = intents \o [k \in DOMAIN movable |->
                Intent(movable[k].origin, movable[k].destination, movable[k].amount,
                       "movable", movable[k].bridge, "not_started")]
           /\ jobs' = [k \in DOMAIN movable |->
                [intent |-> Len(intents) + k, route |-> movable[k], state |-> "todo", msg |-> 0]]
           /\ pc' = CASE movable # <<>> -> "send"
                      [] movable = <<>> -> "inventory"
  /\ UNCHANGED <<world, crashes, transfers, actions, event, asked, orphans, task>>

\* Chains in parallel, the transactions of a chain one after the other.
NextJob(j) ==
  /\ j \in DOMAIN jobs /\ jobs[j].state = "todo"
  /\ \A k \in 1..(j - 1) : jobs[k].route.origin = jobs[j].route.origin => jobs[k].state # "todo"

\* The bridge message is dispatched; `state' is what the sender learns.
SendRebalance(j, state) ==
  /\ pc = "send" /\ NextJob(j)
  /\ LET r == jobs[j].route
     IN  /\ collateral[r.origin] >= r.amount
         /\ collateral' = [collateral EXCEPT ![r.origin] = @ - r.amount]
         /\ msgs' = Append(msgs, Message("rebalance", r.origin, r.destination, r.amount,
                                         jobs[j].intent))
  /\ jobs' = [jobs EXCEPT ![j] = [@ EXCEPT !.state = state, !.msg = Len(msgs) + 1]]
  /\ UNCHANGED <<setting, inventory, moves, crashes, stores, pc, event, asked, orphans, wanted, task>>

RebalanceSent(j) == SendRebalance(j, "sent")

\* Mined, but the wait for its confirmations times out, or the node fails.
RebalanceLost(j) == Fault("lost") /\ SendRebalance(j, "failed")

\* A quote, the estimate or the transaction fails; it always does when the
\* router lacks the collateral.
RebalanceFails(j) ==
  /\ pc = "send" /\ NextJob(j)
  /\ Fault("send") \/ collateral[jobs[j].route.origin] < jobs[j].route.amount
  /\ jobs' = [jobs EXCEPT ![j].state = "failed"]
  /\ UNCHANGED <<world, crashes, stores, pc, event, asked, orphans, wanted, task>>

ProcessResult(s, job) ==
  IF job.state = "sent"
  THEN createRebalanceAction(s, Action("rebalance_message", job.intent, job.msg, 0,
                                       job.route.amount))
  ELSE [s EXCEPT !.intents[job.intent].status = "failed"]

EndCycle == pc' = "idle" /\ event' = NoEvent

\* The results are recorded when all routes have been sent.
ProcessResults ==
  /\ pc = "send" /\ \A j \in DOMAIN jobs : jobs[j].state # "todo"
  /\ SetStore(FoldLeft(ProcessResult, Store, jobs))
  /\ jobs' = <<>>
  /\ \/ wanted = <<>> /\ EndCycle
     \/ wanted # <<>> /\ pc' = "inventory" /\ UNCHANGED event
  /\ UNCHANGED <<world, crashes, transfers, asked, orphans, wanted, task>>

-----------------------------------------------------------------------------
(* InventoryRebalancer *)

Partial == getPartiallyFulfilledInventoryIntents(intents, actions)
Continued == First(intents, Partial)

\* rebalance(): go on with the first open intent, else start the first route.
PickIntent ==
  /\ pc = "inventory"
  /\ actions' = failStaleMovements(intents, actions)
  /\ wanted' = <<>>
  /\ \/ /\ Partial # {} /\ Deposits(actions, Continued, "in_progress") > 0
        /\ EndCycle /\ UNCHANGED <<intents, task>>
     \/ /\ Partial # {} /\ Deposits(actions, Continued, "in_progress") = 0
        /\ task' = [intent |-> Continued, amount |-> Remaining(intents, actions, Continued)]
        /\ pc' = "execute" /\ UNCHANGED <<intents, event>>
     \/ /\ Partial = {} /\ wanted = <<>>
        /\ EndCycle /\ UNCHANGED <<intents, task>>
     \/ /\ Partial = {} /\ wanted # <<>>
        /\ intents' = Append(intents, Intent(Head(wanted).origin, Head(wanted).destination,
                                             Head(wanted).amount, "inventory", "none",
                                             "not_started"))
        /\ task' = [intent |-> Len(intents) + 1, amount |-> Head(wanted).amount]
        /\ pc' = "execute" /\ UNCHANGED event
  /\ UNCHANGED <<world, crashes, transfers, asked, orphans, jobs>>

EndTask == EndCycle /\ task' = NoTask

\* executeRoute: the deposit is made on the chain in deficit, its message
\* releases on the chain in surplus.
Deficit == intents[task.intent].destination
Surplus == intents[task.intent].origin
Available == event.inventory[Deficit]
MinViable == 2 * setting.cost
MaxTransferable == Min({Positive(Available - setting.cost), task.amount})
CanDeposit == MaxTransferable >= task.amount \/ (MaxTransferable > 0 /\ MaxTransferable >= MinViable)

AcceptLoss ==
  /\ pc = "execute" /\ task.amount < MinViable
  /\ intents' = [intents EXCEPT ![task.intent].status = "complete"]
  /\ EndTask
  /\ UNCHANGED <<world, crashes, transfers, actions, asked, orphans, jobs, wanted>>

\* transferRemote is mined.  `store' is the tracker's afterwards.
Deposit(store) ==
  /\ pc = "execute" /\ task.amount >= MinViable /\ CanDeposit
  /\ inventory[Deficit] >= MaxTransferable + setting.cost /\ Len(msgs) < setting.messages
  /\ inventory' = [inventory EXCEPT ![Deficit] = @ - MaxTransferable - setting.cost]
  /\ collateral' = [collateral EXCEPT ![Deficit] = @ + MaxTransferable]
  /\ msgs' = Append(msgs, Message("deposit", Deficit, Surplus, MaxTransferable, task.intent))
  /\ SetStore(store)
  /\ EndTask
  /\ UNCHANGED <<setting, moves, crashes, transfers, asked, orphans, jobs, wanted>>

DepositAction(msg) == Action("inventory_deposit", task.intent, msg, 0, MaxTransferable)

DepositSent == Deposit(createRebalanceAction(Store, DepositAction(Len(msgs) + 1)))
DepositWithoutId == Fault("noId") /\ Deposit(createRebalanceAction(Store, DepositAction(0)))
DepositLost == Fault("lost") /\ Deposit(Store)

\* A quote, an estimate or the transaction fails: the exception is caught and
\* the intent stays as it is.
DepositFails ==
  /\ pc = "execute"
  /\ \/ Fault("send")
     \/ /\ task.amount >= MinViable /\ CanDeposit
        /\ inventory[Deficit] < MaxTransferable + setting.cost \/ Len(msgs) >= setting.messages
  /\ EndTask
  /\ UNCHANGED <<world, crashes, stores, asked, orphans, jobs, wanted>>

\* Too little inventory on the chain: movements over the external bridge,
\* from the chains that have most, until they cover the shortfall and 5%.
Sources == {c \in Chains \ {Deficit} : event.inventory[c] > 0}
Before(c) == {d \in Sources : \/ event.inventory[d] > event.inventory[c]
                              \/ event.inventory[d] = event.inventory[c] /\ d < c}
TargetWithBuffer == ((Positive(task.amount - Available) + setting.cost) * 105) \div 100
Planned(c) ==
  Min({event.inventory[c], Positive(TargetWithBuffer - Sum(LAMBDA d : event.inventory[d], Before(c)))})

\* The chains that are to move something, and those of them that can.
BridgePlans == {c \in Sources : Planned(c) > 0}
CanMove(c) == /\ inventory[c] >= Planned(c)
              /\ Len(moves) + Cardinality(BridgePlans \cap Before(c)) < setting.moves

Movement(c) == [origin |-> c, destination |-> Deficit, status |-> "pending", amount |-> Planned(c)]

\* In parallel: each succeeds or fails on its own, and they end in any order.
MoveInventory ==
  /\ pc = "execute" /\ task.amount >= MinViable /\ ~CanDeposit
  /\ \E done \in SUBSET {c \in BridgePlans : CanMove(c)} :
       LET made == SetToSeq(done)
       IN  /\ ~Fault("bridge") => done = {c \in BridgePlans : CanMove(c)}
           /\ moves' = moves \o [k \in DOMAIN made |-> Movement(made[k])]
           /\ inventory' = [c \in Chains |-> IF c \in done THEN inventory[c] - Planned(c)
                                                          ELSE inventory[c]]
           /\ SetStore(FoldLeft(createRebalanceAction, Store, [k \in DOMAIN made |->
                Action("inventory_movement", task.intent, 0, Len(moves) + k, Planned(made[k]))]))
  /\ EndTask
  /\ UNCHANGED <<setting, collateral, msgs, crashes, transfers, asked, orphans, jobs, wanted>>

-----------------------------------------------------------------------------
(* Crash and restart *)

\* The stores live in memory.
Crash ==
  /\ Fault("crash") /\ pc # "down" /\ crashes < setting.crashes /\ crashes' = crashes + 1
  /\ msgs' = [m \in DOMAIN msgs |-> [msgs[m] EXCEPT !.intent = 0]]
  /\ transfers' = <<>> /\ intents' = <<>> /\ actions' = <<>>
  /\ pc' = "down" /\ event' = NoEvent /\ asked' = {} /\ orphans' = {}
  /\ jobs' = <<>> /\ wanted' = <<>> /\ task' = NoTask
  /\ UNCHANGED <<setting, collateral, inventory, moves>>

\* ActionTracker.initialize; an explorer failure ends the process again.
Restart ==
  /\ pc = "down"
  /\ transfers' = syncTransfers(<<>>, Explorer("transfer"), Delivered \cap Kind("transfer"))
  /\ SetStore(syncRebalanceActions(Store, msgs, Explorer("rebalance"), Delivered))
  /\ pc' = "idle"
  /\ UNCHANGED <<world, crashes, event, asked, orphans, jobs, wanted, task>>

Environment ==
  \/ \E o, d \in Chains : UserTransfer(o, d)
  \/ \E m \in DOMAIN msgs : Deliver(m) \/ ExplorerIndexes(m)
  \/ \E v \in DOMAIN moves : MoveEnds(v)
  \/ \E i \in DOMAIN intents : IntentGrowsOld(i)
  \/ \E a \in DOMAIN actions : MovementGrowsStale(a)
  \/ Crash

Sync == Poll \/ SyncMovements \/ \E q \in asked : ExplorerAnswers(q)
Movable == ProcessResults
           \/ \E j \in DOMAIN jobs : RebalanceSent(j) \/ RebalanceLost(j) \/ RebalanceFails(j)
InventorySteps == PickIntent \/ AcceptLoss \/ DepositSent \/ DepositWithoutId \/ DepositLost
                  \/ DepositFails \/ MoveInventory

Process == Restart \/ Sync \/ Plan \/ Movable \/ InventorySteps

Next == \/ Environment
        \/ Process
        \/ \E q \in asked : ExplorerFails(q)
        \/ \E o \in orphans : OrphanAnswered(o)

Spec == Init /\ [][Next]_vars

\* The process goes on: the monitor keeps polling and the services answer, a
\* cycle being one sequence of steps.  The relayer delivers what
\* can be delivered, the external bridge ends its movements and time passes.
Fairness ==
  /\ WF_vars(Process)
  /\ WF_vars(\E m \in DOMAIN msgs : Deliver(m))
  /\ WF_vars(\E v \in DOMAIN moves : MoveEnds(v))
  /\ WF_vars(\E i \in DOMAIN intents : IntentGrowsOld(i))
  /\ WF_vars(\E a \in DOMAIN actions : MovementGrowsStale(a))

FairSpec == Spec /\ Fairness

-----------------------------------------------------------------------------
MaxIntents == Max({s.intents : s \in Settings})

Statuses == {"not_started", "in_progress", "complete", "failed"}

TypeOK ==
  /\ collateral \in [Chains -> Nat] /\ inventory \in [Chains -> Nat]
  /\ \A i \in DOMAIN intents : intents[i].status \in Statuses /\ intents[i].amount > 0
  /\ \A a \in DOMAIN actions :
       /\ actions[a].intent \in DOMAIN intents /\ actions[a].status \in Statuses
       /\ actions[a].msg \in 0..Len(msgs) /\ actions[a].move \in 0..Len(moves)
  /\ \A m \in DOMAIN transfers : m \in Kind("transfer")
  /\ task.intent \in {0} \cup DOMAIN intents
  /\ pc = "execute" => task.amount > 0

\* A message is tracked by one action, whoever recorded it first: the send
\* that dispatched it or the explorer that reported it (recoverAction, "Check
\* if action already exists").  Short of a failed query: Promise.all then lets
\* the cycle go on beside a sync that still waits for the explorer.
OneActionPerMessage ==
  ~Fault("explorer") =>
  \A a, b \in DOMAIN actions : a # b /\ actions[a].msg # 0 => actions[a].msg # actions[b].msg

\* Nothing is awaited for an intent that has ended.
ActionsOfOpenIntents ==
  \A a \in DOMAIN actions :
    actions[a].status = "in_progress" => intents[actions[a].intent].status = "in_progress"

\* When the strategies are asked, the simulation adds a rebalance the tracker
\* knows to its destination exactly while the balances of the polling event
\* lack it, once: balances and deliveries are read at the same blocks.  So
\* long as the sync could ask what it needs (ActionTracker.syncRebalanceActions).
CountedOnce ==
  pc = "plan" /\ ~Fault("explorer") /\ ~Fault("check") =>
    \A a \in DOMAIN actions :
      actions[a].type = "rebalance_message" /\ actions[a].status # "failed" =>
        /\ actions[a].msg \in event.delivered <=> actions[a].status = "complete"
        /\ Cardinality({i \in DOMAIN intents :
                          /\ intents[i].status = "in_progress"
                          /\ \E b \in DOMAIN actions : /\ actions[b].intent = i
                                                       /\ actions[b].msg = actions[a].msg})
             = (IF actions[a].msg \in event.delivered THEN 0 ELSE 1)

\* The deposits sent for an intent never exceed it, over however many cycles
\* it is fulfilled, unless a deposit was mined although its send failed: such
\* a one is not recorded (InventoryRebalancer.executeTransferRemote).
NeverOverdeposits ==
  ~Fault("lost") =>
    \A i \in DOMAIN intents :
      AmountOf(msgs, {m \in Kind("deposit") : msgs[m].intent = i}) <= intents[i].amount

\* Where nothing fails, every inventory intent is fulfilled: it is picked up
\* again after a partial deposit and after a movement has arrived
\* (ActionTracker.getPartiallyFulfilledInventoryIntents), and completed by its
\* last delivery (completeRebalanceAction).
Fulfilled ==
  \A i \in 1..MaxIntents :
    (setting.faults = {} /\ i \in DOMAIN intents) ~>
      (i \in DOMAIN intents /\ intents[i].status = "complete")

\* An intent in progress does not stay so for ever, whatever was lost on the
\* way: it is completed by deliveries or failed at its TTL
\* (ActionTracker.syncRebalanceIntents).
IntentsEnd ==
  \A i \in 1..MaxIntents :
    (i \in DOMAIN intents /\ intents[i].status = "in_progress") ~>
      (i \notin DOMAIN intents \/ intents[i].status \in {"complete", "failed"})
=============================================================================
