--------------------------- MODULE ConfirmedRounds ---------------------------
(***************************************************************************)
(* Polling cycles at the level of blocks.  The monitor fixes a confirmed   *)
(* block of every chain and reads the balances there; the tracker asks     *)
(* whether its messages are delivered at the same block; a rebalance is    *)
(* recorded when its transaction has the confirmations of the chain's      *)
(* reorg period.  Rebalancer.tla takes for granted that the three agree.   *)
(* Movable routes, no users, no faults: what is in flight is all known.    *)
(***************************************************************************)
EXTENDS RebalanceStrategy

CONSTANTS Strategies,         \* the configured strategies, in order
          InitialCollateral,  \* chain -> collateral
          ReorgPeriod,        \* chain -> [named, depth]: a block tag such as
                              \* "finalized", or a number of blocks
          MaxHeight,          \* bound: blocks of a chain
          MaxRebalances       \* bound: rebalances, further routes are not sent

ASSUME StrategiesAssumption == ValidStrategies(Strategies)

ASSUME ReorgPeriodAssumption ==
  \A c \in Chains : ReorgPeriod[c].named \in BOOLEAN /\ ReorgPeriod[c].depth \in Nat

ASSUME CollateralAssumption == InitialCollateral \in [Chains -> Nat]

ASSUME BoundsAssumption == MaxHeight \in Nat \ {0} /\ MaxRebalances \in Nat

VARIABLES
  height,      \* chain -> latest block
  tagged,      \* chain -> block a named tag stands for
  rebalances,  \* [origin, destination, amount, bridge, sent, received, status];
               \* sent and received are blocks, 0 before
  pc,          \* "idle", "sync", "send"
  event        \* the polling event: [tag, raw]

vars == <<height, tagged, rebalances, pc, event>>

\* validateRoute and prepareTransaction: the route joins chains of the config,
\* and its amount is an unsigned integer.  The permissions that validateRoute
\* asks the contracts for are granted.
Valid(r) == r.origin \in Chains /\ r.destination \in Chains /\ r.amount \in Nat

Sending == {i \in DOMAIN rebalances : rebalances[i].status = "sending"}
Prepared == {i \in Sending : Valid(rebalances[i])}
InProgress == {i \in DOMAIN rebalances : rebalances[i].status = "in_progress"}

\* What the router of chain c holds at block b.
BalanceAt(c, b) ==
  InitialCollateral[c]
  + Sum(LAMBDA i : LET r == rebalances[i]
                   IN  (IF r.destination = c /\ r.received \in 1..b THEN r.amount ELSE 0)
                       - (IF r.origin = c /\ r.sent \in 1..b THEN r.amount ELSE 0),
        DOMAIN rebalances)

\* getConfirmedBlockTag
Tag(c) == IF ReorgPeriod[c].named THEN tagged[c]
          ELSE Positive(height[c] - ReorgPeriod[c].depth)

\* Mutation: the transaction is mined, and nothing else is waited for.
ConfirmedWhenMined(c, b) == b >= 1

\* handleTx has waited long enough for a transaction of block b: wait(n)
\* counts the block of the transaction as the first confirmation.
Confirmed(c, b) ==
  IF ReorgPeriod[c].named THEN tagged[c] >= b
  ELSE height[c] >= b + Positive(ReorgPeriod[c].depth - 1)

NoEvent == [tag |-> [c \in Chains |-> 0], raw |-> [c \in Chains |-> 0]]

Init ==
  /\ height = [c \in Chains |-> 1] /\ tagged = [c \in Chains |-> 1]
  /\ rebalances = <<>> /\ pc = "idle" /\ event = NoEvent

-----------------------------------------------------------------------------
(* The chains *)

Mine(c) ==
  /\ height[c] < MaxHeight
  /\ height' = [height EXCEPT ![c] = @ + 1]
  /\ UNCHANGED <<tagged, rebalances, pc, event>>

Finalize(c) ==
  /\ tagged[c] < height[c]
  /\ tagged' = [tagged EXCEPT ![c] = @ + 1]
  /\ UNCHANGED <<height, rebalances, pc, event>>

\* A transaction is mined in a block of its own.
MinedIn(c) == /\ height[c] < MaxHeight
              /\ height' = [height EXCEPT ![c] = @ + 1]

Deliver(i) ==
  /\ i \in DOMAIN rebalances
  /\ rebalances[i].sent > 0 /\ rebalances[i].received = 0
  /\ MinedIn(rebalances[i].destination)
  /\ rebalances' = [rebalances EXCEPT ![i].received = height[rebalances[i].destination] + 1]
  /\ UNCHANGED <<tagged, pc, event>>

-----------------------------------------------------------------------------
(* A cycle *)

\* computeConfirmedBlockTags and the balances at those blocks.
Poll ==
  /\ pc = "idle"
  /\ event' = [tag |-> [c \in Chains |-> Tag(c)], raw |-> [c \in Chains |-> BalanceAt(c, Tag(c))]]
  /\ pc' = "sync"
  /\ UNCHANGED <<height, tagged, rebalances>>

\* Mutation: isDelivered is asked at the latest block.
DeliveredLatest == {i \in InProgress : rebalances[i].received > 0}

\* The messages isDelivered confirms at the block of the event.
DeliveredAtTag ==
  {i \in InProgress : rebalances[i].received \in 1..event.tag[rebalances[i].destination]}

\* syncRebalanceActions: the intents that are left are the context.
Synced == [i \in DOMAIN rebalances |->
             IF i \in DeliveredAtTag THEN [rebalances[i] EXCEPT !.status = "complete"]
             ELSE rebalances[i]]

Pending(rs) ==
  FoldLeft(LAMBDA p, r :
             IF r.status = "in_progress"
             THEN Append(p, [origin |-> r.origin, destination |-> r.destination,
                             amount |-> r.amount, bridge |-> r.bridge,
                             method |-> "movable", delivered |-> 0, awaiting |-> 0])
             ELSE p,
           <<>>, rs)

\* createIntents, for the first n routes.
Begun(routes, n) ==
  [k \in 1..n |-> [origin |-> routes[k].origin, destination |-> routes[k].destination,
                   amount |-> routes[k].amount, bridge |-> routes[k].bridge,
                   sent |-> 0, received |-> 0, status |-> "sending"]]

\* The sync and the decision; the sends of the routes begin.
Decide ==
  /\ pc = "sync"
  /\ \E routes \in {CompositeRoutes(Strategies, event.raw, [transfers |-> <<>>,
                                                            rebalances |-> Pending(Synced)])} :
     \E n \in 0..(MaxRebalances - Len(rebalances)) :
       /\ n = Min({Len(routes), MaxRebalances - Len(rebalances)})
       /\ rebalances' = Synced \o Begun(routes, n)
  /\ pc' = "send"
  /\ UNCHANGED <<height, tagged, event>>

\* Chains in parallel; on a chain one transaction after the other, each once
\* the one before is confirmed.
Send(i) ==
  /\ pc = "send" /\ i \in Prepared /\ rebalances[i].sent = 0
  /\ LET r == rebalances[i]
     IN  /\ \A k \in Prepared : k < i /\ rebalances[k].origin = r.origin =>
              rebalances[k].sent > 0 /\ Confirmed(r.origin, rebalances[k].sent)
         /\ BalanceAt(r.origin, height[r.origin]) >= r.amount
         /\ MinedIn(r.origin)
         /\ rebalances' = [rebalances EXCEPT ![i].sent = height[r.origin] + 1]
  /\ UNCHANGED <<tagged, pc, event>>

\* Mutation: the results are taken before the sends are.
ResultsAtOnce ==
  /\ pc = "send"
  /\ rebalances' = [i \in DOMAIN rebalances |->
                      IF i \in Sending THEN [rebalances[i] EXCEPT !.status = "in_progress"]
                      ELSE rebalances[i]]
  /\ pc' = "idle" /\ event' = NoEvent
  /\ UNCHANGED <<height, tagged>>

\* processResults, when all sends are confirmed: the intents of the routes that
\* could not be prepared fail, the others are in progress.  The next cycle may start at
\* once (Monitor sleeps for what is left of the interval, if anything).
ProcessResults ==
  /\ pc = "send"
  /\ \A i \in Prepared : /\ rebalances[i].sent > 0
                         /\ Confirmed(rebalances[i].origin, rebalances[i].sent)
  /\ rebalances' = [i \in DOMAIN rebalances |->
                      IF i \in Sending
                      THEN [rebalances[i] EXCEPT !.status = IF i \in Prepared THEN "in_progress"
                                                                             ELSE "failed"]
                      ELSE rebalances[i]]
  /\ pc' = "idle" /\ event' = NoEvent
  /\ UNCHANGED <<height, tagged>>

Chain == \/ \E c \in Chains : Mine(c) \/ Finalize(c)
         \/ \E i \in DOMAIN rebalances : Deliver(i)

Next == Chain \/ Poll \/ Decide \/ ProcessResults \/ \E i \in DOMAIN rebalances : Send(i)

Spec == Init /\ [][Next]_vars

-----------------------------------------------------------------------------
TypeOK ==
  /\ height \in [Chains -> 1..MaxHeight]
  /\ \A c \in Chains : tagged[c] \in 1..height[c]
  /\ \A i \in DOMAIN rebalances :
       LET r == rebalances[i]
       IN  \/ ~Valid(r) /\ r.sent = 0 /\ r.received = 0 /\ r.status \in {"sending", "failed"}
           \/ /\ Valid(r) /\ r.status \in {"sending", "in_progress", "complete"}
              /\ r.sent \in 0..height[r.origin] /\ r.received \in 0..height[r.destination]
              /\ r.received > 0 \/ r.status = "in_progress" => r.sent > 0
              /\ r.status = "complete" => r.received > 0
  /\ \A c \in Chains : event.tag[c] \in 0..height[c] /\ event.raw[c] \in Nat
  /\ pc \in {"idle", "sync", "send"}

\* The two uses of the reorg period agree: a send waits for as many blocks as
\* the tag stays behind.  With a number n > 0 they do not: ethers returns when
\* the latest block is n - 1 past the transaction's, and the tag is n behind.
Agreeing == \A c \in Chains : ReorgPeriod[c].named \/ ReorgPeriod[c].depth = 0

\* When the strategies are asked, their projection (balances read at the
\* confirmed blocks, and the rebalances in progress added) holds all of the
\* collateral and no more: what is on its way is seen by exactly one of the
\* reads, however deliveries and confirmations fall between them
\* (BaseStrategy.simulatePendingRebalances).  It needs OriginDeducted.
Conserved ==
  pc = "sync" /\ Agreeing =>
    Total(simulatePendingRebalances(event.raw, Pending(Synced))) = Total(InitialCollateral)

\* "their origin tx is confirmed so simulation only needs to add to
\* destination (origin already deducted on-chain)": the balances of the event
\* have been read at a block that holds the origin transaction of every
\* intent in progress (ActionTracker.getActiveRebalanceIntents).  The code
\* ensures it only where the two uses of the reorg period agree.
OriginDeducted ==
  pc = "sync" /\ Agreeing => \A i \in InProgress : rebalances[i].sent <= event.tag[rebalances[i].origin]
=============================================================================
