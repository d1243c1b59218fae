--------------------------- MODULE RebalanceRounds ---------------------------
(***************************************************************************)
(* Polling cycles of the rebalancer with movable collateral routes only    *)
(* and a tracker that knows exactly what is in flight: what the strategies *)
(* do to the collateral over several cycles, while users transfer and      *)
(* messages are delivered in any order.  Rebalancer.tla has the real       *)
(* tracker, and inventory.                                                 *)
(***************************************************************************)
EXTENDS RebalanceStrategy

CONSTANTS Configs,            \* configured strategies, in order: one of these
          InitialCollateral,  \* chain -> collateral at the start
          TransferAmounts,    \* amounts a user transfers
          MaxTransfers,       \* bounds: user transfers of a behaviour,
          MaxInFlight         \*   rebalances in flight when a cycle begins

ASSUME ConfigsAssumption == \A s \in Configs : ValidStrategies(s)
ASSUME AmountsAssumption == InitialCollateral \in [Chains -> Nat] /\ TransferAmounts \subseteq Nat

VARIABLES config,      \* the strategies of this process
          collateral,  \* what the routers hold, chain -> amount
          transfers,   \* user transfers in flight, in order of dispatch
          rebalances,  \* rebalances in flight, in order of dispatch
          used         \* user transfers so far

vars == <<config, collateral, transfers, rebalances, used>>

Context == [transfers |-> transfers, rebalances |-> rebalances]
Proposed == CompositeRoutes(config, collateral, Context)

\* Collateral once everything in flight has been delivered.
Settled(raw, context) ==
  simulatePendingRebalances(reserveCollateral(raw, context.transfers), context.rebalances)

\* What the pending transfers will release on chain c.
Reserved(c) == Sum(LAMBDA i : IF transfers[i].destination = c THEN transfers[i].amount ELSE 0,
                   DOMAIN transfers)

Init ==
  /\ config \in Configs
  /\ collateral = InitialCollateral
  /\ transfers = <<>> /\ rebalances = <<>> /\ used = 0

\* A user deposits on `o'; the message releases the amount on `d'.
UserTransfer(o, d, amount) ==
  /\ used < MaxTransfers
  /\ o # d
  /\ used' = used + 1
  /\ collateral' = [collateral EXCEPT ![o] = @ + amount]
  /\ transfers' = Append(transfers, [origin |-> o, destination |-> d, amount |-> amount])
  /\ UNCHANGED <<config, rebalances>>

\* The release reverts while the router lacks the collateral.
DeliverTransfer(i) ==
  /\ i \in DOMAIN transfers
  /\ collateral[transfers[i].destination] >= transfers[i].amount
  /\ collateral' = [collateral EXCEPT ![transfers[i].destination] = @ - transfers[i].amount]
  /\ transfers' = RemoveAt(transfers, i)
  /\ UNCHANGED <<config, rebalances, used>>

DeliverRebalance(i) ==
  /\ i \in DOMAIN rebalances
  /\ collateral' = [collateral EXCEPT ![rebalances[i].destination] = @ + rebalances[i].amount]
  /\ rebalances' = RemoveAt(rebalances, i)
  /\ UNCHANGED <<config, transfers, used>>

\* A route is sent when the router still holds its amount, else it reverts.
Send(state, r) ==
  IF state.collateral[r.origin] < r.amount THEN state
  ELSE [collateral |-> [state.collateral EXCEPT ![r.origin] = @ - r.amount],
        rebalances |-> Append(state.rebalances,
          [origin |-> r.origin, destination |-> r.destination, amount |-> r.amount,
           bridge |-> r.bridge, method |-> "movable", delivered |-> 0, awaiting |-> 0])]

\* In order on each origin; the origins, sent to in parallel, share nothing.
SendAll(state, routes) == FoldLeft(Send, state, routes)

Cycle ==
  /\ Len(rebalances) <= MaxInFlight
  /\ \E routes \in {Proposed} :
       /\ routes # <<>>
       /\ \E sent \in {SendAll([collateral |-> collateral, rebalances |-> rebalances], routes)} :
            collateral' = sent.collateral /\ rebalances' = sent.rebalances
  /\ UNCHANGED <<config, transfers, used>>

\* A cycle that proposes nothing leaves everything as it is.
Idle == Proposed = <<>> /\ UNCHANGED vars

Next ==
  \/ \E o, d \in Chains, a \in TransferAmounts : UserTransfer(o, d, a)
  \/ \E i \in DOMAIN transfers : DeliverTransfer(i)
  \/ \E i \in DOMAIN rebalances : DeliverRebalance(i)
  \/ Cycle
  \/ Idle

\* The monitor keeps polling and the relayer delivers every rebalance: the
\* oldest in flight, again and again.
Fairness == WF_vars(Cycle) /\ WF_vars(DeliverRebalance(1))

Spec == Init /\ [][Next]_vars /\ Fairness

-----------------------------------------------------------------------------
\* Proposing what is already on its way again would rebalance twice: straight
\* after a cycle whose routes were all sent, a strategy on its own proposes
\* nothing (BaseStrategy.simulatePendingRebalances), but for the remainder that
\* rounding leaves of scaled deficits, which MCConfigs does not meet.
ProposesOnce ==
  [][Len(config) = 1 /\ Cycle /\ Len(rebalances') = Len(rebalances) + Len(Proposed)
       => Proposed' = <<>>]_vars

\* The moves of a cycle leave every chain they take from with what the
\* strategy keeps there, and fill no chain past its target, counting all that
\* is in flight (BaseStrategy.getRebalancingRoutes with one strategy).
StaysInBand ==
  [][Len(config) = 1 /\ Cycle =>
       \A before \in {Settled(collateral, Context)},
          after \in {Settled(collateral', Context')} :
         \A w \in Bands(config[1], before) :
           /\ after[w.chain] < before[w.chain] => after[w.chain] >= w.keep
           /\ after[w.chain] > before[w.chain] => after[w.chain] <= w.fill]_vars

\* "Reserve collateral for pending user transfers": a cycle never takes
\* collateral that a pending transfer needs on its destination, unless that
\* chain has a rebalance on its way: routes are computed on the projected
\* balances and held against the raw ones (BaseStrategy.filterRoutes).  In a
\* composition a proposed route to the chain has the effect of one on its way;
\* with the strategies of MCConfigs it does not matter.
ReservationHonoured ==
  [][transfers' = transfers => \A c \in Chains :
       (\A i \in DOMAIN rebalances : rebalances[i].destination # c) =>
         collateral'[c] >= Min({collateral[c], Reserved(c)})]_vars

\* Once the users stop the cycles do too: no two strategies, and no two
\* chains, keep sending the same collateral to and fro.
Converges == <>[](Proposed = <<>>)

=============================================================================
