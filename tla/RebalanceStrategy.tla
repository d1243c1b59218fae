-------------------------- MODULE RebalanceStrategy --------------------------
(***************************************************************************)
(* The strategies of the warp route rebalancer: from the collateral of the *)
(* route on every chain and from what is in flight they compute the moves  *)
(* ("routes") of one polling cycle.  Pure operators, one per method of     *)
(* BaseStrategy and of its subclasses.                                     *)
(*                                                                         *)
(* A strategy is a record of its configuration:                            *)
(*   kind       "weighted", "minAmount" or "collateralDeficit"             *)
(*   weight, tolerance (weighted), min, target, relative (minAmount: are   *)
(*              min and target percentages of the total), buffer           *)
(*              (collateralDeficit): functions of the chain                *)
(*   bridge     the bridge of a pair of chains, overrides applied;         *)
(*              "none" when the pair is executed with inventory            *)
(*   accepted   bridgeMinAcceptedAmount                                    *)
(* Amounts are canonical (message) units, so that the decimals of a chain  *)
(* do not appear.                                                          *)
(***************************************************************************)
EXTENDS Integers, Sequences, FiniteSets, FiniteSetsExt, SequencesExt

CONSTANT Chains  \* the chains of the route, numbered in config order

ASSUME ChainsAssumption == Chains \subseteq Nat /\ IsFiniteSet(Chains)

Sum(op(_), S) == SumFunctionOnSet([x \in S |-> op(x)], S)

\* The member of a set with one member.  Only({F(x) : x \in {e}}) is F(e) with
\* e evaluated once.
Only(S) == CHOOSE x \in S : TRUE

\* The elements of a sequence that are in S, in their order.
Selected(seq, S) == FoldLeft(LAMBDA q, x : IF x \in S THEN Append(q, x) ELSE q, <<>>, seq)

\* BigInt division truncates towards zero, \div rounds down.
BigIntDiv(a, b) == IF a >= 0 THEN a \div b ELSE -((-a) \div b)

-----------------------------------------------------------------------------
(* Projections of the balances *)

\* Mutation: pending transfers reserve nothing.
NothingReserved(balances, transfers) == balances

\* A pending transfer is [origin, destination, amount]; its destination may
\* become negative.
reserveCollateral(balances, transfers) ==
  FoldLeft(LAMBDA b, t : [b EXCEPT ![t.destination] = @ - t.amount], balances, transfers)

Positive(n) == IF n > 0 THEN n ELSE 0

\* Mutation: what is in flight is forgotten.
PendingForgotten(balances, pending) == balances

\* Movable collateral has left its origin.  Inventory fills the destination
\* by what no deposit has brought yet, and takes from the origin what no
\* delivered message has released yet.
simulatePendingRebalances(balances, pending) ==
  FoldLeft(LAMBDA b, r :
             IF r.method = "inventory"
             THEN [[b EXCEPT ![r.destination] = @ + Positive(r.amount - r.delivered - r.awaiting)]
                     EXCEPT ![r.origin] = @ - Positive(r.amount - r.delivered)]
             ELSE [b EXCEPT ![r.destination] = @ + r.amount],
           balances, pending)

SimulateRoute(balances, route) ==
  [[balances EXCEPT ![route.origin] = @ - route.amount]
             EXCEPT ![route.destination] = @ + route.amount]

simulateProposedRebalances(balances, proposed) == FoldLeft(SimulateRoute, balances, proposed)

-----------------------------------------------------------------------------
(* Surpluses and deficits *)

\* A rebalance without a bridge (recovered, or executed with inventory) is
\* always taken into account.
filterByConfiguredBridges(strategy, rebalances) ==
  Selected(rebalances, {r \in Range(rebalances) :
    r.bridge = "none" \/ r.bridge = strategy.bridge[r.origin, r.destination]})

Simulated(strategy, balances, pending, proposed) ==
  LET seen(rs) == IF strategy.kind = "collateralDeficit"
                  THEN filterByConfiguredBridges(strategy, rs)
                  ELSE rs
  IN  simulateProposedRebalances(simulatePendingRebalances(balances, seen(pending)),
                                 seen(proposed))

Total(balances) == Sum(LAMBDA c : balances[c], Chains)

\* What the constructors of the strategies check.
ValidStrategy(strategy) ==
  /\ strategy.bridge \in [Chains \X Chains -> STRING]
  /\ \/ /\ strategy.kind = "weighted"
        /\ strategy.weight \in [Chains -> Nat] /\ Total(strategy.weight) > 0
        /\ strategy.tolerance \in [Chains -> 0..100]
     \/ /\ strategy.kind = "minAmount" /\ strategy.relative \in BOOLEAN
        /\ strategy.min \in [Chains -> Nat] /\ strategy.target \in [Chains -> Nat]
        /\ \A c \in Chains : strategy.min[c] <= strategy.target[c]
     \/ strategy.kind = "collateralDeficit" /\ strategy.buffer \in [Chains -> Int]

\* The config schema: CollateralDeficitStrategy comes first when it is used.
ValidStrategies(strategies) ==
  /\ Len(strategies) \in Nat /\ DOMAIN strategies = 1..Len(strategies)
  /\ \A i \in DOMAIN strategies : ValidStrategy(strategies[i])
  /\ (\E i \in DOMAIN strategies : strategies[i].kind = "collateralDeficit") =>
       strategies[1].kind = "collateralDeficit"

\* What a strategy wants of chain c when the balances add up to `total':
\*   below  a smaller balance is a deficit
\*   fill   the balance a deficit is filled to
\*   keep   what exceeds it is a surplus
WeightedBand(strategy, total, c) ==
  LET target == BigIntDiv(total * strategy.weight[c], Total(strategy.weight))
  IN  [chain |-> c, below |-> target - BigIntDiv(target * strategy.tolerance[c], 100),
       fill |-> target, keep |-> target]

\* Mutation: a chain is in deficit below its target, not below its minimum.
DeficitBelowTarget(strategy, total, c) ==
  LET amount(x) == IF strategy.relative THEN (total * x) \div 100 ELSE x
  IN  [chain |-> c, below |-> amount(strategy.target[c]), fill |-> amount(strategy.target[c]),
       keep |-> amount(strategy.min[c])]

\* Relative amounts are percentages of the total, rounded down.
MinAmountBand(strategy, total, c) ==
  LET amount(x) == IF strategy.relative THEN (total * x) \div 100 ELSE x
  IN  [chain |-> c, below |-> amount(strategy.min[c]), fill |-> amount(strategy.target[c]),
       keep |-> amount(strategy.min[c])]

CollateralDeficitBand(strategy, c) ==
  [chain |-> c, below |-> 0, fill |-> strategy.buffer[c], keep |-> 0]

Band(strategy, total, c) ==
  CASE strategy.kind = "weighted" -> WeightedBand(strategy, total, c)
    [] strategy.kind = "minAmount" -> MinAmountBand(strategy, total, c)
    [] strategy.kind = "collateralDeficit" -> CollateralDeficitBand(strategy, c)

Bands(strategy, balances) ==
  {Band(strategy, total, c) : c \in Chains, total \in {Total(balances)}}

\* getCategorizedBalances: sets of [chain, amount], called Delta in the code.
Deficits(balances, bands) ==
  {[chain |-> w.chain, amount |-> w.fill - balances[w.chain]] :
     w \in {x \in bands : balances[x.chain] < x.below}}

Surpluses(balances, bands) ==
  {[chain |-> w.chain, amount |-> balances[w.chain] - w.keep] :
     w \in {x \in bands : balances[x.chain] >= x.below /\ balances[x.chain] > x.keep}}

Amount(deltas) == Sum(LAMBDA d : d.amount, deltas)

\* When the surpluses do not suffice the deficits are scaled down, each
\* rounded down on its own.
Scaled(deficits, surpluses) ==
  IF Amount(surpluses) >= Amount(deficits) THEN deficits
  ELSE {[d EXCEPT !.amount = BigIntDiv(@ * Amount(surpluses), Amount(deficits))] : d \in deficits}

-----------------------------------------------------------------------------
(* Matching surpluses with deficits *)

\* Largest amount first, config order among equals, chains of `first' before
\* all others.
Precedes(a, b, first) ==
  \/ a.chain \in first /\ b.chain \notin first
  \/ /\ a.chain \in first <=> b.chain \in first
     /\ a.amount > b.amount \/ (a.amount = b.amount /\ a.chain < b.chain)

\* The delta that k - 1 others precede is the k-th.
SortedDeltas(deltas, first) ==
  [k \in 1..Cardinality(deltas) |->
     CHOOSE d \in deltas : Cardinality({e \in deltas : Precedes(e, d, first)}) = k - 1]

Shrink(deltas, amount) ==
  LET rest == Head(deltas).amount - amount
  IN  IF rest <= 0 THEN Tail(deltas)
      ELSE <<[Head(deltas) EXCEPT !.amount = rest]>> \o Tail(deltas)

\* Mutation: a surplus is sent whole.
MatchWholeSurplus(strategy, m) ==
  IF m.surpluses = <<>> \/ m.deficits = <<>> THEN m
  ELSE LET s == Head(m.surpluses)
           d == Head(m.deficits)
       IN  [surpluses |-> Tail(m.surpluses),
            deficits |-> Shrink(m.deficits, s.amount),
            routes |-> Append(m.routes,
              [origin |-> s.chain, destination |-> d.chain, amount |-> s.amount,
               bridge |-> strategy.bridge[s.chain, d.chain]])]

\* One turn of the while loop.
MatchStep(strategy, m) ==
  IF m.surpluses = <<>> \/ m.deficits = <<>> THEN m
  ELSE LET s == Head(m.surpluses)
           d == Head(m.deficits)
           amount == Min({s.amount, d.amount})
           route == [origin |-> s.chain, destination |-> d.chain, amount |-> amount,
                     bridge |-> strategy.bridge[s.chain, d.chain]]
       IN  [surpluses |-> Shrink(m.surpluses, amount),
            deficits |-> Shrink(m.deficits, amount),
            routes |-> IF amount > 0 THEN Append(m.routes, route) ELSE m.routes]

\* Every turn removes a delta, so this many turns empty one of the lists.
Matched(strategy, surpluses, deficits) ==
  FoldLeft(LAMBDA m, turn : Only({MatchStep(strategy, x) : x \in {m}}),
           [surpluses |-> surpluses, deficits |-> deficits, routes |-> <<>>],
           [turn \in 1..(Len(surpluses) + Len(deficits)) |-> turn]).routes

\* Each route is held against the actual balance on its own.
filterRoutes(strategy, routes, actual) ==
  Only({Selected(x, {r \in Range(x) :
          r.amount <= actual[r.origin] /\ r.amount >= strategy.accepted}) : x \in {routes}})

\* buildTransferOriginMap: the origins of the pending transfers to a deficit.
TransferOrigins(transfers, deficits) ==
  {t.origin : t \in {x \in Range(transfers) : \E d \in deficits : d.chain = x.destination}}

\* The routes for surpluses and deficits.  CollateralDeficitStrategy prefers
\* the origins of the transfers that made the deficit.
RoutesFor(strategy, surpluses, deficits, transfers) ==
  Matched(strategy,
          SortedDeltas(surpluses, IF strategy.kind = "collateralDeficit"
                                  THEN TransferOrigins(transfers, deficits) ELSE {}),
          SortedDeltas(Scaled(deficits, surpluses), {}))

CategorizedRoutes(strategy, balances, transfers) ==
  Only({RoutesFor(strategy, Surpluses(balances, bands), Deficits(balances, bands), transfers) :
        bands \in {Bands(strategy, balances)}})

getRebalancingRoutes(strategy, raw, context, proposed) ==
  Only({filterRoutes(strategy, CategorizedRoutes(strategy, balances, context.transfers), raw) :
        balances \in {Simulated(strategy, reserveCollateral(raw, context.transfers),
                                context.rebalances,
                                IF strategy.kind = "collateralDeficit"
                                THEN <<>> ELSE proposed)}})

\* CompositeStrategy: every strategy sees the routes of the ones before it.
\* One strategy alone is run directly, which is the same.
CompositeRoutes(strategies, raw, context) ==
  FoldLeft(LAMBDA proposed, strategy :
             Only({routes \o getRebalancingRoutes(strategy, raw, context, routes) :
                   routes \in {proposed}}),
           <<>>, strategies)
=============================================================================
