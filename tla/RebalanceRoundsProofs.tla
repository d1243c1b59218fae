------------------------- MODULE RebalanceRoundsProofs -------------------------
(***************************************************************************)
(* What one strategy does to the balances, for every set of chains and     *)
(* every valid strategy.  First what a sequence of transfers or routes     *)
(* carries from and to a chain; then that the matching loop takes from a   *)
(* chain no more than its surplus and brings it no more than its deficit;  *)
(* then the cycle.                                                         *)
(***************************************************************************)
EXTENDS RebalanceRounds, RebalanceStrategyProofs

-----------------------------------------------------------------------------
(* What a sequence carries *)

\* What the first k elements that are in W carry together, and all of them.
Load(u, W) == IF u \in W THEN u.amount ELSE 0
Carried(q, W, k) == SumFunctionOnSet([j \in DOMAIN q |-> Load(q[j], W)], 1..k)
Whole(q, W) == Carried(q, W, Len(q))

From(U, c) == {u \in U : u.origin = c}
To(U, c) == {u \in U : u.destination = c}

Amounts(U, S) == \A u \in U : u.amount \in S

\* Element by element.
LEMMA CarriedSteps ==
  ASSUME NEW U, Amounts(U, Int), NEW q \in Seq(U), NEW W, NEW n \in Nat, n = Len(q)
  PROVE  /\ Carried(q, W, 0) = 0
         /\ \A k \in 0..n : Carried(q, W, k) \in Int
         /\ \A k \in Nat : k + 1 <= n => /\ Load(q[k + 1], W) \in Int
                                         /\ Carried(q, W, k + 1) = Carried(q, W, k) + Load(q[k + 1], W)
<1> DEFINE f == [j \in DOMAIN q |-> Load(q[j], W)]
<1>1. DOMAIN q = 1..n /\ \A j \in 1..n : q[j] \in U
  OBVIOUS
<1>2. \A j \in 1..n : f[j] = Load(q[j], W) /\ f[j] \in Int
  BY <1>1 DEF Load, Amounts
<1>3. \A k : Carried(q, W, k) = SumFunctionOnSet(f, 1..k)
  BY DEF Carried
<1> HIDE DEF f
<1>4. ASSUME NEW k \in 0..n PROVE SumFunctionOnSet(f, 1..k) \in Int
  <2>1. IsFiniteSet(1..k) /\ \A j \in 1..k : f[j] \in Int
    BY <1>2, FS_Interval
  <2> QED BY <2>1, SumType
<1>5. SumFunctionOnSet(f, 1..0) = 0
  <2>1. 1..0 = {} /\ IsFiniteSet(1..0) /\ \A j \in 1..0 : f[j] \in Int
    BY FS_Interval
  <2> QED BY <2>1, SumType
<1>6. ASSUME NEW k \in Nat, k + 1 <= n
      PROVE  /\ f[k + 1] \in Int /\ f[k + 1] = Load(q[k + 1], W)
             /\ SumFunctionOnSet(f, 1..(k + 1)) = SumFunctionOnSet(f, 1..k) + f[k + 1]
  <2>1. k + 1 \in 1..n /\ \A j \in 1..(k + 1) : j \in 1..n
    BY <1>6
  <2>2. \A j \in 1..(k + 1) : f[j] \in Int
    BY <1>2, <2>1
  <2> QED BY <1>2, <2>1, <2>2, SumLast
<1> QED BY <1>3, <1>4, <1>5, <1>6

\* Nothing carries less than nothing.
LEMMA CarriedNat ==
  ASSUME NEW U, Amounts(U, Nat), NEW q \in Seq(U), NEW W
  PROVE  Whole(q, W) \in Nat
<1> DEFINE f == [j \in DOMAIN q |-> Load(q[j], W)]
<1>1. PICK n \in Nat : n = Len(q) /\ DOMAIN q = 1..n /\ \A j \in 1..n : q[j] \in U
  OBVIOUS
<1>2. \A j \in 1..n : f[j] \in Nat
  BY <1>1 DEF Load, Amounts
<1>3. Whole(q, W) = SumFunctionOnSet(f, 1..n)
  BY <1>1 DEF Whole, Carried
<1>4. IsFiniteSet(1..n)
  BY FS_Interval
<1> HIDE DEF f
<1> QED BY <1>2, <1>3, <1>4, SumNat

\* Appending an element adds what it carries.
LEMMA CarriedAppended ==
  ASSUME NEW U, Amounts(U, Int), NEW q \in Seq(U), NEW u \in U, NEW W
  PROVE  /\ Whole(q, W) \in Int /\ Load(u, W) \in Int
         /\ Whole(Append(q, u), W) = Whole(q, W) + Load(u, W)
<1>1. PICK n \in Nat : n = Len(q) /\ DOMAIN q = 1..n
  OBVIOUS
<1>2. PICK p : p = Append(q, u)
  OBVIOUS
<1>3. /\ p \in Seq(U) /\ Len(p) = n + 1 /\ DOMAIN p = 1..(n + 1) /\ p[n + 1] = u
      /\ \A j \in 1..n : p[j] = q[j]
  BY <1>1, <1>2
<1>4. Whole(q, W) \in Int
  <2>1. n \in 0..n /\ \A k \in 0..n : Carried(q, W, k) \in Int
    BY <1>1, CarriedSteps
  <2> QED BY <1>1, <2>1 DEF Whole
<1>5. Load(u, W) \in Int /\ Carried(p, W, n + 1) = Carried(p, W, n) + Load(u, W)
  <2>1. PICK m \in Nat : m = n + 1 /\ m = Len(p)
    BY <1>3
  <2>2. \A k \in Nat : k + 1 <= m => /\ Load(p[k + 1], W) \in Int
                                     /\ Carried(p, W, k + 1) = Carried(p, W, k) + Load(p[k + 1], W)
    BY <1>3, <2>1, CarriedSteps
  <2>3. Load(p[n + 1], W) \in Int /\ Carried(p, W, n + 1) = Carried(p, W, n) + Load(p[n + 1], W)
    BY <2>1, <2>2
  <2> QED BY <1>3, <2>3
<1>6. Carried(p, W, n) = Carried(q, W, n)
  <2> DEFINE f == [j \in DOMAIN q |-> Load(q[j], W)]
             g == [j \in DOMAIN p |-> Load(p[j], W)]
  <2>1. \A j \in 1..n : f[j] \in Int /\ g[j] = f[j]
    BY <1>1, <1>3 DEF Load, Amounts
  <2>2. Carried(p, W, n) = SumFunctionOnSet(g, 1..n) /\ Carried(q, W, n) = SumFunctionOnSet(f, 1..n)
    BY DEF Carried
  <2>3. IsFiniteSet(1..n)
    BY FS_Interval
  <2> HIDE DEF f, g
  <2> QED BY <2>1, <2>2, <2>3, SumEq
<1> QED BY <1>1, <1>2, <1>3, <1>4, <1>5, <1>6 DEF Whole
-----------------------------------------------------------------------------
(* The projections, chain by chain *)

\* Reserving takes from a chain what the pending transfers carry to it.
LEMMA ReservedAt ==
  ASSUME NEW b \in [Chains -> Int], NEW q \in Seq(PendingTransfer), NEW c \in Chains
  PROVE  /\ Whole(q, To(PendingTransfer, c)) \in Int
         /\ reserveCollateral(b, q)[c] = b[c] - Whole(q, To(PendingTransfer, c))
<1>0. PICK n \in Nat : n = Len(q) /\ DOMAIN q = 1..n
  OBVIOUS
<1> DEFINE D == [Chains -> Int]
           step == [k \in 1..n |-> [d \in D |-> ReserveOne(d, q[k])]]
<1>1. PICK W : W = To(PendingTransfer, c)
  OBVIOUS
<1>2. ASSUME NEW k \in 1..n, NEW d \in D
      PROVE  /\ step[k][d] = ReserveOne(d, q[k]) /\ step[k][d] \in D
             /\ step[k][d][c] = d[c] - Load(q[k], W)
  <2>0. q[k] \in PendingTransfer
    BY <1>0
  <2>1. q[k].destination \in Chains /\ q[k].amount \in Int
    BY <2>0 DEF PendingTransfer
  <2>2. q[k] \in W <=> q[k].destination = c
    BY <1>1, <2>0 DEF To
  <2>3. ReserveOne(d, q[k]) \in D /\ ReserveOne(d, q[k])[c] = d[c] - Load(q[k], W)
    BY <2>1, <2>2 DEF ReserveOne, Load
  <2> HIDE DEF D
  <2> QED BY <2>3
<1>3. PICK r \in [0..n -> D] : Run(r, n, b, step, reserveCollateral(b, q))
  <2>1. b \in D
    OBVIOUS
  <2> HIDE DEF D, step
  <2> QED BY <1>0, <1>2, <2>1, ReservedInOrder
<1>4. Amounts(PendingTransfer, Int)
  BY DEF Amounts, PendingTransfer
<1>5. /\ Carried(q, W, 0) = 0 /\ \A k \in 0..n : Carried(q, W, k) \in Int
      /\ \A k \in Nat : k + 1 <= n => /\ Load(q[k + 1], W) \in Int
                                      /\ Carried(q, W, k + 1) = Carried(q, W, k) + Load(q[k + 1], W)
  BY <1>0, <1>4, CarriedSteps
<1> DEFINE P == {k \in Nat : k <= n => r[k][c] = b[c] - Carried(q, W, k)}
<1>6. 0 \in P
  BY <1>3, <1>5 DEF Run
<1>7. ASSUME NEW k \in Nat, k \in P PROVE k + 1 \in P
  <2> SUFFICES ASSUME k + 1 <= n PROVE r[k + 1][c] = b[c] - Carried(q, W, k + 1)
    OBVIOUS
  <2>1. k + 1 \in 1..n /\ (k + 1) - 1 = k /\ k \in 0..n /\ k <= n
    OBVIOUS
  <2>2. r[k] \in D /\ r[k + 1] = step[k + 1][r[k]]
    <3> HIDE DEF D, step
    <3> QED BY <1>3, <2>1 DEF Run
  <2>3. r[k + 1][c] = r[k][c] - Load(q[k + 1], W)
    <3> HIDE DEF D, step
    <3> QED BY <1>2, <2>1, <2>2
  <2>4. PICK x \in Int, y \in Int, z \in Int :
          x = Carried(q, W, k) /\ y = Load(q[k + 1], W) /\ z = b[c]
    BY <1>5, <2>1
  <2>5. r[k][c] = z - x /\ Carried(q, W, k + 1) = x + y
    BY <1>5, <1>7, <2>1, <2>4
  <2> QED BY <2>3, <2>4, <2>5
<1>8. r[n][c] = b[c] - Carried(q, W, n)
  <2>1. Nat \subseteq P
    <3> HIDE DEF P
    <3> QED BY <1>6, <1>7, NatSetInduction
  <2> QED BY <2>1
<1> QED BY <1>0, <1>1, <1>3, <1>5, <1>8 DEF Run, Whole

\* The rebalances in flight: movable collateral only.
InFlight == [origin : Chains, destination : Chains, amount : Nat \ {0}, bridge : STRING,
             method : {"movable"}, delivered : {0}, awaiting : {0}]

\* They are what a tracker reports.
LEMMA InFlightReportable ==
  ASSUME NEW q \in Seq(InFlight)
  PROVE  Reportable(q) /\ Amounts(InFlight, Nat) /\ Amounts(InFlight, Int)
<1>1. \A u \in InFlight : Pendable(u) /\ u.amount \in Nat
  BY DEF InFlight, Pendable
<1>2. q \in Seq({q[k] : k \in DOMAIN q}) /\ \A k \in DOMAIN q : q[k] \in InFlight
  OBVIOUS
<1> QED BY <1>1, <1>2 DEF Reportable, Amounts

\* Simulating them brings to a chain what they carry to it.
LEMMA SimulatedAt ==
  ASSUME NEW b \in [Chains -> Int], NEW q \in Seq(InFlight), NEW c \in Chains
  PROVE  simulatePendingRebalances(b, q)[c] = b[c] + Whole(q, To(InFlight, c))
<1>0. PICK n \in Nat : n = Len(q) /\ DOMAIN q = 1..n /\ \A k \in 1..n : q[k] \in InFlight
  OBVIOUS
<1>1. PICK W : W = To(InFlight, c)
  OBVIOUS
<1>2. ASSUME NEW k \in 1..n, NEW d \in [Chains -> Int]
      PROVE  /\ SimulateOne(d, q[k]) \in [Chains -> Int]
             /\ SimulateOne(d, q[k])[c] = d[c] + Load(q[k], W)
  <2>0. q[k] \in InFlight
    BY <1>0
  <2>1. /\ q[k].destination \in Chains /\ q[k].amount \in Int /\ q[k].method # "inventory"
    <3>1. \A u \in InFlight : u.destination \in Chains /\ u.amount \in Int /\ u.method = "movable"
      BY DEF InFlight
    <3> QED BY <2>0, <3>1
  <2>2. q[k] \in W <=> q[k].destination = c
    BY <1>1, <2>0 DEF To
  <2> QED BY <2>1, <2>2 DEF SimulateOne, Load
<1>3. PICK h : /\ h[{}] = b
               /\ \A k \in 1..n : h[1..k] = SimulateOne(h[1..(k - 1)], q[k])
               /\ simulatePendingRebalances(b, q) = h[1..n]
  <2>1. \A k \in 1..n : Pendable(q[k])
    BY <1>0, InFlightReportable DEF Reportable
  <2> QED BY <1>0, <2>1, SimulatedInOrder
<1>4. /\ Carried(q, W, 0) = 0 /\ \A k \in 0..n : Carried(q, W, k) \in Int
      /\ \A k \in Nat : k + 1 <= n => /\ Load(q[k + 1], W) \in Int
                                      /\ Carried(q, W, k + 1) = Carried(q, W, k) + Load(q[k + 1], W)
  BY <1>0, InFlightReportable, CarriedSteps
<1> DEFINE P == {k \in Nat : k <= n => /\ h[1..k] \in [Chains -> Int]
                                       /\ h[1..k][c] = b[c] + Carried(q, W, k)}
<1>5. 0 \in P
  <2>1. 1..0 = {}
    OBVIOUS
  <2> QED BY <1>3, <1>4, <2>1
<1>6. ASSUME NEW k \in Nat, k \in P PROVE k + 1 \in P
  <2> SUFFICES ASSUME k + 1 <= n
               PROVE  /\ h[1..(k + 1)] \in [Chains -> Int]
                      /\ h[1..(k + 1)][c] = b[c] + Carried(q, W, k + 1)
    OBVIOUS
  <2>1. k + 1 \in 1..n /\ (k + 1) - 1 = k /\ k \in 0..n /\ k <= n
    OBVIOUS
  <2>2. PICK d \in [Chains -> Int] : d = h[1..k] /\ d[c] = b[c] + Carried(q, W, k)
    BY <1>6, <2>1
  <2>3. h[1..(k + 1)] = SimulateOne(d, q[k + 1])
    BY <1>3, <2>1, <2>2
  <2>4. PICK x \in Int, y \in Int, z \in Int :
          x = Carried(q, W, k) /\ y = Load(q[k + 1], W) /\ z = b[c]
    BY <1>4, <2>1
  <2>5. h[1..(k + 1)] \in [Chains -> Int] /\ h[1..(k + 1)][c] = d[c] + y
    BY <1>2, <2>1, <2>3, <2>4
  <2>6. d[c] = z + x /\ Carried(q, W, k + 1) = x + y
    BY <1>4, <2>2, <2>4
  <2> QED BY <2>4, <2>5, <2>6
<1>7. h[1..n][c] = b[c] + Carried(q, W, n)
  <2>1. Nat \subseteq P
    <3> HIDE DEF P
    <3> QED BY <1>5, <1>6, NatSetInduction
  <2> QED BY <2>1
<1> QED BY <1>0, <1>1, <1>3, <1>7 DEF Whole

\* What a chain holds once everything in flight has been delivered.
LEMMA SettledAt ==
  ASSUME NEW raw \in [Chains -> Int], NEW context, context.transfers \in Seq(PendingTransfer),
         context.rebalances \in Seq(InFlight)
  PROVE  /\ Settled(raw, context) \in [Chains -> Int]
         /\ \A c \in Chains :
              /\ Whole(context.transfers, To(PendingTransfer, c)) \in Int
              /\ Whole(context.rebalances, To(InFlight, c)) \in Nat
              /\ Settled(raw, context)[c] = raw[c] - Whole(context.transfers, To(PendingTransfer, c))
                                              + Whole(context.rebalances, To(InFlight, c))
<1>1. PICK b \in [Chains -> Int] : b = reserveCollateral(raw, context.transfers)
  BY ReservedType
<1>2. Settled(raw, context) = simulatePendingRebalances(b, context.rebalances)
  BY <1>1 DEF Settled
<1>3. Settled(raw, context) \in [Chains -> Int]
  BY <1>2, InFlightReportable, PendingType
<1>4. ASSUME NEW c \in Chains
      PROVE  /\ Whole(context.transfers, To(PendingTransfer, c)) \in Int
             /\ Whole(context.rebalances, To(InFlight, c)) \in Nat
             /\ Settled(raw, context)[c] = raw[c] - Whole(context.transfers, To(PendingTransfer, c))
                                             + Whole(context.rebalances, To(InFlight, c))
  <2>1. /\ Whole(context.transfers, To(PendingTransfer, c)) \in Int
        /\ b[c] = raw[c] - Whole(context.transfers, To(PendingTransfer, c))
    BY <1>1, ReservedAt
  <2>2. Settled(raw, context)[c] = b[c] + Whole(context.rebalances, To(InFlight, c))
    BY <1>2, SimulatedAt
  <2>3. Whole(context.rebalances, To(InFlight, c)) \in Nat
    BY InFlightReportable, CarriedNat
  <2> QED BY <2>1, <2>2, <2>3
<1> QED BY <1>3, <1>4

-----------------------------------------------------------------------------
(* Filters *)

\* What is selected carries no more than the whole.
LEMMA SelectedCarries ==
  ASSUME NEW U, Amounts(U, Nat), NEW q \in Seq(U), NEW S, NEW W
  PROVE  /\ Selected(q, S) \in Seq(U)
         /\ Whole(Selected(q, S), W) \in Nat /\ Whole(q, W) \in Nat
         /\ Whole(Selected(q, S), W) <= Whole(q, W)
<1>0. PICK n \in Nat : n = Len(q) /\ DOMAIN q = 1..n /\ \A k \in 1..n : q[k] \in U
  OBVIOUS
<1>1. Amounts(U, Int)
  BY DEF Amounts
<1> DEFINE D == Seq(U)
           none == << >>
           step == [k \in 1..n |-> [d \in D |-> SelectOne(d, q[k], S)]]
<1>2. none \in D /\ none = <<>>
  OBVIOUS
<1>3. ASSUME NEW k \in 1..n, NEW d \in D
      PROVE  /\ step[k][d] = SelectOne(d, q[k], S) /\ step[k][d] \in D
             /\ Whole(d, W) \in Int /\ Load(q[k], W) \in Nat
             /\ Whole(step[k][d], W) <= Whole(d, W) + Load(q[k], W)
  <2>1. q[k] \in U
    BY <1>0
  <2>2. SelectOne(d, q[k], S) \in D
    BY <2>1 DEF SelectOne
  <2>3. Load(q[k], W) \in Nat
    BY <2>1 DEF Load, Amounts
  <2>4. Whole(d, W) \in Int /\ Whole(Append(d, q[k]), W) = Whole(d, W) + Load(q[k], W)
    BY <1>1, <2>1, CarriedAppended
  <2>5. SelectOne(d, q[k], S) \in {d, Append(d, q[k])}
    BY DEF SelectOne
  <2>6. Whole(SelectOne(d, q[k], S), W) <= Whole(d, W) + Load(q[k], W)
    <3>1. CASE SelectOne(d, q[k], S) = d
      <4>1. Whole(d, W) <= Whole(d, W) + Load(q[k], W)
        BY <2>3, <2>4
      <4> QED BY <3>1, <4>1, Zenon
    <3>2. CASE SelectOne(d, q[k], S) = Append(d, q[k])
      <4>1. Whole(Append(d, q[k]), W) <= Whole(d, W) + Load(q[k], W)
        BY <2>3, <2>4
      <4> QED BY <3>2, <4>1, Zenon
    <3> QED BY <2>5, <3>1, <3>2
  <2> HIDE DEF D
  <2> QED BY <2>2, <2>3, <2>4, <2>6
<1>4. PICK r \in [0..n -> D] : Run(r, n, none, step, Selected(q, S))
  <2> HIDE DEF D, none, step
  <2> QED BY <1>0, <1>2, <1>3, SelectedInOrder
<1>5. /\ Carried(q, W, 0) = 0 /\ \A k \in 0..n : Carried(q, W, k) \in Int
      /\ \A k \in Nat : k + 1 <= n => /\ Load(q[k + 1], W) \in Int
                                      /\ Carried(q, W, k + 1) = Carried(q, W, k) + Load(q[k + 1], W)
  BY <1>0, <1>1, CarriedSteps
<1> DEFINE P == {k \in Nat : k <= n => Whole(r[k], W) <= Carried(q, W, k)}
<1>6. 0 \in P
  <2>1. r[0] = <<>>
    BY <1>4 DEF Run
  <2>2. <<>> \in Seq(U) /\ Len(<<>>) = 0
    OBVIOUS
  <2>3. Whole(<<>>, W) = 0
    <3>1. PICK e \in Seq(U) : e = <<>> /\ Len(e) = 0
      BY <2>2
    <3>2. Carried(e, W, 0) = 0
      BY <1>1, <3>1, CarriedSteps
    <3> QED BY <3>1, <3>2 DEF Whole
  <2> QED BY <1>5, <2>1, <2>3
<1>7. ASSUME NEW k \in Nat, k \in P PROVE k + 1 \in P
  <2> SUFFICES ASSUME k + 1 <= n PROVE Whole(r[k + 1], W) <= Carried(q, W, k + 1)
    OBVIOUS
  <2>1. k + 1 \in 1..n /\ (k + 1) - 1 = k /\ k \in 0..n /\ k + 1 \in 0..n /\ k <= n
    OBVIOUS
  <2>2. r[k] \in D /\ r[k + 1] \in D /\ r[k + 1] = step[k + 1][r[k]]
    <3> HIDE DEF D, step
    <3> QED BY <1>4, <2>1 DEF Run
  <2>3. PICK x \in Int, y \in Int, z \in Int, v \in Int :
          /\ x = Whole(r[k], W) /\ y = Load(q[k + 1], W) /\ z = Carried(q, W, k)
          /\ v = Whole(r[k + 1], W)
    <3>1. Whole(r[k], W) \in Int /\ Whole(r[k + 1], W) \in Int
      BY <1>1, <2>2, CarriedNat
    <3> QED BY <1>5, <2>1, <3>1
  <2>4. v <= x + y
    <3> HIDE DEF D, step
    <3> QED BY <1>3, <2>1, <2>2, <2>3
  <2>5. x <= z /\ Carried(q, W, k + 1) = z + y
    BY <1>5, <1>7, <2>1, <2>3
  <2> QED BY <2>3, <2>4, <2>5
<1>8. Whole(r[n], W) <= Carried(q, W, n)
  <2>1. Nat \subseteq P
    <3> HIDE DEF P
    <3> QED BY <1>6, <1>7, NatSetInduction
  <2> QED BY <2>1
<1>9. r[n] \in D /\ r[n] = Selected(q, S)
  <2> HIDE DEF D, none, step
  <2> QED BY <1>4 DEF Run
<1>10. Whole(Selected(q, S), W) \in Nat /\ Whole(q, W) \in Nat
  BY <1>9, CarriedNat
<1> QED BY <1>0, <1>8, <1>9, <1>10 DEF Whole

\* All of it is selected when all of it is in S.
LEMMA SelectedAll ==
  ASSUME NEW U, NEW q \in Seq(U), NEW S, \A k \in DOMAIN q : q[k] \in S
  PROVE  Selected(q, S) = q
<1>0. PICK n \in Nat : n = Len(q) /\ DOMAIN q = 1..n /\ \A k \in 1..n : q[k] \in U /\ q[k] \in S
  OBVIOUS
<1> DEFINE D == Seq(U)
           none == << >>
           step == [k \in 1..n |-> [d \in D |-> SelectOne(d, q[k], S)]]
<1>2. none \in D /\ none = <<>>
  OBVIOUS
<1>3. ASSUME NEW k \in 1..n, NEW d \in D
      PROVE  /\ step[k][d] = SelectOne(d, q[k], S) /\ step[k][d] \in D
             /\ step[k][d] = Append(d, q[k])
  <2>1. q[k] \in U /\ q[k] \in S
    BY <1>0
  <2>2. SelectOne(d, q[k], S) \in D /\ SelectOne(d, q[k], S) = Append(d, q[k])
    BY <2>1 DEF SelectOne
  <2> HIDE DEF D
  <2> QED BY <2>2
<1>4. PICK r \in [0..n -> D] : Run(r, n, none, step, Selected(q, S))
  <2> HIDE DEF D, none, step
  <2> QED BY <1>0, <1>2, <1>3, SelectedInOrder
<1> DEFINE Same(k) == Len(r[k]) = k /\ \A j \in 1..k : r[k][j] = q[j]
           P == {k \in Nat : k <= n => Same(k)}
<1>5. 0 \in P
  BY <1>4 DEF Run
<1>6. ASSUME NEW k \in Nat, k \in P PROVE k + 1 \in P
  <2> SUFFICES ASSUME k + 1 <= n PROVE Same(k + 1)
    <3> HIDE DEF Same
    <3> QED OBVIOUS
  <2>1. k + 1 \in 1..n /\ (k + 1) - 1 = k /\ k \in 0..n /\ k <= n
    OBVIOUS
  <2>2. r[k] \in D /\ r[k + 1] = step[k + 1][r[k]]
    <3> HIDE DEF D, step
    <3> QED BY <1>4, <2>1 DEF Run
  <2>3. r[k + 1] = Append(r[k], q[k + 1])
    <3> HIDE DEF D, step
    <3> QED BY <1>3, <2>1, <2>2
  <2>4. PICK d \in Seq(U) : d = r[k] /\ Len(d) = k /\ \A j \in 1..k : d[j] = q[j]
    BY <1>6, <2>1, <2>2
  <2>5. q[k + 1] \in U
    BY <1>0, <2>1
  <2> QED BY <2>3, <2>4, <2>5
<1>7. Len(r[n]) = n /\ \A j \in 1..n : r[n][j] = q[j]
  <2>1. Nat \subseteq P
    <3> HIDE DEF P
    <3> QED BY <1>5, <1>6, NatSetInduction
  <2> QED BY <2>1
<1>8. r[n] \in Seq(U) /\ r[n] = Selected(q, S)
  <2>1. n \in 0..n
    OBVIOUS
  <2>2. r[n] \in D
    BY <2>1, <1>4
  <2> QED BY <1>4, <2>2 DEF Run
<1> QED BY <1>0, <1>7, <1>8
-----------------------------------------------------------------------------
(* The matching loop *)

\* No chain is in a list of deltas twice.
Apart(q) == \A j, k \in DOMAIN q : q[j].chain = q[k].chain => j = k

\* The head of a list is removed, or left with what remains of it.
Shrunk(q, x, p) ==
  /\ 1 \in DOMAIN q /\ q[1].amount \in Int
  /\ q[1].amount - x <= 0 => \A k \in DOMAIN p : k + 1 \in DOMAIN q /\ p[k] = q[k + 1]
  /\ q[1].amount - x > 0 =>
       /\ p # <<>> /\ p[1].chain = q[1].chain /\ p[1].amount = q[1].amount - x
       /\ \A k \in DOMAIN p : k \in DOMAIN q /\ (k # 1 => p[k] = q[k])

\* That is what the loop does to the lists it matches.
LEMMA ShrinkFacts ==
  ASSUME NEW q \in Seq(Delta), q # <<>>, NEW x \in Int, Apart(q), NEW p, p = Shrink(q, x)
  PROVE  p \in Seq(Delta) /\ Apart(p) /\ Shrunk(q, x, p)
<1>1. PICK n \in Nat : n = Len(q) /\ DOMAIN q = 1..n /\ n > 0
  OBVIOUS
<1>2. PICK d \in Delta : d = q[1] /\ d = Head(q)
  BY <1>1
<1>3. PICK y \in Int : y = d.amount - x /\ d.amount \in Int
  BY DEF Delta
<1>4. PICK t \in Seq(Delta) : t = Tail(q) /\ Len(t) = n - 1 /\ \A k \in 1..(n - 1) : t[k] = q[k + 1]
  <2>1. Tail(q) \in Seq(Delta) /\ Len(Tail(q)) = n - 1
    BY <1>1
  <2>2. \A k \in 1..(n - 1) : Tail(q)[k] = q[k + 1]
    BY <1>1
  <2> QED BY <2>1, <2>2
<1>5. Shrink(q, x) = IF y <= 0 THEN t ELSE <<[d EXCEPT !.amount = y]>> \o t
  BY <1>2, <1>3, <1>4 DEF Shrink
<1>6. CASE y <= 0
  <2>1. p = t /\ DOMAIN p = 1..(n - 1)
    BY <1>4, <1>5, <1>6
  <2>2. \A k \in DOMAIN p : k + 1 \in DOMAIN q /\ p[k] = q[k + 1]
    BY <1>1, <1>4, <2>1
  <2>3. Apart(p)
    BY <2>1, <2>2 DEF Apart
  <2> QED BY <1>1, <1>2, <1>3, <1>6, <2>1, <2>2, <2>3 DEF Shrunk
<1>7. CASE y > 0
  <2>1. PICK e \in Delta : e = [d EXCEPT !.amount = y]
    BY DEF Delta
  <2>2. e.chain = d.chain /\ e.amount = y
    BY <2>1 DEF Delta
  <2>3. p = <<e>> \o t
    BY <1>5, <1>7, <2>1
  <2>4. p \in Seq(Delta) /\ Len(p) = n /\ p[1] = e
    BY <1>1, <1>4, <2>3
  <2>5. \A k \in 1..n : k # 1 => p[k] = q[k]
    <3>1. \A k \in 1..n : k # 1 => p[k] = t[k - 1] /\ k - 1 \in 1..(n - 1) /\ (k - 1) + 1 = k
      BY <1>4, <2>3
    <3> QED BY <1>4, <3>1
  <2>6. DOMAIN p = 1..n /\ \A k \in 1..n : p[k].chain = q[k].chain
    BY <1>1, <1>2, <2>2, <2>4, <2>5
  <2>7. Apart(p)
    BY <1>1, <2>6 DEF Apart
  <2>8. p # <<>> /\ p[1].chain = q[1].chain /\ p[1].amount = q[1].amount - x /\ q[1].amount \in Int
    BY <1>1, <1>2, <1>3, <2>2, <2>4
  <2>9. 1 \in DOMAIN q /\ ~(q[1].amount - x <= 0)
    BY <1>1, <1>2, <1>3, <1>7
  <2> QED BY <1>1, <2>4, <2>5, <2>6, <2>7, <2>8, <2>9 DEF Shrunk
<1> QED BY <1>3, <1>6, <1>7

\* v has been matched of chain c, and what is left of it stays within s.
LeftWithin(q, c, v, s) == \A k \in DOMAIN q : q[k].chain = c => v + q[k].amount <= s

\* What matching a of the head matches of chain c.
OfHead(q, c, a) == IF q[1].chain = c THEN a ELSE 0

\* Matching some of the head leaves everything within its limit.
LEMMA ShrinkWithin ==
  ASSUME NEW q \in Seq(Delta), q # <<>>, Apart(q), NEW a \in Int, a > 0, a <= q[1].amount,
         NEW c, NEW v \in Int, NEW w \in Int, NEW s \in Int, v <= s, LeftWithin(q, c, v, s),
         w = v + OfHead(q, c, a), NEW p, p = Shrink(q, a)
  PROVE  w <= s /\ LeftWithin(p, c, w, s)
<1>0. p \in Seq(Delta) /\ Shrunk(q, a, p)
  BY ShrinkFacts
<1>1. /\ 1 \in DOMAIN q /\ q[1].amount \in Int
      /\ q[1].amount - a <= 0 =>
           \A k \in DOMAIN p : k + 1 \in DOMAIN q /\ p[k] = q[k + 1]
      /\ q[1].amount - a > 0 =>
           /\ p # <<>> /\ p[1].chain = q[1].chain /\ p[1].amount = q[1].amount - a
           /\ \A k \in DOMAIN p : k \in DOMAIN q /\ (k # 1 => p[k] = q[k])
  BY <1>0 DEF Shrunk
<1>2. PICK x \in Int : x = q[1].amount
  BY <1>1
<1>3. w <= s
  <2>1. q[1].chain = c => v + x <= s
    BY <1>1, <1>2 DEF LeftWithin
  <2> QED BY <1>2, <2>1 DEF OfHead
<1>4. ASSUME NEW k \in DOMAIN p, p[k].chain = c PROVE w + p[k].amount <= s
  <2>1. CASE x - a <= 0
    <3>1. k + 1 \in DOMAIN q /\ p[k] = q[k + 1] /\ k + 1 # 1
      BY <1>0, <1>1, <1>2, <2>1
    <3>2. q[1].chain # c
      BY <1>1, <1>4, <3>1 DEF Apart
    <3>3. w = v
      BY <3>2 DEF OfHead
    <3> QED BY <1>4, <3>1, <3>3 DEF LeftWithin
  <2>2. CASE x - a > 0 /\ k # 1
    <3>1. k \in DOMAIN q /\ p[k] = q[k]
      BY <1>1, <1>2, <2>2
    <3>2. q[1].chain # c
      BY <1>1, <1>4, <2>2, <3>1 DEF Apart
    <3>3. w = v
      BY <3>2 DEF OfHead
    <3> QED BY <1>4, <3>1, <3>3 DEF LeftWithin
  <2>3. CASE x - a > 0 /\ k = 1
    <3>1. q[1].chain = c /\ p[k].amount = x - a
      BY <1>1, <1>2, <1>4, <2>3
    <3>2. v + x <= s /\ w = v + a
      BY <1>1, <1>2, <3>1 DEF LeftWithin, OfHead
    <3> QED BY <3>1, <3>2
  <2> QED BY <2>1, <2>2, <2>3
<1> QED BY <1>3, <1>4 DEF LeftWithin

\* The routes of a strategy go over its bridges.
RouteOf(strategy) == {r \in Route : r.bridge = strategy.bridge[r.origin, r.destination]}

\* The routes so far take from chain c at most s, and bring it at most t; so
\* they do with what the lists still hold, as long as there is a deficit.
Within(strategy, m, c, s, t) ==
  /\ m.routes \in Seq(RouteOf(strategy))
  /\ Whole(m.routes, From(Route, c)) <= s /\ Whole(m.routes, To(Route, c)) <= t
  /\ Apart(m.surpluses) /\ Apart(m.deficits)
  /\ \A k \in DOMAIN m.surpluses : m.surpluses[k].amount > 0
  /\ \A j, k \in DOMAIN m.deficits :
       j < k /\ m.deficits[k].amount > 0 => m.deficits[j].amount > 0
  /\ m.deficits # <<>> /\ m.deficits[1].amount > 0 =>
       /\ LeftWithin(m.surpluses, c, Whole(m.routes, From(Route, c)), s)
       /\ LeftWithin(m.deficits, c, Whole(m.routes, To(Route, c)), t)

\* What is left of a list of positive amounts is one; what is left of a list
\* whose positive amounts come first is one.
LEMMA ShrinkOrdered ==
  ASSUME NEW q \in Seq(Delta), q # <<>>, Apart(q), NEW x \in Int, NEW p, p = Shrink(q, x)
  PROVE  /\ (\A k \in DOMAIN q : q[k].amount > 0) => \A k \in DOMAIN p : p[k].amount > 0
         /\ (\A j, k \in DOMAIN q : j < k /\ q[k].amount > 0 => q[j].amount > 0) =>
              \A j, k \in DOMAIN p : j < k /\ p[k].amount > 0 => p[j].amount > 0
<1>0. p \in Seq(Delta) /\ Shrunk(q, x, p)
  BY ShrinkFacts
<1>1. /\ 1 \in DOMAIN q /\ q[1].amount \in Int
      /\ q[1].amount - x <= 0 =>
           \A k \in DOMAIN p : k + 1 \in DOMAIN q /\ p[k] = q[k + 1]
      /\ q[1].amount - x > 0 =>
           /\ p # <<>> /\ p[1].chain = q[1].chain /\ p[1].amount = q[1].amount - x
           /\ \A k \in DOMAIN p : k \in DOMAIN q /\ (k # 1 => p[k] = q[k])
  BY <1>0 DEF Shrunk
<1>2. \A k \in DOMAIN p : k \in Nat /\ k >= 1
  BY <1>0
<1>3. CASE q[1].amount - x <= 0
  <2>1. \A k \in DOMAIN p : k + 1 \in DOMAIN q /\ p[k] = q[k + 1]
    BY <1>1, <1>3
  <2> QED BY <1>2, <2>1
<1>4. CASE q[1].amount - x > 0
  <2>1. /\ p[1].amount > 0 /\ \A k \in DOMAIN p : k \in DOMAIN q /\ (k # 1 => p[k] = q[k])
    BY <1>1, <1>4
  <2> QED BY <1>2, <2>1
<1> QED BY <1>1, <1>3, <1>4

\* A turn of the loop keeps within the limits.
LEMMA MatchStepWithin ==
  ASSUME NEW strategy, ValidStrategy(strategy), NEW m \in Matching,
         NEW c \in Chains, NEW s \in Int, NEW t \in Int, Within(strategy, m, c, s, t)
  PROVE  Within(strategy, MatchStep(strategy, m), c, s, t)
<1>1. PICK A \in Seq(Delta), B \in Seq(Delta), R \in Seq(Route) :
        A = m.surpluses /\ B = m.deficits /\ R = m.routes
  BY DEF Matching
<1>2. CASE A = <<>> \/ B = <<>>
  BY <1>1, <1>2 DEF MatchStep
<1>3. CASE ~(A = <<>> \/ B = <<>>)
  <2>1. PICK x \in Delta, y \in Delta : x = A[1] /\ x = Head(A) /\ y = B[1] /\ y = Head(B)
    BY <1>3
  <2>2. x.amount \in Int /\ y.amount \in Int /\ x.chain \in Chains /\ y.chain \in Chains
    BY DEF Delta
  <2>3. PICK a \in Int : /\ a = Min({x.amount, y.amount}) /\ a <= x.amount /\ a <= y.amount
                         /\ a \in {x.amount, y.amount}
    <3>1. PICK x1 \in Int, y1 \in Int : x1 = x.amount /\ y1 = y.amount
      BY <2>2
    <3>2. /\ Min({x1, y1}) \in {x1, y1} /\ Min({x1, y1}) <= x1 /\ Min({x1, y1}) <= y1
      BY MinOfTwo
    <3>3. Min({x1, y1}) \in Int
      BY <3>2
    <3> QED BY <3>1, <3>2, <3>3
  <2>4. PICK A1, B1 : A1 = Shrink(A, a) /\ B1 = Shrink(B, a)
    OBVIOUS
  <2> DEFINE route == [origin |-> x.chain, destination |-> y.chain, amount |-> a,
                       bridge |-> strategy.bridge[x.chain, y.chain]]
  <2>5. PICK u : u = route
    OBVIOUS
  <2>6. PICK R1 : R1 = IF a > 0 THEN Append(R, u) ELSE R
    OBVIOUS
  <2>7. MatchStep(strategy, m) = [surpluses |-> A1, deficits |-> B1, routes |-> R1]
    BY <1>1, <1>3, <2>1, <2>3, <2>4, <2>5, <2>6 DEF MatchStep
  <2>8. /\ R \in Seq(RouteOf(strategy)) /\ Apart(A) /\ Apart(B)
        /\ Whole(R, From(Route, c)) <= s /\ Whole(R, To(Route, c)) <= t
        /\ \A k \in DOMAIN A : A[k].amount > 0
        /\ \A j, k \in DOMAIN B : j < k /\ B[k].amount > 0 => B[j].amount > 0
        /\ B[1].amount > 0 => /\ LeftWithin(A, c, Whole(R, From(Route, c)), s)
                              /\ LeftWithin(B, c, Whole(R, To(Route, c)), t)
    BY <1>1, <1>3 DEF Within
  <2>9. /\ A1 \in Seq(Delta) /\ Apart(A1) /\ B1 \in Seq(Delta) /\ Apart(B1)
        /\ 1 \in DOMAIN A /\ 1 \in DOMAIN B
    <3>1. Shrunk(A, a, A1) /\ Shrunk(B, a, B1) /\ A1 \in Seq(Delta) /\ Apart(A1)
          /\ B1 \in Seq(Delta) /\ Apart(B1)
      BY <1>3, <2>4, <2>8, ShrinkFacts
    <3> QED BY <3>1 DEF Shrunk
  <2>10. /\ \A k \in DOMAIN A1 : A1[k].amount > 0
         /\ \A j, k \in DOMAIN B1 : j < k /\ B1[k].amount > 0 => B1[j].amount > 0
    BY <1>3, <2>4, <2>8, ShrinkOrdered
  <2>11. x.amount > 0
    BY <2>1, <2>8, <2>9
  <2>12. CASE y.amount <= 0
    <3>1. a = y.amount /\ R1 = R
      BY <2>2, <2>3, <2>6, <2>11, <2>12
    <3>2. \A k \in DOMAIN B1 : k + 1 \in DOMAIN B /\ B1[k] = B[k + 1]
      <4>1. B[1].amount - a <= 0
        BY <2>1, <2>2, <3>1
      <4>2. Shrunk(B, a, B1)
        BY <1>3, <2>4, <2>8, ShrinkFacts
      <4> QED BY <4>1, <4>2 DEF Shrunk
    <3>3. B1 # <<>> => ~(B1[1].amount > 0)
      <4> SUFFICES ASSUME B1 # <<>>, B1[1].amount > 0 PROVE FALSE
        OBVIOUS
      <4>1. 1 \in DOMAIN B1
        BY <2>9
      <4>2. 2 \in DOMAIN B /\ B1[1] = B[2]
        BY <3>2, <4>1
      <4>3. B[1].amount > 0
        BY <2>8, <2>9, <4>2
      <4> QED BY <2>1, <2>2, <2>12, <4>3
    <3> QED BY <2>7, <2>8, <2>9, <2>10, <3>1, <3>3 DEF Within
  <2>13. CASE y.amount > 0
    <3>1. a > 0 /\ R1 = Append(R, u)
      BY <2>2, <2>3, <2>6, <2>11, <2>13
    <3>2. u \in Route /\ u \in RouteOf(strategy)
      <4>1. PICK b \in STRING : b = strategy.bridge[x.chain, y.chain]
        BY <2>2 DEF ValidStrategy
      <4>2. a \in Nat \ {0}
        BY <3>1
      <4>3. u = [origin |-> x.chain, destination |-> y.chain, amount |-> a, bridge |-> b]
        BY <2>5, <4>1, Zenon
      <4>4. u \in Route
        BY <2>2, <4>2, <4>3 DEF Route
      <4>5. u.bridge = b /\ u.origin = x.chain /\ u.destination = y.chain
        BY <4>3
      <4> QED BY <4>1, <4>4, <4>5 DEF RouteOf
    <3>3. u.origin = x.chain /\ u.destination = y.chain /\ u.amount = a
      BY <2>5
    <3>4. Load(u, From(Route, c)) = OfHead(A, c, a) /\ Load(u, To(Route, c)) = OfHead(B, c, a)
      BY <2>1, <3>2, <3>3 DEF Load, From, To, OfHead
    <3>5. Amounts(Route, Int)
      BY DEF Amounts, Route
    <3>6. /\ Whole(R, From(Route, c)) \in Int /\ Whole(R, To(Route, c)) \in Int
          /\ Whole(R1, From(Route, c)) = Whole(R, From(Route, c)) + Load(u, From(Route, c))
          /\ Whole(R1, To(Route, c)) = Whole(R, To(Route, c)) + Load(u, To(Route, c))
      BY <3>1, <3>2, <3>5, CarriedAppended
    <3>7. PICK v \in Int, w \in Int, v1 \in Int, w1 \in Int :
            /\ v = Whole(R, From(Route, c)) /\ v1 = Whole(R1, From(Route, c))
            /\ w = Whole(R, To(Route, c)) /\ w1 = Whole(R1, To(Route, c))
            /\ v1 = v + OfHead(A, c, a) /\ w1 = w + OfHead(B, c, a)
      <4>1. OfHead(A, c, a) \in Int /\ OfHead(B, c, a) \in Int
        BY DEF OfHead
      <4> QED BY <3>4, <3>6, <4>1
    <3>8. v1 <= s /\ LeftWithin(A1, c, v1, s)
      <4>1. a <= A[1].amount /\ v <= s /\ LeftWithin(A, c, v, s)
        BY <2>1, <2>3, <2>8, <2>13, <3>7
      <4> QED BY <1>3, <2>4, <2>8, <3>1, <3>7, <4>1, ShrinkWithin
    <3>9. w1 <= t /\ LeftWithin(B1, c, w1, t)
      <4>1. a <= B[1].amount /\ w <= t /\ LeftWithin(B, c, w, t)
        BY <2>1, <2>3, <2>8, <2>13, <3>7
      <4> QED BY <1>3, <2>4, <2>8, <3>1, <3>7, <4>1, ShrinkWithin
    <3>10. R1 \in Seq(RouteOf(strategy))
      BY <2>8, <3>1, <3>2
    <3>11. PICK m1 : /\ m1 = MatchStep(strategy, m)
                     /\ m1.surpluses = A1 /\ m1.deficits = B1 /\ m1.routes = R1
      BY <2>7
    <3>12. Within(strategy, m1, c, s, t)
      BY <2>9, <2>10, <3>7, <3>8, <3>9, <3>10, <3>11 DEF Within
    <3> QED BY <3>11, <3>12
  <2> QED BY <2>2, <2>12, <2>13
<1> QED BY <1>2, <1>3

\* So does the loop.
LEMMA MatchedWithin ==
  ASSUME NEW strategy, ValidStrategy(strategy),
         NEW surpluses \in Seq(Delta), NEW deficits \in Seq(Delta),
         NEW c \in Chains, NEW s \in Int, NEW t \in Int,
         Within(strategy, [surpluses |-> surpluses, deficits |-> deficits, routes |-> <<>>], c, s, t)
  PROVE  /\ Matched(strategy, surpluses, deficits) \in Seq(RouteOf(strategy))
         /\ Whole(Matched(strategy, surpluses, deficits), From(Route, c)) <= s
         /\ Whole(Matched(strategy, surpluses, deficits), To(Route, c)) <= t
<1>1. PICK n \in Nat : n = Len(surpluses) + Len(deficits)
  OBVIOUS
<1> DEFINE D == {m \in Matching : Within(strategy, m, c, s, t)}
           start == [surpluses |-> surpluses, deficits |-> deficits, routes |-> <<>>]
           turns == [turn \in 1..n |-> turn]
           step == [k \in 1..n |-> [d \in D |-> MatchTurn(strategy, d)]]
<1>2. start \in D
  BY DEF Matching
<1>3. ASSUME NEW k \in 1..n, NEW d \in D
      PROVE  step[k][d] = MatchTurn(strategy, d) /\ step[k][d] \in D
  <2>1. {MatchStep(strategy, x) : x \in {d}} = {MatchStep(strategy, d)}
    OBVIOUS
  <2>2. MatchTurn(strategy, d) = MatchStep(strategy, d)
    BY <2>1 DEF MatchTurn, Only
  <2>3. MatchTurn(strategy, d) \in D
    BY <2>2, MatchStepType, MatchStepWithin
  <2> HIDE DEF D
  <2> QED BY <2>3
<1>4. DOMAIN turns = 1..n
  OBVIOUS
<1>5. PICK r \in [0..n -> D] : Run(r, n, start, step, MatchLoop(strategy, start, turns))
  <2> HIDE DEF D, start, step, turns
  <2> QED BY <1>2, <1>3, <1>4, MatchedInOrder
<1>6. MatchLoop(strategy, start, turns) \in D
  <2> HIDE DEF D, start, step, turns
  <2> QED BY <1>5 DEF Run
<1>7. Matched(strategy, surpluses, deficits) = MatchLoop(strategy, start, turns).routes
  BY <1>1 DEF Matched, MatchLoop
<1> HIDE DEF start, turns
<1> QED BY <1>6, <1>7 DEF Within
-----------------------------------------------------------------------------
(* One strategy *)

\* Scaling a deficit down leaves no more of it, or nothing.
LEMMA ScaledBelow ==
  ASSUME NEW deficits, Deltas(deficits), NEW surpluses, Deltas(surpluses),
         \A d \in surpluses : d.amount \in Nat, NEW e \in Scaled(deficits, surpluses)
  PROVE  \E d \in deficits : e.chain = d.chain /\ (e.amount <= d.amount \/ e.amount <= 0)
<1>1. IsFiniteSet(deficits) /\ IsFiniteSet(surpluses)
  BY DeltasFinite
<1>2. PICK a \in Nat : a = Amount(surpluses)
  <2> DEFINE f == [d \in surpluses |-> d.amount]
  <2>1. \A d \in surpluses : f[d] \in Nat
    OBVIOUS
  <2>2. Amount(surpluses) = SumFunctionOnSet(f, surpluses)
    BY DEF Amount, Sum
  <2> HIDE DEF f
  <2> QED BY <1>1, <2>1, <2>2, SumNat
<1>3. \A d \in deficits : d \in Delta /\ d.chain \in Chains /\ d.amount \in Int
  BY DEF Deltas, Delta
<1>4. PICK t \in Int : t = Amount(deficits)
  <2> DEFINE f == [d \in deficits |-> d.amount]
  <2>1. \A d \in deficits : f[d] \in Int
    BY <1>3
  <2>2. Amount(deficits) = SumFunctionOnSet(f, deficits)
    BY DEF Amount, Sum
  <2> HIDE DEF f
  <2> QED BY <1>1, <2>1, <2>2, SumType
<1>5. CASE a >= t
  <2>1. e \in deficits
    BY <1>2, <1>4, <1>5 DEF Scaled
  <2> QED BY <1>3, <2>1
<1>6. CASE ~(a >= t)
  <2> DEFINE g(d) == [d EXCEPT !.amount = BigIntDiv(@ * a, t)]
  <2>1. Scaled(deficits, surpluses) = {g(d) : d \in deficits}
    BY <1>2, <1>4, <1>6 DEF Scaled
  <2>2. PICK d \in deficits : e = g(d)
    BY <2>1
  <2>3. PICK n \in Int : n = d.amount /\ d \in Delta
    BY <1>3
  <2>4. e.chain = d.chain /\ e.amount = BigIntDiv(n * a, t)
    BY <2>2, <2>3 DEF Delta
  <2>5. BigIntDiv(n * a, t) <= n \/ BigIntDiv(n * a, t) <= 0
    <3>1. t > 0 /\ a < t /\ t \in Nat
      BY <1>6
    <3>2. PICK z \in Int : z = n * a
      OBVIOUS
    <3>3. CASE n >= 0
      <4>1. z >= 0 /\ z <= n * t
        BY <3>1, <3>2, <3>3, SMTT(30)
      <4>2. z \div t <= n
        BY <3>1, <4>1, SMTT(30)
      <4> QED BY <3>2, <4>1, <4>2 DEF BigIntDiv
    <3>4. CASE n < 0
      <4>1. z <= 0
        BY <3>2, <3>4, SMTT(30)
      <4>2. CASE z = 0
        <5>1. 0 \div t = 0
          BY <3>1
        <5> QED BY <3>2, <4>2, <5>1 DEF BigIntDiv
      <4>3. CASE z < 0
        <5>1. (-z) \div t >= 0 /\ (-z) \div t \in Int
          BY <3>1, <4>3
        <5> QED BY <3>2, <4>3, <5>1 DEF BigIntDiv
      <4> QED BY <4>1, <4>2, <4>3
    <3> QED BY <3>3, <3>4
  <2> QED BY <2>2, <2>3, <2>4, <2>5
<1> QED BY <1>5, <1>6

\* What a strategy may take from the chain of a band, and bring to it.
Spare(b, w) == IF b[w.chain] >= w.below /\ b[w.chain] > w.keep THEN b[w.chain] - w.keep ELSE 0
Lack(b, w) == IF b[w.chain] < w.below THEN Positive(w.fill - b[w.chain]) ELSE 0

\* A list sorted by amount has its positive amounts first, and no chain twice.
LEMMA SortedFacts ==
  ASSUME NEW S, Deltas(S), NEW first, NEW q, q = SortedDeltas(S, first)
  PROVE  /\ q \in Seq(Delta) /\ Apart(q) /\ \A k \in DOMAIN q : q[k] \in S
         /\ first = {} => \A j, k \in DOMAIN q : j < k /\ q[k].amount > 0 => q[j].amount > 0
<1>1. /\ q \in Seq(S) /\ S \subseteq Delta
      /\ \A j, k \in DOMAIN q : j < k => Precedes(q[j], q[k], first)
  BY SortedType DEF Deltas
<1>2. \A k \in DOMAIN q : q[k] \in S /\ k \in Nat
  BY <1>1
<1>3. \A k \in DOMAIN q : q[k].chain \in Int /\ q[k].amount \in Int
  <2>1. \A d \in Delta : d.chain \in Int /\ d.amount \in Int
    <3>1. \A x \in Chains : x \in Int
      BY ChainsAssumption
    <3>2. \A d \in Delta : d.chain \in Chains /\ d.amount \in Int
      BY DEF Delta
    <3> QED BY <3>1, <3>2
  <2> QED BY <1>1, <1>2, <2>1
<1>4. Apart(q)
  <2> SUFFICES ASSUME NEW j \in DOMAIN q, NEW k \in DOMAIN q, q[j].chain = q[k].chain, j # k
               PROVE  FALSE
    BY DEF Apart
  <2>1. q[j] = q[k]
    BY <1>2 DEF Deltas
  <2>2. ~Precedes(q[j], q[j], first)
    BY <1>3 DEF Precedes
  <2>3. j < k \/ k < j
    BY <1>2
  <2> QED BY <1>1, <2>1, <2>2, <2>3
<1>5. ASSUME first = {}, NEW j \in DOMAIN q, NEW k \in DOMAIN q, j < k, q[k].amount > 0
      PROVE  q[j].amount > 0
  <2>1. q[j].amount > q[k].amount \/ q[j].amount = q[k].amount
    BY <1>1, <1>5 DEF Precedes
  <2> QED BY <1>3, <1>5, <2>1
<1>6. q \in Seq(Delta)
  BY <1>1
<1> QED BY <1>2, <1>4, <1>5, <1>6

\* The lists the loop begins with are within what the bands allow.
LEMMA StartWithin ==
  ASSUME NEW strategy, NEW b \in [Chains -> Int], NEW bands, OneBandEach(bands), NEW w \in bands,
         NEW A, NEW B, NEW first,
         A = SortedDeltas(Surpluses(b, bands), first),
         B = SortedDeltas(Scaled(Deficits(b, bands), Surpluses(b, bands)), {})
  PROVE  /\ A \in Seq(Delta) /\ B \in Seq(Delta)
         /\ Within(strategy, [surpluses |-> A, deficits |-> B, routes |-> <<>>],
                   w.chain, Spare(b, w), Lack(b, w))
<1>1. PICK S, T : S = Surpluses(b, bands) /\ T = Deficits(b, bands)
  OBVIOUS
<1>2. Deltas(T) /\ Deltas(S) /\ \A d \in S : d.amount \in Nat
  BY <1>1, DeltasType
<1>3. Deltas(Scaled(T, S))
  BY <1>2, ScaledType
<1>4. A \in Seq(Delta) /\ Apart(A) /\ \A k \in DOMAIN A : A[k] \in S
  BY <1>1, <1>2, SortedFacts
<1>5. /\ B \in Seq(Delta) /\ Apart(B) /\ \A k \in DOMAIN B : B[k] \in Scaled(T, S)
      /\ \A j, k \in DOMAIN B : j < k /\ B[k].amount > 0 => B[j].amount > 0
  BY <1>1, <1>3, SortedFacts
<1>6. \A v \in bands : /\ v.chain \in Chains /\ v.below \in Int /\ v.fill \in Int /\ v.keep \in Int
                       /\ b[v.chain] \in Int
  BY DEF OneBandEach, Bounds
<1>7. ASSUME NEW d \in S
      PROVE  d.amount > 0 /\ (d.chain = w.chain => d.amount <= Spare(b, w))
  <2>1. PICK v \in bands : /\ d = [chain |-> v.chain, amount |-> b[v.chain] - v.keep]
                           /\ b[v.chain] >= v.below /\ b[v.chain] > v.keep
    BY <1>1 DEF Surpluses
  <2>2. d.chain = v.chain /\ d.amount = b[v.chain] - v.keep
    BY <2>1
  <2>3. d.chain = w.chain => v = w
    BY <2>2 DEF OneBandEach
  <2>4. d.amount > 0
    BY <1>6, <2>1, <2>2
  <2>5. v = w => d.amount <= Spare(b, w)
    BY <1>6, <2>1, <2>2 DEF Spare
  <2> QED BY <2>3, <2>4, <2>5
<1>8. ASSUME NEW e \in Scaled(T, S), e.chain = w.chain PROVE e.amount <= Lack(b, w)
  <2>1. PICK d \in T : e.chain = d.chain /\ (e.amount <= d.amount \/ e.amount <= 0)
    BY <1>2, ScaledBelow
  <2>2. PICK v \in bands : /\ d = [chain |-> v.chain, amount |-> v.fill - b[v.chain]]
                           /\ b[v.chain] < v.below
    BY <1>1 DEF Deficits
  <2>3. d.chain = v.chain /\ d.amount = v.fill - b[v.chain]
    BY <2>2
  <2>4. v = w
    BY <1>8, <2>1, <2>3 DEF OneBandEach
  <2>5. e.amount \in Int
    BY <1>3 DEF Deltas, Delta
  <2>6. Lack(b, w) = Positive(d.amount) /\ d.amount \in Int
    BY <1>6, <2>2, <2>3, <2>4 DEF Lack
  <2> QED BY <2>1, <2>5, <2>6 DEF Positive
<1>9. Spare(b, w) \in Int /\ Spare(b, w) >= 0 /\ Lack(b, w) \in Int /\ Lack(b, w) >= 0
  BY <1>6 DEF Spare, Lack, Positive
<1>10. PICK c : c = w.chain
  OBVIOUS
<1>11. \A W : Whole(<<>>, W) = 0
  <2> SUFFICES ASSUME NEW W PROVE Whole(<<>>, W) = 0
    OBVIOUS
  <2>1. Amounts(Delta, Int)
    BY DEF Amounts, Delta
  <2>2. PICK e \in Seq(Delta) : e = <<>> /\ Len(e) = 0
    <3>1. <<>> \in Seq(Delta) /\ Len(<<>>) = 0
      OBVIOUS
    <3> QED BY <3>1
  <2>3. Carried(e, W, 0) = 0
    BY <2>1, <2>2, CarriedSteps
  <2> QED BY <2>2, <2>3 DEF Whole
<1>12. LeftWithin(A, c, 0, Spare(b, w)) /\ LeftWithin(B, c, 0, Lack(b, w))
  <2>1. \A k \in DOMAIN A : A[k].amount \in Int /\ (A[k].chain = c => A[k].amount <= Spare(b, w))
    BY <1>2, <1>4, <1>7, <1>10
  <2>2. \A k \in DOMAIN B : B[k].amount \in Int /\ (B[k].chain = c => B[k].amount <= Lack(b, w))
    <3>1. \A e \in Scaled(T, S) : e.amount \in Int
      BY <1>3 DEF Deltas, Delta
    <3> QED BY <1>5, <1>8, <1>10, <3>1
  <2> QED BY <1>9, <2>1, <2>2 DEF LeftWithin
<1>13. \A k \in DOMAIN A : A[k].amount > 0
  BY <1>4, <1>7
<1>14. <<>> \in Seq(RouteOf(strategy))
  OBVIOUS
<1> QED BY <1>4, <1>5, <1>9, <1>10, <1>11, <1>12, <1>13, <1>14 DEF Within

\* A strategy takes from a chain no more than exceeds what it keeps there, and
\* brings it no more than fills it.
LEMMA RoutesWithin ==
  ASSUME NEW strategy, ValidStrategy(strategy), NEW raw \in [Chains -> Int],
         NEW context, ContextOK(context), NEW b \in [Chains -> Int], NEW proposed,
         b = Simulated(strategy, reserveCollateral(raw, context.transfers), context.rebalances,
                       IF strategy.kind = "collateralDeficit" THEN <<>> ELSE proposed),
         NEW w \in Bands(strategy, b), NEW routes,
         routes = getRebalancingRoutes(strategy, raw, context, proposed)
  PROVE  /\ routes \in Seq(RouteOf(strategy))
         /\ Whole(routes, From(Route, w.chain)) <= Spare(b, w)
         /\ Whole(routes, To(Route, w.chain)) <= Lack(b, w)
<1>1. PICK bands : bands = Bands(strategy, b)
  OBVIOUS
<1>2. OneBandEach(bands) /\ w \in bands
  BY <1>1, BandsType
<1>3. PICK first : first = IF strategy.kind = "collateralDeficit"
                           THEN TransferOrigins(context.transfers, Deficits(b, bands)) ELSE {}
  OBVIOUS
<1>4. PICK A, B : /\ A = SortedDeltas(Surpluses(b, bands), first)
                  /\ B = SortedDeltas(Scaled(Deficits(b, bands), Surpluses(b, bands)), {})
  OBVIOUS
<1>5. /\ A \in Seq(Delta) /\ B \in Seq(Delta)
      /\ Within(strategy, [surpluses |-> A, deficits |-> B, routes |-> <<>>],
                w.chain, Spare(b, w), Lack(b, w))
  BY <1>2, <1>4, StartWithin
<1>6. CategorizedRoutes(strategy, b, context.transfers) = Matched(strategy, A, B)
  <2> DEFINE R(x) == RoutesFor(strategy, Surpluses(b, x), Deficits(b, x), context.transfers)
  <2>1. CategorizedRoutes(strategy, b, context.transfers) = Only({R(x) : x \in {bands}})
    BY <1>1 DEF CategorizedRoutes
  <2>2. {R(x) : x \in {bands}} = {R(bands)}
    OBVIOUS
  <2>3. Only({R(bands)}) = R(bands)
    BY DEF Only
  <2>4. R(bands) = Matched(strategy, A, B)
    BY <1>3, <1>4 DEF RoutesFor
  <2> QED BY <2>1, <2>2, <2>3, <2>4
<1>7. /\ w.chain \in Chains /\ Spare(b, w) \in Int /\ Lack(b, w) \in Int
  <2>1. w.chain \in Chains /\ w.below \in Int /\ w.fill \in Int /\ w.keep \in Int
    BY <1>2 DEF OneBandEach, Bounds
  <2> QED BY <2>1 DEF Spare, Lack, Positive
<1>8. PICK q : q = Matched(strategy, A, B)
  OBVIOUS
<1>9. /\ q \in Seq(RouteOf(strategy)) /\ Whole(q, From(Route, w.chain)) <= Spare(b, w)
      /\ Whole(q, To(Route, w.chain)) <= Lack(b, w)
  BY <1>5, <1>7, <1>8, MatchedWithin
<1>10. routes = filterRoutes(strategy, q, raw)
  <2> DEFINE F(x) == filterRoutes(strategy, CategorizedRoutes(strategy, x, context.transfers), raw)
  <2>1. routes = Only({F(x) : x \in {b}})
    BY DEF getRebalancingRoutes
  <2>2. {F(x) : x \in {b}} = {F(b)}
    OBVIOUS
  <2>3. Only({F(b)}) = F(b)
    BY DEF Only
  <2> QED BY <1>6, <1>8, <2>1, <2>2, <2>3
<1>11. PICK S : routes = Selected(q, S)
  <2> DEFINE G(x) == Selected(x, {r \in Range(x) :
                                    r.amount <= raw[r.origin] /\ r.amount >= strategy.accepted})
  <2>1. filterRoutes(strategy, q, raw) = Only({G(x) : x \in {q}})
    BY DEF filterRoutes
  <2>2. {G(x) : x \in {q}} = {G(q)}
    OBVIOUS
  <2>3. Only({G(q)}) = G(q)
    BY DEF Only
  <2> QED BY <1>10, <2>1, <2>2, <2>3
<1>12. Amounts(RouteOf(strategy), Nat)
  BY DEF Amounts, RouteOf, Route
<1>13. \A W : /\ Selected(q, S) \in Seq(RouteOf(strategy))
              /\ Whole(Selected(q, S), W) \in Nat /\ Whole(q, W) \in Nat
              /\ Whole(Selected(q, S), W) <= Whole(q, W)
  BY <1>9, <1>12, SelectedCarries
<1> QED BY <1>7, <1>9, <1>11, <1>13
-----------------------------------------------------------------------------
(* The cycle *)

\* What a process has in flight and what it proposes: with one strategy, over
\* its bridges.
Flying(cfg) == {u \in InFlight : Len(cfg) = 1 => u.bridge = cfg[1].bridge[u.origin, u.destination]}
Legs(cfg) == {u \in Route : Len(cfg) = 1 => u.bridge = cfg[1].bridge[u.origin, u.destination]}

Sending(cfg) == [collateral : [Chains -> Int], rebalances : Seq(Flying(cfg))]

\* What has become of chain c since d, when the routes carried x from it and y to it.
Kept(c, d, e, x, y) ==
  /\ e.collateral[c] \in Int
  /\ d.collateral[c] - x <= e.collateral[c] /\ e.collateral[c] <= d.collateral[c]
  /\ Whole(e.rebalances, To(InFlight, c)) \in Nat
  /\ Whole(d.rebalances, To(InFlight, c)) <= Whole(e.rebalances, To(InFlight, c))
  /\ Whole(e.rebalances, To(InFlight, c)) <= Whole(d.rebalances, To(InFlight, c)) + y

\* They are rebalances in flight, and routes.
LEMMA FlyingType ==
  ASSUME NEW cfg
  PROVE  /\ Flying(cfg) \subseteq InFlight /\ Legs(cfg) \subseteq Route /\ Amounts(Legs(cfg), Int)
         /\ \A q \in Seq(Flying(cfg)) : q \in Seq(InFlight)
<1>1. Flying(cfg) \subseteq InFlight /\ Legs(cfg) \subseteq Route
  BY Zenon DEF Flying, Legs
<1>2. \A u \in Route : u.amount \in Int
  BY DEF Route
<1>3. Amounts(Legs(cfg), Int)
  BY <1>1, <1>2 DEF Amounts
<1>4. \A q \in Seq(Flying(cfg)) : q \in Seq(InFlight)
  BY <1>1
<1> QED BY <1>1, <1>3, <1>4

\* Sending a route takes its amount from the origin and puts it in flight to
\* the destination, or does nothing.
LEMMA SendWithin ==
  ASSUME NEW cfg, NEW d \in Sending(cfg), NEW u \in Legs(cfg), NEW c \in Chains, NEW e, e = Send(d, u)
  PROVE  /\ e \in Sending(cfg)
         /\ Load(u, From(Route, c)) \in Nat /\ Load(u, To(Route, c)) \in Nat
         /\ d.collateral[c] \in Int /\ Whole(d.rebalances, To(InFlight, c)) \in Nat
         /\ Kept(c, d, e, Load(u, From(Route, c)), Load(u, To(Route, c)))
<1>1. PICK b \in [Chains -> Int], q \in Seq(Flying(cfg)) : b = d.collateral /\ q = d.rebalances
  BY DEF Sending
<1>2. /\ u \in Route /\ u.origin \in Chains /\ u.destination \in Chains
      /\ u.amount \in Nat /\ u.amount # 0 /\ u.bridge \in STRING
  BY DEF Legs, Route
<1>3. PICK x \in Nat, y \in Nat : x = Load(u, From(Route, c)) /\ y = Load(u, To(Route, c))
  BY <1>2 DEF Load
<1>4. q \in Seq(InFlight) /\ Amounts(InFlight, Nat) /\ Amounts(InFlight, Int)
  <2>1. q \in Seq(InFlight)
    BY FlyingType
  <2> QED BY <2>1, InFlightReportable
<1>5. PICK v \in Nat : v = Whole(q, To(InFlight, c))
  BY <1>4, CarriedNat
<1>6. CASE b[u.origin] < u.amount
  <2>1. e = d
    BY <1>1, <1>6 DEF Send
  <2>2. b[c] \in Int /\ b[c] - x <= b[c] /\ v <= v + y
    OBVIOUS
  <2> QED BY <1>1, <1>3, <1>5, <2>1, <2>2 DEF Kept
<1>7. CASE ~(b[u.origin] < u.amount)
  <2> DEFINE f == [origin |-> u.origin, destination |-> u.destination, amount |-> u.amount,
                   bridge |-> u.bridge, method |-> "movable", delivered |-> 0, awaiting |-> 0]
  <2>1. PICK g : g = f
    OBVIOUS
  <2>2. PICK b1 : b1 = [b EXCEPT ![u.origin] = @ - u.amount]
    OBVIOUS
  <2>3. e = [collateral |-> b1, rebalances |-> Append(q, g)]
    BY <1>1, <1>7, <2>1, <2>2 DEF Send
  <2>4. /\ g.origin = u.origin /\ g.destination = u.destination /\ g.amount = u.amount
        /\ g.bridge = u.bridge
    BY <2>1
  <2>5. g \in InFlight
    <3>1. u.amount \in Nat \ {0}
      BY <1>2
    <3> QED BY <1>2, <2>1, <3>1 DEF InFlight
  <2>6. g \in Flying(cfg)
    BY <2>4, <2>5 DEF Flying, Legs
  <2>7. b1 \in [Chains -> Int] /\ b1[c] = b[c] - x
    <3>1. x = IF u.origin = c THEN u.amount ELSE 0
      BY <1>2, <1>3 DEF Load, From
    <3> QED BY <1>2, <2>2, <3>1
  <2>8. Append(q, g) \in Seq(Flying(cfg))
    BY <2>6
  <2>9. e \in Sending(cfg) /\ e.collateral = b1 /\ e.rebalances = Append(q, g)
    BY <2>3, <2>7, <2>8 DEF Sending
  <2>10. Load(g, To(InFlight, c)) = y
    BY <1>2, <1>3, <2>4, <2>5 DEF Load, To
  <2>11. Whole(Append(q, g), To(InFlight, c)) = v + y
    BY <1>4, <1>5, <2>5, <2>10, CarriedAppended
  <2>12. b[c] \in Int /\ b1[c] \in Int /\ b[c] - x <= b1[c] /\ b1[c] <= b[c]
    BY <2>7
  <2>13. v + y \in Nat /\ v <= v + y
    OBVIOUS
  <2> QED BY <1>1, <1>3, <1>5, <2>9, <2>11, <2>12, <2>13 DEF Kept
<1> QED BY <1>6, <1>7

\* A cycle sends its routes in their order.
LEMMA SentInOrder ==
  ASSUME NEW n \in Nat, NEW q, DOMAIN q = 1..n, NEW D, NEW base \in D, NEW step,
         \A k \in 1..n, d \in D : step[k][d] = Send(d, q[k]) /\ step[k][d] \in D
  PROVE  \E r \in [0..n -> D] : Run(r, n, base, step, SendAll(base, q))
<1> DEFINE Loop(h) == [s \in SUBSET (1..n) |-> IF s = {} THEN base
                         ELSE Send(h[s \ {Max(s)}], q[Max(s)])]
<1>1. Closed(n, D, step)
  BY DEF Closed
<1>2. PICK h \in [SUBSET (1..n) -> D] : Loops(h, n, base, step)
  BY <1>1, LoopExists
<1>3. ASSUME NEW s \in SUBSET (1..n), s # {}
      PROVE  Max(s) \in 1..n /\ s \ {Max(s)} \in SUBSET (1..n)
  BY <1>3, LastPosition
<1>4. h = Loop(h)
  <2>1. ASSUME NEW s \in SUBSET (1..n) PROVE h[s] = Loop(h)[s]
    <3>1. CASE s = {}
      BY <1>2, <3>1 DEF Loops
    <3>2. CASE s # {}
      <4>1. h[s] = step[Max(s)][h[s \ {Max(s)}]]
        BY <1>2, <3>2 DEF Loops
      <4>2. h[s \ {Max(s)}] \in D
        BY <1>3, <3>2
      <4>3. h[s] = Send(h[s \ {Max(s)}], q[Max(s)])
        BY <1>3, <3>2, <4>1, <4>2
      <4> QED BY <3>2, <4>3
    <3> QED BY <3>1, <3>2
  <2> QED BY <2>1
<1>5. PICK f : f = Loop(f) /\ SendAll(base, q) = f[1..n]
  BY <1>4, ZenonT(30) DEF SendAll, FoldLeft, MapThenFoldSet
<1>6. Turns(f, n, D, base, step)
  <2>1. f[{}] = base
    BY <1>5
  <2>2. ASSUME NEW s \in SUBSET (1..n), s # {}, f[s \ {Max(s)}] \in D
        PROVE  f[s] = step[Max(s)][f[s \ {Max(s)}]]
    <3>1. f[s] = Send(f[s \ {Max(s)}], q[Max(s)])
      BY <1>5, <2>2
    <3> QED BY <1>3, <2>2, <3>1
  <2> HIDE DEF Loop
  <2> QED BY <2>1, <2>2 DEF Turns
<1>7. \E r \in [0..n -> D] : Run(r, n, base, step, f[1..n])
  <2> HIDE DEF Loop
  <2> QED BY <1>1, <1>6, LoopRuns
<1> QED BY <1>5, <1>7

\* A cycle takes from a chain at most what its routes carry from there, and
\* puts at most what they carry to it in flight.
LEMMA SentWithin ==
  ASSUME NEW cfg, NEW base \in Sending(cfg), NEW q \in Seq(Legs(cfg))
  PROVE  /\ SendAll(base, q) \in Sending(cfg)
         /\ \A c \in Chains :
              /\ Whole(q, From(Route, c)) \in Int /\ Whole(q, To(Route, c)) \in Int
              /\ Kept(c, base, SendAll(base, q), Whole(q, From(Route, c)), Whole(q, To(Route, c)))
<1>0. PICK n \in Nat : n = Len(q) /\ DOMAIN q = 1..n /\ \A k \in 1..n : q[k] \in Legs(cfg)
  OBVIOUS
<1> DEFINE D == Sending(cfg)
           step == [k \in 1..n |-> [d \in D |-> Send(d, q[k])]]
<1>1. ASSUME NEW k \in 1..n, NEW d \in D
      PROVE  step[k][d] = Send(d, q[k]) /\ step[k][d] \in D
  <2>1. q[k] \in Legs(cfg)
    BY <1>0
  <2>2. q[k].origin \in Chains
    BY <2>1 DEF Legs, Route
  <2>3. Send(d, q[k]) \in D
    BY <2>1, <2>2, SendWithin
  <2> HIDE DEF D
  <2> QED BY <2>3
<1>2. PICK r \in [0..n -> D] : Run(r, n, base, step, SendAll(base, q))
  <2> HIDE DEF D, step
  <2>1. base \in D
    BY DEF D
  <2> QED BY <1>0, <1>1, <2>1, SentInOrder
<1>3. SendAll(base, q) \in Sending(cfg)
  <2>1. SendAll(base, q) \in D
    <3> HIDE DEF D, step
    <3> QED BY <1>2 DEF Run
  <2> QED BY <2>1
<1>4. r[0] = base /\ r[n] = SendAll(base, q) /\ \A k \in 1..n : r[k] = Send(r[k - 1], q[k])
  <2>1. ASSUME NEW k \in 1..n PROVE r[k] = Send(r[k - 1], q[k])
    <3>1. k - 1 \in 0..n
      OBVIOUS
    <3> HIDE DEF D, step
    <3>2. r[k - 1] \in D /\ r[k] = step[k][r[k - 1]]
      BY <1>2, <3>1 DEF Run
    <3> QED BY <1>1, <3>2
  <2> HIDE DEF step
  <2> QED BY <1>2, <2>1 DEF Run
<1> HIDE DEF step
<1>5. Amounts(Legs(cfg), Int)
  BY FlyingType
<1>6. ASSUME NEW c \in Chains
      PROVE  /\ Whole(q, From(Route, c)) \in Int /\ Whole(q, To(Route, c)) \in Int
             /\ Kept(c, base, SendAll(base, q), Whole(q, From(Route, c)), Whole(q, To(Route, c)))
  <2>1. PICK F, T : F = From(Route, c) /\ T = To(Route, c)
    OBVIOUS
  <2>2. /\ Carried(q, F, 0) = 0 /\ \A k \in 0..n : Carried(q, F, k) \in Int
        /\ \A k \in Nat : k + 1 <= n => /\ Load(q[k + 1], F) \in Int
                                        /\ Carried(q, F, k + 1) = Carried(q, F, k) + Load(q[k + 1], F)
    BY <1>0, <1>5, CarriedSteps
  <2>3. /\ Carried(q, T, 0) = 0 /\ \A k \in 0..n : Carried(q, T, k) \in Int
        /\ \A k \in Nat : k + 1 <= n => /\ Load(q[k + 1], T) \in Int
                                        /\ Carried(q, T, k + 1) = Carried(q, T, k) + Load(q[k + 1], T)
    BY <1>0, <1>5, CarriedSteps
  <2>4. PICK b0 \in Int, v0 \in Nat :
          b0 = base.collateral[c] /\ v0 = Whole(base.rebalances, To(InFlight, c))
    <3>1. base.collateral \in [Chains -> Int] /\ base.rebalances \in Seq(InFlight)
      <4>1. base.collateral \in [Chains -> Int] /\ base.rebalances \in Seq(Flying(cfg))
        BY DEF Sending
      <4> QED BY <4>1, FlyingType
    <3>2. Whole(base.rebalances, To(InFlight, c)) \in Nat
      BY <3>1, InFlightReportable, CarriedNat
    <3> QED BY <3>1, <3>2
  <2> DEFINE So(k) == Kept(c, base, r[k], Carried(q, F, k), Carried(q, T, k))
             P == {k \in Nat : k <= n => So(k)}
  <2>5. 0 \in P
    <3>1. So(0)
      BY <1>4, <2>2, <2>3, <2>4 DEF Kept
    <3> HIDE DEF So
    <3> QED BY <3>1
  <2>6. ASSUME NEW k \in Nat, k \in P PROVE k + 1 \in P
    <3> SUFFICES ASSUME k + 1 <= n PROVE So(k + 1)
      <4> HIDE DEF So
      <4> QED OBVIOUS
    <3>1. k + 1 \in 1..n /\ (k + 1) - 1 = k /\ k \in 0..n /\ k + 1 \in 0..n /\ k <= n
      OBVIOUS
    <3>2. So(k)
      <4> HIDE DEF So
      <4> QED BY <2>6, <3>1
    <3>3. PICK d \in Sending(cfg), u \in Legs(cfg) : d = r[k] /\ u = q[k + 1]
      BY <1>0, <1>2, <3>1
    <3>4. PICK e : e = r[k + 1] /\ e = Send(d, u)
      BY <1>4, <3>1, <3>3
    <3>5. PICK x \in Nat, y \in Nat, db \in Int, eb \in Int, dv \in Nat, ev \in Nat :
            /\ x = Load(u, F) /\ y = Load(u, T)
            /\ db = d.collateral[c] /\ eb = e.collateral[c]
            /\ dv = Whole(d.rebalances, To(InFlight, c)) /\ ev = Whole(e.rebalances, To(InFlight, c))
            /\ db - x <= eb /\ eb <= db /\ dv <= ev /\ ev <= dv + y
      <4>1. /\ Load(u, F) \in Nat /\ Load(u, T) \in Nat /\ d.collateral[c] \in Int
            /\ Whole(d.rebalances, To(InFlight, c)) \in Nat
            /\ Kept(c, d, e, Load(u, F), Load(u, T))
        BY <2>1, <3>4, SendWithin
      <4> QED BY <4>1 DEF Kept
    <3>6. PICK f \in Int, t \in Int : f = Carried(q, F, k) /\ t = Carried(q, T, k)
      BY <2>2, <2>3, <3>1
    <3>7. Carried(q, F, k + 1) = f + x /\ Carried(q, T, k + 1) = t + y
      BY <2>2, <2>3, <3>3, <3>5, <3>6
    <3>8. b0 - f <= db /\ db <= b0 /\ v0 <= dv /\ dv <= v0 + t
      BY <2>4, <3>2, <3>3, <3>5, <3>6 DEF Kept
    <3>9. b0 - (f + x) <= eb /\ eb <= b0 /\ v0 <= ev /\ ev <= v0 + (t + y)
      <4>1. db - x <= eb /\ eb <= db /\ dv <= ev /\ ev <= dv + y
        BY <3>5
      <4> HIDE DEF P, So, D
      <4>2. b0 - (f + x) <= eb /\ eb <= b0
        BY <3>8, <4>1
      <4>3. v0 <= ev /\ ev <= v0 + (t + y)
        BY <3>8, <4>1
      <4> QED BY <4>2, <4>3
    <3> QED BY <2>4, <3>4, <3>5, <3>7, <3>9 DEF Kept
  <2>7. So(n)
    <3> HIDE DEF So
    <3>1. Nat \subseteq P
      <4> HIDE DEF P
      <4> QED BY <2>5, <2>6, NatSetInduction
    <3> QED BY <3>1
  <2> QED BY <1>0, <1>4, <2>1, <2>2, <2>3, <2>7 DEF Whole
<1> QED BY <1>3, <1>6
\* One strategy alone is run directly (CompositeStrategy.getRebalancingRoutes
\* with a single strategy, and the factory, which does not wrap it).
LEMMA OneStrategy ==
  ASSUME NEW cfg, ValidStrategies(cfg), Len(cfg) = 1, NEW raw \in [Chains -> Int],
         NEW context, ContextOK(context)
  PROVE  CompositeRoutes(cfg, raw, context) = getRebalancingRoutes(cfg[1], raw, context, <<>>)
<1>1. DOMAIN cfg = 1..1 /\ ValidStrategy(cfg[1])
  <2>1. DOMAIN cfg = 1..1 /\ 1 \in 1..1
    BY DEF ValidStrategies
  <2> QED BY <2>1 DEF ValidStrategies
<1> DEFINE D == Seq(Route)
           none == << >>
           step == [k \in 1..1 |-> [d \in D |-> ComposeOne(d, cfg[k], raw, context)]]
<1>2. none \in D /\ none = <<>> /\ 1 \in Nat
  OBVIOUS
<1>3. ASSUME NEW d \in D
      PROVE  /\ ComposeOne(d, cfg[1], raw, context) = d \o getRebalancingRoutes(cfg[1], raw, context, d)
             /\ ComposeOne(d, cfg[1], raw, context) \in D
             /\ getRebalancingRoutes(cfg[1], raw, context, d) \in Seq(Route)
  <2> DEFINE G(x) == x \o getRebalancingRoutes(cfg[1], raw, context, x)
  <2>1. {G(x) : x \in {d}} = {G(d)}
    OBVIOUS
  <2>2. Only({G(d)}) = G(d)
    BY DEF Only
  <2>3. ComposeOne(d, cfg[1], raw, context) = G(d)
    BY <2>1, <2>2 DEF ComposeOne
  <2>4. PICK g \in Seq(Route) : g = getRebalancingRoutes(cfg[1], raw, context, d)
    BY <1>1, RoutesType
  <2>5. G(d) \in D
    BY <2>4
  <2> HIDE DEF D
  <2> QED BY <2>3, <2>4, <2>5
<1>4. \A k \in 1..1, d \in D : step[k][d] = ComposeOne(d, cfg[k], raw, context) /\ step[k][d] \in D
  <2> SUFFICES ASSUME NEW k \in 1..1, NEW d \in D
               PROVE  step[k][d] = ComposeOne(d, cfg[k], raw, context) /\ step[k][d] \in D
    OBVIOUS
  <2>1. k = 1
    OBVIOUS
  <2>2. step[k][d] = ComposeOne(d, cfg[k], raw, context)
    <3> HIDE DEF D
    <3> QED OBVIOUS
  <2> HIDE DEF D, step
  <2> QED BY <1>3, <2>1, <2>2
<1>5. PICK r \in [0..1 -> D] : Run(r, 1, none, step, CompositeRoutes(cfg, raw, context))
  <2> HIDE DEF D, none, step
  <2> QED BY <1>1, <1>2, <1>4, ComposedInOrder
<1>6. CompositeRoutes(cfg, raw, context) = step[1][none]
  <2>1. 1 \in 1..1 /\ 1 - 1 = 0
    OBVIOUS
  <2> HIDE DEF D, none, step
  <2> QED BY <1>5, <2>1 DEF Run
<1>7. step[1][none] = ComposeOne(none, cfg[1], raw, context)
  <2>1. 1 \in 1..1
    OBVIOUS
  <2> HIDE DEF D, none, step
  <2> QED BY <1>2, <1>4, <2>1
<1>8. PICK g \in Seq(Route) : g = getRebalancingRoutes(cfg[1], raw, context, none)
  <2> HIDE DEF D, none
  <2> QED BY <1>2, <1>3
<1>9. ComposeOne(none, cfg[1], raw, context) = none \o g
  <2> HIDE DEF D, none
  <2> QED BY <1>2, <1>3, <1>8
<1>10. none \o g = g
  OBVIOUS
<1> HIDE DEF step
<1> QED BY <1>6, <1>7, <1>8, <1>9, <1>10

\* The sequence of nothing, of whatever kind: nothing proposed yet.
LEMMA NothingProposed ==
  ASSUME NEW U
  PROVE  \E e \in Seq(U) : e = <<>> /\ DOMAIN e = 1..0 /\ 1..0 = {}
<1>1. <<>> \in Seq(U) /\ Len(<<>>) = 0
  OBVIOUS
<1>2. PICK e \in Seq(U) : e = <<>> /\ Len(e) = 0
  BY <1>1
<1>3. DOMAIN e = 1..0 /\ 1..0 = {}
  BY <1>2
<1> QED BY <1>2, <1>3

\* A strategy alone sees everything in flight: all of it went over its bridges.
LEMMA SeesAll ==
  ASSUME NEW strategy, NEW b \in [Chains -> Int], NEW q \in Seq(InFlight),
         \A k \in DOMAIN q : q[k].bridge = strategy.bridge[q[k].origin, q[k].destination]
  PROVE  Simulated(strategy, b, q, <<>>) = simulatePendingRebalances(b, q)
<1>1. filterByConfiguredBridges(strategy, q) = q
  <2> DEFINE S == {r \in Range(q) : r.bridge = "none"
                                     \/ r.bridge = strategy.bridge[r.origin, r.destination]}
  <2>1. filterByConfiguredBridges(strategy, q) = Selected(q, S)
    BY DEF filterByConfiguredBridges
  <2>2. \A k \in DOMAIN q : q[k] \in S
    BY DEF Range
  <2> HIDE DEF S
  <2> QED BY <2>1, <2>2, SelectedAll
<1>2. filterByConfiguredBridges(strategy, <<>>) = <<>>
  <2>1. PICK S : filterByConfiguredBridges(strategy, <<>>) = Selected(<<>>, S)
    BY DEF filterByConfiguredBridges
  <2>2. PICK e \in Seq(Route) : e = <<>> /\ \A k \in DOMAIN e : e[k] \in S
    <3>1. PICK e \in Seq(Route) : e = <<>> /\ DOMAIN e = {}
      BY NothingProposed
    <3> QED BY <3>1
  <2>3. Selected(e, S) = e
    BY <2>2, SelectedAll
  <2> QED BY <2>1, <2>2, <2>3
<1>3. PICK d \in [Chains -> Int] : d = simulatePendingRebalances(b, q)
  BY InFlightReportable, PendingType
<1>4. simulateProposedRebalances(d, <<>>) = d
  <2>1. PICK e : e = <<>> /\ DOMAIN e = 1..0 /\ 1..0 = {}
    BY NothingProposed
  <2>2. PICK step : step = <<>>
    OBVIOUS
  <2>3. PICK D : D = [Chains -> Int]
    OBVIOUS
  <2>4. 0 \in Nat /\ d \in D /\ \A k \in 1..0, x \in D : step[k][x] = SimulateRoute(x, e[k]) /\ step[k][x] \in D
    BY <2>1, <2>3
  <2>5. PICK r \in [0..0 -> D] : Run(r, 0, d, step, simulateProposedRebalances(d, e))
    BY <2>1, <2>4, ProposedInOrder
  <2> QED BY <2>1, <2>5 DEF Run
<1> QED BY <1>1, <1>2, <1>3, <1>4 DEF Simulated

\* The routes of a cycle with one strategy go over its bridges.
LEMMA ProposedLegs ==
  ASSUME NEW cfg, ValidStrategies(cfg), NEW raw \in [Chains -> Int], NEW context, ContextOK(context),
         NEW q, q = CompositeRoutes(cfg, raw, context)
  PROVE  q \in Seq(Legs(cfg))
<1>1. q \in Seq(Route)
  BY CompositeType
<1>2. CASE Len(cfg) # 1
  <2>1. Route \subseteq Legs(cfg)
    BY <1>2, Zenon DEF Legs
  <2> QED BY <1>1, <2>1
<1>3. CASE Len(cfg) = 1
  <2>1. q = getRebalancingRoutes(cfg[1], raw, context, <<>>)
    BY <1>3, OneStrategy
  <2>2. ValidStrategy(cfg[1])
    <3>1. 1 \in DOMAIN cfg
      BY <1>3 DEF ValidStrategies
    <3> QED BY <3>1 DEF ValidStrategies
  <2>3. RouteOf(cfg[1]) \subseteq Legs(cfg)
    BY Zenon DEF RouteOf, Legs
  <2>4. PICK none : none = <<>> /\ none \in Seq(Route)
    <3>1. <<>> \in Seq(Route)
      OBVIOUS
    <3> QED BY <3>1
  <2>5. PICK b \in [Chains -> Int] :
          b = Simulated(cfg[1], reserveCollateral(raw, context.transfers), context.rebalances,
                        IF cfg[1].kind = "collateralDeficit" THEN <<>> ELSE none)
    <3>1. PICK reserved \in [Chains -> Int] : reserved = reserveCollateral(raw, context.transfers)
      BY ReservedType DEF ContextOK
    <3>2. Simulated(cfg[1], reserved, context.rebalances, none) \in [Chains -> Int]
      BY <2>4, SimulatedType DEF ContextOK
    <3> QED BY <2>4, <3>1, <3>2
  <2>6. CASE Chains = {}
    <3>1. Route = {}
      BY <2>6 DEF Route
    <3> QED BY <1>1, <3>1
  <2>7. ASSUME NEW c \in Chains PROVE q \in Seq(Legs(cfg))
    <3>1. PICK w : w \in Bands(cfg[1], b)
      BY DEF Bands
    <3>2. q \in Seq(RouteOf(cfg[1]))
      BY <2>1, <2>2, <2>4, <2>5, <3>1, RoutesWithin
    <3> QED BY <2>3, <3>2
  <2> QED BY <2>6, <2>7
<1> QED BY <1>2, <1>3
\* What w asks of its chain, from one settled balance to the next.
InBand(w, before, after) ==
  /\ after[w.chain] < before[w.chain] => after[w.chain] >= w.keep
  /\ after[w.chain] > before[w.chain] => after[w.chain] <= w.fill

\* The moves of one strategy stay in its bands, whichever of them are sent.
LEMMA CycleInBand ==
  ASSUME NEW cfg, ValidStrategies(cfg), Len(cfg) = 1,
         NEW base \in Sending(cfg), NEW context, context.transfers \in Seq(PendingTransfer),
         context.rebalances = base.rebalances,
         NEW q, q = CompositeRoutes(cfg, base.collateral, context),
         NEW sent, sent = SendAll(base, q),
         NEW next, next.transfers = context.transfers, next.rebalances = sent.rebalances,
         NEW before, before = Settled(base.collateral, context),
         NEW after, after = Settled(sent.collateral, next),
         NEW w \in Bands(cfg[1], before)
  PROVE  InBand(w, before, after)
<1>1. PICK raw \in [Chains -> Int], rebs \in Seq(Flying(cfg)) :
        raw = base.collateral /\ rebs = base.rebalances
  BY DEF Sending
<1>2. rebs \in Seq(InFlight) /\ Reportable(rebs)
  BY FlyingType, InFlightReportable
<1>3. ContextOK(context)
  BY <1>1, <1>2 DEF ContextOK
<1>4. q \in Seq(Legs(cfg))
  BY <1>1, <1>3, ProposedLegs
<1>5. sent \in Sending(cfg) /\ sent.collateral \in [Chains -> Int] /\ sent.rebalances \in Seq(InFlight)
  <2>1. sent \in Sending(cfg)
    BY <1>4, SentWithin
  <2>2. sent.collateral \in [Chains -> Int] /\ sent.rebalances \in Seq(Flying(cfg))
    BY <2>1 DEF Sending
  <2> QED BY <2>1, <2>2, FlyingType
<1>6. before \in [Chains -> Int]
  BY <1>1, <1>2, SettledAt
<1>7. w.chain \in Chains /\ w.below \in Int /\ w.fill \in Int /\ w.keep \in Int
  <2>1. ValidStrategy(cfg[1])
    <3>1. 1 \in DOMAIN cfg
      BY DEF ValidStrategies
    <3> QED BY <3>1 DEF ValidStrategies
  <2>2. OneBandEach(Bands(cfg[1], before))
    BY <1>6, <2>1, BandsType
  <2> QED BY <2>2 DEF OneBandEach, Bounds
<1>8. PICK c \in Chains : c = w.chain
  BY <1>7
<1>9. Whole(q, From(Route, c)) <= Spare(before, w) /\ Whole(q, To(Route, c)) <= Lack(before, w)
  <2>1. ValidStrategy(cfg[1])
    <3>1. 1 \in DOMAIN cfg
      BY DEF ValidStrategies
    <3> QED BY <3>1 DEF ValidStrategies
  <2>2. PICK none : none = <<>>
    OBVIOUS
  <2>3. q = getRebalancingRoutes(cfg[1], raw, context, none)
    BY <1>1, <1>3, <2>2, OneStrategy
  <2>4. before = Simulated(cfg[1], reserveCollateral(raw, context.transfers), context.rebalances,
                           IF cfg[1].kind = "collateralDeficit" THEN <<>> ELSE none)
    <3>1. PICK reserved \in [Chains -> Int] : reserved = reserveCollateral(raw, context.transfers)
      BY ReservedType
    <3>2. \A k \in DOMAIN rebs : rebs[k].bridge = cfg[1].bridge[rebs[k].origin, rebs[k].destination]
      <4>1. \A k \in DOMAIN rebs : rebs[k] \in Flying(cfg)
        OBVIOUS
      <4> QED BY <4>1, Zenon DEF Flying
    <3>3. Simulated(cfg[1], reserved, rebs, <<>>) = simulatePendingRebalances(reserved, rebs)
      BY <1>2, <3>2, SeesAll
    <3>4. before = simulatePendingRebalances(reserved, rebs)
      BY <1>1, <3>1 DEF Settled
    <3> QED BY <1>1, <2>2, <3>1, <3>3, <3>4
  <2> QED BY <1>3, <1>6, <1>8, <2>1, <2>3, <2>4, RoutesWithin
<1>10. PICK t \in Int, v \in Nat, v1 \in Nat, b \in Int, b1 \in Int :
         /\ b = raw[c] /\ b1 = sent.collateral[c]
         /\ t = Whole(context.transfers, To(PendingTransfer, c))
         /\ v = Whole(rebs, To(InFlight, c)) /\ v1 = Whole(sent.rebalances, To(InFlight, c))
         /\ before[c] = b - t + v /\ after[c] = b1 - t + v1
  <2>1. /\ Whole(context.transfers, To(PendingTransfer, c)) \in Int
        /\ Whole(rebs, To(InFlight, c)) \in Nat
        /\ before[c] = raw[c] - Whole(context.transfers, To(PendingTransfer, c))
                         + Whole(rebs, To(InFlight, c))
    BY <1>1, <1>2, SettledAt
  <2>2. /\ Whole(sent.rebalances, To(InFlight, c)) \in Nat
        /\ after[c] = sent.collateral[c] - Whole(context.transfers, To(PendingTransfer, c))
                        + Whole(sent.rebalances, To(InFlight, c))
    <3>1. PICK n \in [Chains -> Int], p \in Seq(InFlight) : n = sent.collateral /\ p = sent.rebalances
      BY <1>5
    <3>2. next.transfers \in Seq(PendingTransfer) /\ next.rebalances \in Seq(InFlight)
      BY <3>1
    <3>3. /\ Whole(next.rebalances, To(InFlight, c)) \in Nat
          /\ Settled(n, next)[c] = n[c] - Whole(next.transfers, To(PendingTransfer, c))
                                     + Whole(next.rebalances, To(InFlight, c))
      BY <3>2, SettledAt
    <3> QED BY <3>1, <3>3
  <2>3. raw[c] \in Int /\ sent.collateral[c] \in Int
    BY <1>5
  <2> QED BY <2>1, <2>2, <2>3
<1>11. PICK x \in Int, y \in Int : /\ x = Whole(q, From(Route, c)) /\ y = Whole(q, To(Route, c))
                                   /\ b - x <= b1 /\ b1 <= b /\ v <= v1 /\ v1 <= v + y
  <2>1. /\ Whole(q, From(Route, c)) \in Int /\ Whole(q, To(Route, c)) \in Int
        /\ Kept(c, base, sent, Whole(q, From(Route, c)), Whole(q, To(Route, c)))
    BY <1>4, SentWithin
  <2> QED BY <1>1, <1>10, <2>1 DEF Kept
<1>12. PICK m \in Int, m1 \in Int : m = before[c] /\ m1 = after[c]
  BY <1>10
<1>13. m - x <= m1 /\ m1 <= m + y
  <2>1. m = b - t + v /\ m1 = b1 - t + v1
    BY <1>10, <1>12
  <2> QED BY <1>11, <2>1
<1>14. m1 < m => m1 >= w.keep
  <2> SUFFICES ASSUME m1 < m PROVE m1 >= w.keep
    OBVIOUS
  <2>1. x > 0 /\ x <= Spare(before, w)
    BY <1>9, <1>11, <1>13
  <2>2. x <= m - w.keep
    BY <1>7, <1>8, <1>12, <2>1 DEF Spare
  <2> QED BY <1>7, <1>13, <2>2
<1>15. m1 > m => m1 <= w.fill
  <2> SUFFICES ASSUME m1 > m PROVE m1 <= w.fill
    OBVIOUS
  <2>1. y > 0 /\ y <= Lack(before, w)
    BY <1>9, <1>11, <1>13
  <2>2. y <= w.fill - m
    BY <1>7, <1>8, <1>12, <2>1 DEF Lack, Positive
  <2> QED BY <1>7, <1>13, <2>2
<1> QED BY <1>8, <1>12, <1>14, <1>15 DEF InBand

-----------------------------------------------------------------------------
(* The rounds *)

IInv ==
  /\ config \in Configs
  /\ collateral \in [Chains -> Int]
  /\ transfers \in Seq(PendingTransfer)
  /\ rebalances \in Seq(Flying(config))

\* Removing an element leaves a sequence of the same kind.
LEMMA RemovedType ==
  ASSUME NEW U, NEW q \in Seq(U), NEW i \in DOMAIN q
  PROVE  RemoveAt(q, i) \in Seq(U)
<1>1. PICK n \in Nat : n = Len(q) /\ i \in 1..n /\ DOMAIN q = 1..n
  OBVIOUS
<1>2. SubSeq(q, 1, i - 1) \in Seq(U) /\ SubSeq(q, i + 1, n) \in Seq(U)
  BY <1>1
<1> QED BY <1>1, <1>2 DEF RemoveAt

\* Every step keeps what is in flight of its kind, and a single strategy's
\* rebalances on its bridges.
LEMMA Inductive == Init /\ [][Next]_vars => []IInv
<1>1. Init => IInv
  <2>1. \A cfg : <<>> \in Seq(Flying(cfg)) /\ <<>> \in Seq(PendingTransfer)
    OBVIOUS
  <2>2. InitialCollateral \in [Chains -> Int]
    BY AmountsAssumption
  <2> QED BY <2>1, <2>2 DEF Init, IInv
<1>2. IInv /\ [Next]_vars => IInv'
  <2> SUFFICES ASSUME IInv, [Next]_vars PROVE IInv'
    OBVIOUS
  <2>1. /\ config \in Configs /\ collateral \in [Chains -> Int]
        /\ transfers \in Seq(PendingTransfer) /\ rebalances \in Seq(Flying(config))
    BY DEF IInv
  <2>2. CASE UNCHANGED vars
    BY <2>1, <2>2 DEF vars, IInv
  <2>3. ASSUME NEW o \in Chains, NEW d \in Chains, NEW a \in TransferAmounts, UserTransfer(o, d, a)
        PROVE  IInv'
    <3>1. a \in Int
      BY AmountsAssumption
    <3>2. [origin |-> o, destination |-> d, amount |-> a] \in PendingTransfer
      BY <3>1 DEF PendingTransfer
    <3>3. collateral' \in [Chains -> Int]
      BY <2>1, <2>3, <3>1 DEF UserTransfer
    <3>4. transfers' \in Seq(PendingTransfer)
      BY <2>1, <2>3, <3>2 DEF UserTransfer
    <3>5. config' = config /\ rebalances' = rebalances
      BY <2>3 DEF UserTransfer
    <3> QED BY <2>1, <3>3, <3>4, <3>5 DEF IInv
  <2>4. ASSUME NEW i \in DOMAIN transfers, DeliverTransfer(i) PROVE IInv'
    <3>1. transfers[i] \in PendingTransfer
      BY <2>1
    <3>2. transfers[i].destination \in Chains /\ transfers[i].amount \in Int
      BY <3>1 DEF PendingTransfer
    <3>3. collateral' \in [Chains -> Int]
      BY <2>1, <2>4, <3>2 DEF DeliverTransfer
    <3>4. transfers' \in Seq(PendingTransfer)
      BY <2>1, <2>4, RemovedType DEF DeliverTransfer
    <3>5. config' = config /\ rebalances' = rebalances
      BY <2>4 DEF DeliverTransfer
    <3> QED BY <2>1, <3>3, <3>4, <3>5 DEF IInv
  <2>5. ASSUME NEW i \in DOMAIN rebalances, DeliverRebalance(i) PROVE IInv'
    <3>1. rebalances[i] \in InFlight
      BY <2>1, FlyingType
    <3>2. rebalances[i].destination \in Chains /\ rebalances[i].amount \in Int
      <4>1. \A u \in InFlight : u.destination \in Chains /\ u.amount \in Int
        BY DEF InFlight
      <4> QED BY <3>1, <4>1
    <3>3. collateral' \in [Chains -> Int]
      BY <2>1, <2>5, <3>2 DEF DeliverRebalance
    <3>4. rebalances' \in Seq(Flying(config))
      BY <2>1, <2>5, RemovedType DEF DeliverRebalance
    <3>5. config' = config /\ transfers' = transfers
      BY <2>5 DEF DeliverRebalance
    <3> QED BY <2>1, <3>3, <3>4, <3>5 DEF IInv
  <2>6. CASE Cycle
    <3>1. PICK base : base = [collateral |-> collateral, rebalances |-> rebalances]
      OBVIOUS
    <3>2. PICK q : q = Proposed
      OBVIOUS
    <3>3. collateral' = SendAll(base, q).collateral /\ rebalances' = SendAll(base, q).rebalances
      BY <2>6, <3>1, <3>2 DEF Cycle
    <3>4. config' = config /\ transfers' = transfers
      BY <2>6 DEF Cycle
    <3>5. base \in Sending(config)
      BY <2>1, <3>1 DEF Sending
    <3>6. PICK context : context = Context /\ ContextOK(context)
      <4>1. Context.transfers = transfers /\ Context.rebalances = rebalances
        BY DEF Context
      <4>2. Reportable(rebalances)
        BY <2>1, FlyingType, InFlightReportable
      <4>3. ContextOK(Context)
        BY <2>1, <4>1, <4>2 DEF ContextOK
      <4> QED BY <4>3
    <3>7. q \in Seq(Legs(config))
      <4>1. ValidStrategies(config)
        BY <2>1, ConfigsAssumption
      <4>2. q = CompositeRoutes(config, collateral, context)
        BY <3>2, <3>6 DEF Proposed
      <4> QED BY <2>1, <3>6, <4>1, <4>2, ProposedLegs
    <3>8. PICK sent : sent = SendAll(base, q) /\ sent \in Sending(config)
      BY <3>5, <3>7, SentWithin
    <3>9. sent.collateral \in [Chains -> Int] /\ sent.rebalances \in Seq(Flying(config))
      BY <3>8 DEF Sending
    <3> QED BY <2>1, <3>3, <3>4, <3>8, <3>9 DEF IInv
  <2>7. CASE Idle
    BY <2>1, <2>7 DEF Idle, vars, IInv
  <2> QED BY <2>2, <2>3, <2>4, <2>5, <2>6, <2>7 DEF Next
<1> QED BY <1>1, <1>2, PTL

\* For every set of chains, every valid configuration and every history of
\* transfers and deliveries: a cycle of a single strategy leaves every chain it
\* takes from with what the strategy keeps there, and fills no chain past its
\* target, counting all that is in flight (BaseStrategy.getRebalancingRoutes).
THEOREM MovesStayInBand == Spec => StaysInBand
<1> DEFINE Moves ==
             Len(config) = 1 /\ Cycle =>
               \A before \in {Settled(collateral, Context)},
                  after \in {Settled(collateral', Context')} :
                 \A w \in Bands(config[1], before) :
                   /\ after[w.chain] < before[w.chain] => after[w.chain] >= w.keep
                   /\ after[w.chain] > before[w.chain] => after[w.chain] <= w.fill
<1>1. IInv /\ [Next]_vars => [Moves]_vars
  <2> SUFFICES ASSUME IInv, Len(config) = 1, Cycle,
                      NEW before, before = Settled(collateral, Context),
                      NEW after, after = Settled(collateral', Context'),
                      NEW w \in Bands(config[1], before)
               PROVE  InBand(w, before, after)
    BY DEF InBand
  <2>1. /\ collateral \in [Chains -> Int] /\ transfers \in Seq(PendingTransfer)
        /\ rebalances \in Seq(Flying(config)) /\ ValidStrategies(config)
    BY ConfigsAssumption DEF IInv
  <2>2. PICK base : /\ base = [collateral |-> collateral, rebalances |-> rebalances]
                    /\ base \in Sending(config)
                    /\ base.collateral = collateral /\ base.rebalances = rebalances
    <3>1. PICK base : base = [collateral |-> collateral, rebalances |-> rebalances]
      OBVIOUS
    <3>2. base \in Sending(config)
      BY <2>1, <3>1 DEF Sending
    <3>3. base.collateral = collateral /\ base.rebalances = rebalances
      BY <3>1
    <3> QED BY <3>1, <3>2, <3>3
  <2>3. PICK q : q = Proposed
    OBVIOUS
  <2>4. PICK sent : sent = SendAll(base, q)
    OBVIOUS
  <2>5. collateral' = sent.collateral /\ rebalances' = sent.rebalances /\ transfers' = transfers
    BY <2>2, <2>3, <2>4 DEF Cycle
  <2>6. PICK context : /\ context = Context
                       /\ context.transfers = transfers /\ context.rebalances = rebalances
    BY DEF Context
  <2>7. PICK next : /\ next = Context'
                    /\ next.transfers = transfers' /\ next.rebalances = rebalances'
    BY DEF Context
  <2>8. q = CompositeRoutes(config, base.collateral, context)
    BY <2>2, <2>3, <2>6 DEF Proposed
  <2>9. before = Settled(base.collateral, context) /\ after = Settled(sent.collateral, next)
    BY <2>2, <2>5, <2>6, <2>7
  <2>10. context.transfers \in Seq(PendingTransfer) /\ context.rebalances = base.rebalances
         /\ next.transfers = context.transfers /\ next.rebalances = sent.rebalances
    BY <2>1, <2>2, <2>5, <2>6, <2>7
  <2> QED BY <2>1, <2>2, <2>4, <2>8, <2>9, <2>10, CycleInBand
<1>2. Spec => []IInv /\ [][Next]_vars
  BY Inductive, PTL DEF Spec
<1>3. StaysInBand <=> [][Moves]_vars
  BY DEF StaysInBand
<1> QED BY <1>1, <1>2, <1>3, PTL
=============================================================================
