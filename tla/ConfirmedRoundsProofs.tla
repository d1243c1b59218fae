------------------------ MODULE ConfirmedRoundsProofs ------------------------
(***************************************************************************)
(* The reads of a polling cycle agree: proved for every set of chains,     *)
(* every strategy, any number of rebalances and every reorg period whose   *)
(* two uses agree.  The routes themselves are arbitrary: nothing of what   *)
(* the strategies compute is used.                                         *)
(***************************************************************************)
EXTENDS ConfirmedRounds, RebalanceStrategyProofs

-----------------------------------------------------------------------------
(* The inductive invariant.                                                *)

\* A rebalance has its fields, and only a valid one is sent and received.
WellFormed(r) ==
  /\ r = [origin |-> r.origin, destination |-> r.destination, amount |-> r.amount,
          bridge |-> r.bridge, sent |-> r.sent, received |-> r.received, status |-> r.status]
  /\ r.sent \in Nat /\ r.received \in Nat
  /\ r.sent > 0 \/ r.received > 0 => Valid(r)

ShapeInv ==
  /\ tagged \in [Chains -> Nat]
  /\ event.raw = [c \in Chains |-> event.raw[c]]
  /\ Len(rebalances) \in 0..MaxRebalances /\ DOMAIN rebalances = 1..Len(rebalances)
  /\ \A i \in DOMAIN rebalances : WellFormed(rebalances[i])

\* Sends are under way only in their phase of the cycle.
PhaseInv == pc # "send" => Sending = {}

Started(r) == r.status \in {"in_progress", "complete"}

\* By block b chain c has sent what is recorded as in progress, and received
\* what is recorded as complete.
RecordedBy(c, b) ==
  \A i \in DOMAIN rebalances :
    LET r == rebalances[i]
    IN  /\ Agreeing /\ Started(r) /\ r.origin = c => r.sent <= b
        /\ r.status = "complete" /\ r.destination = c => r.received <= b

\* The tags do not go back, and have seen what is recorded.
TagInv ==
  \A c \in Chains : \A b \in Nat : b = Tag(c) => event.tag[c] <= b /\ RecordedBy(c, b)

\* So long as the event is used, its balances are those of its blocks, which
\* have seen what is recorded.
EventInv ==
  pc = "sync" =>
    \A c \in Chains : \A b \in Nat :
      b = event.tag[c] => event.raw[c] = BalanceAt(c, b) /\ RecordedBy(c, b)

\* No block leaves a router with less than nothing.
SolventInv == \A c \in Chains : \A b \in 0..height[c] : BalanceAt(c, b) >= 0

IInv == TypeOK /\ ShapeInv /\ PhaseInv /\ TagInv /\ EventInv /\ SolventInv

-----------------------------------------------------------------------------
(* Balances.                                                               *)

\* What a rebalance has moved to chain c by block b.
Moved(r, c, b) ==
  (IF r.destination = c /\ r.received \in 1..b THEN r.amount ELSE 0)
  - (IF r.origin = c /\ r.sent \in 1..b THEN r.amount ELSE 0)

Flow(c, b) == [i \in DOMAIN rebalances |-> Moved(rebalances[i], c, b)]

\* A balance is what there was and what the rebalances moved, before and after
\* a step.
LEMMA BalanceIs ==
  ASSUME NEW c, NEW b
  PROVE  /\ BalanceAt(c, b) = InitialCollateral[c] + SumFunctionOnSet(Flow(c, b), DOMAIN rebalances)
         /\ BalanceAt(c, b)' = InitialCollateral[c]
                                + SumFunctionOnSet(Flow(c, b)', DOMAIN rebalances')
BY DEF BalanceAt, Sum, Flow, Moved

\* What moves is an integer, and nothing for what was not sent.
LEMMA MovedType ==
  ASSUME NEW r, WellFormed(r), NEW c, NEW b \in Nat
  PROVE  Moved(r, c, b) \in Int /\ (r.sent = 0 /\ r.received = 0 => Moved(r, c, b) = 0)
<1>1. CASE Valid(r)
  BY <1>1 DEF WellFormed, Valid, Moved
<1>2. CASE ~Valid(r)
  <2>1. r.sent = 0 /\ r.received = 0
    BY <1>2 DEF WellFormed
  <2> QED BY <2>1 DEF Moved
<1> QED BY <1>1, <1>2

\* The positions are a finite set, of well-formed rebalances.
LEMMA FlowType ==
  ASSUME ShapeInv, NEW c, NEW b \in Nat
  PROVE  /\ IsFiniteSet(DOMAIN rebalances)
         /\ \A i \in DOMAIN rebalances : Flow(c, b)[i] \in Int
<1>1. Len(rebalances) \in Nat /\ DOMAIN rebalances = 1..Len(rebalances)
  BY BoundsAssumption DEF ShapeInv
<1>2. IsFiniteSet(DOMAIN rebalances)
  BY <1>1, FS_Interval
<1>3. ASSUME NEW i \in DOMAIN rebalances PROVE Flow(c, b)[i] \in Int
  BY MovedType DEF ShapeInv, Flow
<1> QED BY <1>2, <1>3

\* Balances are integers.
LEMMA BalanceType ==
  ASSUME ShapeInv, NEW c \in Chains, NEW b \in Nat
  PROVE  BalanceAt(c, b) \in Int
<1>1. SumFunctionOnSet(Flow(c, b), DOMAIN rebalances) \in Int
  BY FlowType, SumType
<1>2. InitialCollateral[c] \in Int
  BY CollateralAssumption
<1> QED BY <1>1, <1>2, BalanceIs

\* The same moves give the same balance.
LEMMA BalanceSame ==
  ASSUME ShapeInv, DOMAIN rebalances' = DOMAIN rebalances,
         NEW c \in Chains, NEW b \in Nat, NEW new \in Nat,
         \A i \in DOMAIN rebalances : Moved(rebalances'[i], c, new) = Moved(rebalances[i], c, b)
  PROVE  BalanceAt(c, new)' = BalanceAt(c, b)
<1> DEFINE S == DOMAIN rebalances
           f == Flow(c, b)
           g == Flow(c, new)'
<1>1. IsFiniteSet(S) /\ \A i \in S : f[i] \in Int
  BY FlowType
<1>2. \A i \in S : g[i] = f[i]
  BY DEF Flow
<1>3. \A i \in S : f[i] \in Int /\ g[i] = f[i]
  BY <1>1, <1>2
<1>4. SumFunctionOnSet(g, S) = SumFunctionOnSet(f, S)
  <2> HIDE DEF S, f, g
  <2> QED BY <1>1, <1>3, SumEq
<1> QED BY <1>4, BalanceIs

\* One rebalance that moved something more changes the balance by that.
LEMMA BalanceChange ==
  ASSUME ShapeInv, DOMAIN rebalances' = DOMAIN rebalances,
         NEW c \in Chains, NEW b \in Nat, NEW new \in Nat, NEW k \in DOMAIN rebalances,
         WellFormed(rebalances'[k]),
         \A i \in DOMAIN rebalances :
           i # k => Moved(rebalances'[i], c, new) = Moved(rebalances[i], c, b)
  PROVE  BalanceAt(c, new)' = BalanceAt(c, b) + (Moved(rebalances'[k], c, new)
                                                 - Moved(rebalances[k], c, b))
<1> DEFINE S == DOMAIN rebalances
           f == Flow(c, b)
           g == Flow(c, new)'
<1>1. IsFiniteSet(S) /\ \A i \in S : f[i] \in Int
  BY FlowType
<1>2. f[k] = Moved(rebalances[k], c, b) /\ g[k] = Moved(rebalances'[k], c, new)
  BY DEF Flow
<1>3. g[k] \in Int
  BY <1>2, MovedType
<1>4. \A i \in S : i # k => g[i] = f[i]
  BY DEF Flow
<1>5. DifferAt(f, g, S, k)
  BY <1>1, <1>3, <1>4 DEF DifferAt
<1>6. SumFunctionOnSet(g, S) = SumFunctionOnSet(f, S) + (g[k] - f[k])
  <2>1. k \in S
    OBVIOUS
  <2> HIDE DEF S, f, g
  <2> QED BY <1>1, <1>5, <2>1, SumChange
<1>7. PICK t \in Int, x \in Int, y \in Int, z \in Int :
        t = SumFunctionOnSet(f, S) /\ x = f[k] /\ y = g[k] /\ z = InitialCollateral[c]
  <2>1. InitialCollateral[c] \in Int
    BY CollateralAssumption
  <2>2. SumFunctionOnSet(f, S) \in Int
    <3> HIDE DEF S, f
    <3> QED BY <1>1, SumType
  <2> QED BY <1>1, <1>3, <2>1, <2>2
<1>8. BalanceAt(c, b) = z + t /\ BalanceAt(c, new)' = z + (t + (y - x))
  BY <1>6, <1>7, BalanceIs
<1> QED BY <1>2, <1>7, <1>8

-----------------------------------------------------------------------------
(* Blocks.                                                                 *)

\* The tag of a chain is one of its blocks, or 0.
LEMMA TagType ==
  ASSUME TypeOK, NEW c \in Chains
  PROVE  Tag(c) \in 0..height[c] /\ height[c] \in 1..MaxHeight /\ tagged[c] \in 1..height[c]
<1>1. height[c] \in 1..MaxHeight /\ tagged[c] \in 1..height[c]
  BY DEF TypeOK
<1> QED BY <1>1, BoundsAssumption, ReorgPeriodAssumption DEF Tag, Positive

\* Tags do not go back while chains grow.
LEMMA TagMonotone ==
  ASSUME TypeOK, TypeOK', NEW c \in Chains, height[c] <= height'[c], tagged[c] <= tagged'[c]
  PROVE  Tag(c) <= Tag(c)'
<1>1. /\ height[c] \in Nat /\ tagged[c] \in Nat
      /\ height'[c] \in Nat /\ tagged'[c] \in Nat
  BY BoundsAssumption DEF TypeOK
<1>2. ReorgPeriod[c].depth \in Nat
  BY ReorgPeriodAssumption
<1> QED BY <1>1, <1>2 DEF Tag, Positive

\* All that moved is on a block a chain has: the next one moves nothing yet.
LEMMA MovedSettled ==
  ASSUME TypeOK, ShapeInv, NEW i \in DOMAIN rebalances, NEW c \in Chains
  PROVE  Moved(rebalances[i], c, height[c] + 1) = Moved(rebalances[i], c, height[c])
<1> DEFINE r == rebalances[i]
<1>1. height[c] \in Nat
  BY BoundsAssumption DEF TypeOK
<1>2. r.sent \in Nat /\ r.received \in Nat
  BY DEF ShapeInv, WellFormed
<1>3. CASE r.sent = 0 /\ r.received = 0
  BY <1>3, <1>1 DEF Moved
<1>4. CASE ~(r.sent = 0 /\ r.received = 0)
  <2>1. r.sent \in 0..height[r.origin] /\ r.received \in 0..height[r.destination]
    BY <1>2, <1>4 DEF TypeOK
  <2>2. /\ r.origin = c => (r.sent \in 1..(height[c] + 1) <=> r.sent \in 1..height[c])
        /\ r.destination = c => (r.received \in 1..(height[c] + 1) <=> r.received \in 1..height[c])
    BY <1>1, <1>2, <2>1
  <2> QED BY <2>2 DEF Moved
<1> QED BY <1>3, <1>4

\* So an empty block leaves the balance.
LEMMA EmptyBlock ==
  ASSUME TypeOK, ShapeInv, SolventInv, rebalances' = rebalances,
         NEW c \in Chains, NEW b \in 0..(height[c] + 1)
  PROVE  BalanceAt(c, b)' >= 0
<1>1. height[c] \in Nat /\ b \in Nat
  BY BoundsAssumption DEF TypeOK
<1>2. CASE b <= height[c]
  <2>1. BalanceAt(c, b)' = BalanceAt(c, b)
    BY <1>1, BalanceSame
  <2> QED BY <1>1, <1>2, <2>1 DEF SolventInv
<1>3. CASE b = height[c] + 1
  <2>1. PICK h \in Nat : h = height[c]
    BY <1>1
  <2>2. \A i \in DOMAIN rebalances : Moved(rebalances'[i], c, b) = Moved(rebalances[i], c, h)
    BY <1>3, <2>1, MovedSettled
  <2>3. DOMAIN rebalances' = DOMAIN rebalances
    OBVIOUS
  <2>4. BalanceAt(c, b)' = BalanceAt(c, h)
    BY <1>1, <2>1, <2>2, <2>3, BalanceSame
  <2>5. BalanceAt(c, h) >= 0
    BY <2>1 DEF SolventInv
  <2> QED BY <2>4, <2>5
<1> QED BY <1>1, <1>2, <1>3

-----------------------------------------------------------------------------
(* The steps.                                                              *)

\* The chains go on and nothing else happens: Mine, Finalize, or no step.
LEMMA BlocksHold ==
  ASSUME IInv, UNCHANGED <<rebalances, pc, event>>,
         height' \in [Chains -> 1..MaxHeight], tagged' \in [Chains -> Nat],
         \A c \in Chains : /\ height[c] <= height'[c] /\ height'[c] <= height[c] + 1
                           /\ tagged[c] <= tagged'[c] /\ tagged'[c] <= height'[c]
  PROVE  IInv'
<1> USE BoundsAssumption
<1>0. TypeOK /\ ShapeInv /\ PhaseInv /\ TagInv /\ EventInv /\ SolventInv
  BY DEF IInv
<1>1. \A c \in Chains : /\ height[c] \in Nat /\ height'[c] \in 1..MaxHeight
                        /\ tagged[c] \in 1..height[c] /\ tagged'[c] \in 1..height'[c]
  BY <1>0 DEF TypeOK
<1>2. TypeOK'
  <2>1. ASSUME NEW i \in DOMAIN rebalances, Valid(rebalances[i]),
               rebalances[i].sent \in 0..height[rebalances[i].origin],
               rebalances[i].received \in 0..height[rebalances[i].destination]
        PROVE  /\ rebalances[i].sent \in 0..height'[rebalances[i].origin]
               /\ rebalances[i].received \in 0..height'[rebalances[i].destination]
    BY <1>1, <2>1 DEF Valid
  <2>2. \A c \in Chains : event.tag[c] \in 0..height'[c] /\ event.raw[c] \in Nat
    BY <1>0, <1>1 DEF TypeOK
  <2> QED BY <1>0, <1>1, <2>1, <2>2 DEF TypeOK, Valid
<1>3. ShapeInv' /\ PhaseInv'
  BY <1>0 DEF ShapeInv, PhaseInv, Sending, WellFormed, Valid
<1>4. \A c \in Chains, b \in Nat : RecordedBy(c, b)' <=> RecordedBy(c, b)
  BY DEF RecordedBy, Agreeing, Started
<1>5. TagInv'
  <2> SUFFICES ASSUME NEW c \in Chains, NEW b \in Nat, b = Tag(c)'
               PROVE  event.tag[c] <= b /\ RecordedBy(c, b)
    BY <1>4 DEF TagInv
  <2>1. PICK t \in Nat : t = Tag(c)
    BY <1>0, <1>1, TagType
  <2>2. t <= b
    BY <1>0, <1>2, <2>1, TagMonotone
  <2>3. event.tag[c] <= t /\ RecordedBy(c, t) /\ event.tag[c] \in Nat
    BY <1>0, <1>1, <2>1 DEF TagInv, TypeOK
  <2>4. RecordedBy(c, b)
    <3> SUFFICES ASSUME NEW i \in DOMAIN rebalances
                 PROVE  LET r == rebalances[i]
                        IN  /\ Agreeing /\ Started(r) /\ r.origin = c => r.sent <= b
                            /\ r.status = "complete" /\ r.destination = c => r.received <= b
      BY DEF RecordedBy
    <3>1. rebalances[i].sent \in Nat /\ rebalances[i].received \in Nat
      BY <1>0 DEF ShapeInv, WellFormed
    <3> QED BY <2>2, <2>3, <3>1 DEF RecordedBy
  <2> QED BY <2>2, <2>3, <2>4
<1>6. EventInv'
  <2> SUFFICES ASSUME pc = "sync", NEW c \in Chains, NEW b \in Nat, b = event.tag[c]
               PROVE  event.raw[c] = BalanceAt(c, b)' /\ RecordedBy(c, b)
    BY <1>4 DEF EventInv
  <2>1. BalanceAt(c, b)' = BalanceAt(c, b)
    BY <1>0, BalanceSame
  <2> QED BY <1>0, <2>1 DEF EventInv
<1>7. SolventInv'
  <2> SUFFICES ASSUME NEW c \in Chains, NEW b \in 0..height'[c] PROVE BalanceAt(c, b)' >= 0
    BY DEF SolventInv
  <2>1. b \in 0..(height[c] + 1)
    BY <1>1
  <2> QED BY <1>0, <2>1, EmptyBlock
<1> QED BY <1>2, <1>3, <1>5, <1>6, <1>7 DEF IInv

\* computeConfirmedBlockTags fixes the blocks, and the balances are read there.
LEMMA PollHolds ==
  ASSUME IInv, Poll
  PROVE  IInv'
<1> USE BoundsAssumption
<1>0. TypeOK /\ ShapeInv /\ PhaseInv /\ TagInv /\ EventInv /\ SolventInv
  BY DEF IInv
<1>1. /\ pc = "idle" /\ pc' = "sync" /\ UNCHANGED <<height, tagged, rebalances>>
      /\ \A c \in Chains : event'.tag[c] = Tag(c) /\ event'.raw[c] = BalanceAt(c, Tag(c))
  BY DEF Poll
<1>2. \A c \in Chains : Tag(c) \in 0..height[c] /\ height[c] \in Nat
  BY <1>0, TagType
<1>3. \A c \in Chains : Tag(c)' = Tag(c)
  BY <1>1 DEF Tag
<1>4. \A c \in Chains, b \in Nat : /\ BalanceAt(c, b)' = BalanceAt(c, b)
                                   /\ RecordedBy(c, b)' <=> RecordedBy(c, b)
  <2> SUFFICES ASSUME NEW c \in Chains, NEW b \in Nat
               PROVE  /\ BalanceAt(c, b)' = BalanceAt(c, b)
                      /\ RecordedBy(c, b)' <=> RecordedBy(c, b)
    OBVIOUS
  <2>1. BalanceAt(c, b)' = BalanceAt(c, b)
    BY <1>0, <1>1, BalanceSame
  <2>2. RecordedBy(c, b)' <=> RecordedBy(c, b)
    BY <1>1 DEF RecordedBy, Agreeing, Started
  <2> QED BY <2>1, <2>2
<1>5. \A c \in Chains : \A b \in 0..height[c] : BalanceAt(c, b) \in Nat
  BY <1>0, <1>2, BalanceType DEF SolventInv
<1>6. TypeOK'
  <2>1. \A c \in Chains : event'.tag[c] \in 0..height[c] /\ event'.raw[c] \in Nat
    BY <1>1, <1>2, <1>5
  <2> QED BY <1>0, <1>1, <2>1 DEF TypeOK, Valid
<1>7. ShapeInv' /\ PhaseInv'
  <2>1. event'.raw = [c \in Chains |-> event'.raw[c]]
    BY DEF Poll
  <2> QED BY <1>0, <1>1, <2>1 DEF ShapeInv, PhaseInv, Sending, WellFormed, Valid
<1>8. TagInv'
  <2> SUFFICES ASSUME NEW c \in Chains, NEW b \in Nat, b = Tag(c)
               PROVE  event'.tag[c] <= b /\ RecordedBy(c, b)
    BY <1>3, <1>4 DEF TagInv
  <2> QED BY <1>0, <1>1 DEF TagInv
<1>9. EventInv'
  <2> SUFFICES ASSUME NEW c \in Chains, NEW b \in Nat, b = event'.tag[c]
               PROVE  event'.raw[c] = BalanceAt(c, b) /\ RecordedBy(c, b)
    BY <1>4 DEF EventInv
  <2> QED BY <1>0, <1>1 DEF TagInv
<1>10. SolventInv'
  BY <1>0, <1>1, <1>2, <1>4 DEF SolventInv
<1> QED BY <1>6, <1>7, <1>8, <1>9, <1>10 DEF IInv

\* processResults records what is confirmed, and fails what was not prepared.
LEMMA ProcessResultsHolds ==
  ASSUME IInv, ProcessResults
  PROVE  IInv'
<1> USE BoundsAssumption
<1>0. TypeOK /\ ShapeInv /\ PhaseInv /\ TagInv /\ EventInv /\ SolventInv
  BY DEF IInv
<1>1. /\ pc' = "idle" /\ UNCHANGED <<height, tagged>>
      /\ \A c \in Chains : event'.tag[c] = 0 /\ event'.raw[c] = 0
  BY DEF ProcessResults, NoEvent
<1>2. \A i \in Prepared : /\ rebalances[i].sent > 0
                          /\ Confirmed(rebalances[i].origin, rebalances[i].sent)
  BY DEF ProcessResults
<1> DEFINE new(i) == IF i \in Sending THEN IF i \in Prepared THEN "in_progress" ELSE "failed"
                     ELSE rebalances[i].status
           Keeps(i) == /\ rebalances'[i].origin = rebalances[i].origin
                       /\ rebalances'[i].destination = rebalances[i].destination
                       /\ rebalances'[i].amount = rebalances[i].amount
                       /\ rebalances'[i].sent = rebalances[i].sent
                       /\ rebalances'[i].received = rebalances[i].received
                       /\ rebalances'[i].status = new(i)
                       /\ WellFormed(rebalances'[i])
<1>3. DOMAIN rebalances' = DOMAIN rebalances
  BY DEF ProcessResults
<1>4. ASSUME NEW i \in DOMAIN rebalances PROVE Keeps(i)
  <2>1. WellFormed(rebalances[i])
    BY <1>0 DEF ShapeInv
  <2>2. rebalances'[i] = IF i \in Sending
                         THEN [rebalances[i] EXCEPT !.status = IF i \in Prepared THEN "in_progress"
                                                                                ELSE "failed"]
                         ELSE rebalances[i]
    BY DEF ProcessResults
  <2>3. CASE i \in Sending
    BY <2>1, <2>2, <2>3 DEF WellFormed, Valid
  <2>4. CASE i \notin Sending
    BY <2>1, <2>2, <2>4
  <2> QED BY <2>3, <2>4
<1>5. Len(rebalances') = Len(rebalances) /\ Len(rebalances) \in Nat
  BY <1>0, <1>3 DEF ShapeInv
<1>6. TypeOK'
  <2>1. ASSUME NEW i \in DOMAIN rebalances
        PROVE  LET r == rebalances'[i]
               IN  \/ ~Valid(r) /\ r.sent = 0 /\ r.received = 0 /\ r.status \in {"sending", "failed"}
                   \/ /\ Valid(r) /\ r.status \in {"sending", "in_progress", "complete"}
                      /\ r.sent \in 0..height[r.origin] /\ r.received \in 0..height[r.destination]
                      /\ r.received > 0 \/ r.status = "in_progress" => r.sent > 0
                      /\ r.status = "complete" => r.received > 0
    <3>1. Keeps(i) /\ (Valid(rebalances'[i]) <=> Valid(rebalances[i]))
      BY <1>4 DEF Valid
    <3>2. CASE i \in Prepared
      BY <1>0, <1>2, <3>1, <3>2 DEF TypeOK, Prepared, Sending
    <3>3. CASE i \in Sending \ Prepared
      BY <1>0, <3>1, <3>3 DEF TypeOK, Prepared, Sending
    <3>4. CASE i \notin Sending
      BY <1>0, <3>1, <3>4 DEF TypeOK
    <3> QED BY <3>2, <3>3, <3>4
  <2>2. \A c \in Chains : event'.tag[c] \in 0..height[c] /\ event'.raw[c] \in Nat
    BY <1>0, <1>1 DEF TypeOK
  <2> HIDE DEF Keeps
  <2> QED BY <1>0, <1>1, <1>3, <2>1, <2>2 DEF TypeOK, Valid
<1>7. ShapeInv'
  <2>1. event'.raw = [c \in Chains |-> event'.raw[c]]
    BY DEF ProcessResults, NoEvent
  <2> QED BY <1>0, <1>1, <1>3, <1>4, <1>5, <2>1 DEF ShapeInv
<1>8. PhaseInv'
  BY <1>3, <1>4 DEF PhaseInv, Sending
<1>9. TagInv'
  <2> SUFFICES ASSUME NEW c \in Chains, NEW b \in Nat, b = Tag(c)
               PROVE  event'.tag[c] <= b /\ RecordedBy(c, b)'
    BY <1>1 DEF TagInv, Tag
  <2>1. RecordedBy(c, b) /\ event'.tag[c] <= b
    BY <1>0, <1>1 DEF TagInv
  <2>2. ASSUME NEW i \in DOMAIN rebalances
        PROVE  LET r == rebalances'[i]
               IN  /\ Agreeing /\ Started(r) /\ r.origin = c => r.sent <= b
                   /\ r.status = "complete" /\ r.destination = c => r.received <= b
    <3>1. CASE i \notin Sending
      BY <1>4, <2>1, <3>1 DEF RecordedBy, Started
    <3>2. CASE i \in Sending
      <4>1. rebalances'[i].status # "complete"
        BY <1>4, <3>2
      <4>2. ASSUME Agreeing, Started(rebalances'[i]), rebalances'[i].origin = c
            PROVE  rebalances'[i].sent <= b
        <5>1. i \in Prepared /\ rebalances[i].origin = c
          BY <1>4, <3>2, <4>2 DEF Started
        <5>2. Confirmed(c, rebalances[i].sent)
          BY <1>2, <5>1
        <5>3. rebalances[i].sent \in Nat /\ height[c] \in Nat /\ tagged[c] \in Nat
          BY <1>0 DEF ShapeInv, WellFormed, TypeOK
        <5>4. ReorgPeriod[c].named \/ ReorgPeriod[c].depth = 0
          BY <4>2 DEF Agreeing
        <5>5. rebalances[i].sent <= b
          BY <5>2, <5>3, <5>4 DEF Confirmed, Tag, Positive
        <5> QED BY <1>4, <5>5
      <4> QED BY <4>1, <4>2
    <3> QED BY <3>1, <3>2
  <2> HIDE DEF Keeps
  <2>3. RecordedBy(c, b)'
    BY <1>3, <2>2 DEF RecordedBy, Started, Agreeing
  <2> QED BY <2>1, <2>3
<1>10. EventInv'
  BY <1>1 DEF EventInv
<1>11. SolventInv'
  <2> SUFFICES ASSUME NEW c \in Chains, NEW b \in 0..height[c] PROVE BalanceAt(c, b)' >= 0
    BY <1>1 DEF SolventInv
  <2>1. b \in Nat
    BY <1>0 DEF TypeOK
  <2>2. \A i \in DOMAIN rebalances : Moved(rebalances'[i], c, b) = Moved(rebalances[i], c, b)
    BY <1>4 DEF Moved
  <2>3. BalanceAt(c, b)' = BalanceAt(c, b)
    BY <1>0, <1>3, <2>1, <2>2, BalanceSame
  <2> QED BY <1>0, <2>3 DEF SolventInv
<1> QED BY <1>6, <1>7, <1>8, <1>9, <1>10, <1>11 DEF IInv

\* A transaction of rebalance k is mined in the next block of chain o: the
\* origin transaction of a send, or the delivery.
MinedFor(k, o) ==
  LET r == rebalances[k]
      s == rebalances'[k]
  IN  /\ k \in DOMAIN rebalances /\ DOMAIN rebalances' = DOMAIN rebalances
      /\ \A i \in DOMAIN rebalances : i # k => rebalances'[i] = rebalances[i]
      /\ Valid(r) /\ WellFormed(s)
      /\ s.origin = r.origin /\ s.destination = r.destination
      /\ s.amount = r.amount /\ s.status = r.status
      /\ \/ /\ o = r.origin /\ r.sent = 0 /\ s.sent = height[o] + 1
            /\ r.received = 0 /\ s.received = 0 /\ r.status = "sending"
            /\ BalanceAt(o, height[o]) >= r.amount
         \/ /\ o = r.destination /\ r.received = 0 /\ s.received = height[o] + 1
            /\ r.sent > 0 /\ s.sent = r.sent

\* The transaction changes no balance of the blocks before.
LEMMA PastStays ==
  ASSUME TypeOK, ShapeInv, NEW k, NEW o \in Chains, MinedFor(k, o),
         NEW c \in Chains, NEW b \in Nat, c = o => b <= height[o]
  PROVE  BalanceAt(c, b)' = BalanceAt(c, b)
<1>1. height[o] \in Nat
  BY BoundsAssumption DEF TypeOK
<1>2. ASSUME NEW i \in DOMAIN rebalances
      PROVE  Moved(rebalances'[i], c, b) = Moved(rebalances[i], c, b)
  <2>1. CASE i # k
    BY <2>1 DEF MinedFor
  <2>2. CASE i = k
    <3>1. c = o => height[o] + 1 \notin 1..b
      BY <1>1
    <3> QED BY <2>2, <3>1 DEF MinedFor, Moved
  <2> QED BY <2>1, <2>2
<1>3. DOMAIN rebalances' = DOMAIN rebalances
  BY DEF MinedFor
<1> QED BY <1>2, <1>3, BalanceSame

\* Nor does it leave its own block with less than nothing.
LEMMA MinedIsSolvent ==
  ASSUME TypeOK, ShapeInv, SolventInv, NEW k, NEW o \in Chains, MinedFor(k, o),
         NEW b \in Nat, b = height[o] + 1
  PROVE  BalanceAt(o, b)' >= 0
<1>1. PICK h \in Nat : h = height[o] /\ b = h + 1
  BY BoundsAssumption DEF TypeOK
<1> DEFINE r == rebalances[k]
           s == rebalances'[k]
<1>2. \A i \in DOMAIN rebalances : i # k => Moved(rebalances'[i], o, b) = Moved(rebalances[i], o, h)
  BY <1>1, MovedSettled DEF MinedFor
<1>3. BalanceAt(o, b)' = BalanceAt(o, h) + (Moved(s, o, b) - Moved(r, o, h))
  <2>1. k \in DOMAIN rebalances /\ DOMAIN rebalances' = DOMAIN rebalances /\ WellFormed(s)
    BY DEF MinedFor
  <2> QED BY <1>1, <1>2, <2>1, BalanceChange
<1>4. BalanceAt(o, h) >= 0 /\ BalanceAt(o, h) \in Int
  BY <1>1, BalanceType DEF SolventInv
<1>5. Moved(r, o, h) = Moved(r, o, b)
  BY <1>1, MovedSettled DEF MinedFor
<1>6. /\ r.amount \in Nat /\ r.sent \in Nat /\ r.received \in Nat
      /\ Moved(r, o, b) \in Int /\ Moved(s, o, b) \in Int
  <2>1. WellFormed(r) /\ WellFormed(s)
    BY DEF MinedFor, ShapeInv
  <2> QED BY <2>1, MovedType DEF MinedFor, Valid, WellFormed
<1>7. CASE o = r.origin /\ r.sent = 0 /\ s.sent = height[o] + 1 /\ r.received = 0 /\ s.received = 0
           /\ BalanceAt(o, height[o]) >= r.amount
  <2>1. Moved(r, o, b) = 0
    BY <1>1, <1>7 DEF Moved
  <2>2. Moved(s, o, b) = 0 - r.amount
    BY <1>1, <1>7 DEF Moved, MinedFor
  <2>3. BalanceAt(o, h) >= r.amount
    BY <1>1, <1>7
  <2> HIDE DEF r, s
  <2> QED BY <1>3, <1>4, <1>5, <1>6, <2>1, <2>2, <2>3
<1>8. CASE o = r.destination /\ r.received = 0 /\ s.received = height[o] + 1 /\ s.sent = r.sent
  <2>1. Moved(s, o, b) - Moved(r, o, b) = r.amount
    <3>1. r.received \notin 1..b /\ s.received \in 1..b
      BY <1>1, <1>8
    <3>2. s.destination = r.destination /\ s.amount = r.amount /\ s.origin = r.origin
      BY DEF MinedFor
    <3>3. CASE r.origin = o /\ r.sent \in 1..b
      BY <1>6, <1>8, <3>1, <3>2, <3>3 DEF Moved
    <3>4. CASE ~(r.origin = o /\ r.sent \in 1..b)
      BY <1>6, <1>8, <3>1, <3>2, <3>4 DEF Moved
    <3> QED BY <3>3, <3>4
  <2> HIDE DEF r, s
  <2> QED BY <1>3, <1>4, <1>5, <1>6, <2>1
<1> QED BY <1>7, <1>8 DEF MinedFor

\* The transaction keeps the invariant, and so does not disturb an event that
\* was read before it.
LEMMA MinedHolds ==
  ASSUME IInv, NEW k, NEW o \in Chains, MinedFor(k, o), MinedIn(o),
         UNCHANGED <<tagged, pc, event>>
  PROVE  IInv'
<1> USE BoundsAssumption
<1>0. TypeOK /\ ShapeInv /\ PhaseInv /\ TagInv /\ EventInv /\ SolventInv
  BY DEF IInv
<1>1. /\ height' = [height EXCEPT ![o] = @ + 1] /\ height[o] < MaxHeight
      /\ height \in [Chains -> 1..MaxHeight]
  BY <1>0 DEF MinedIn, TypeOK
<1>2. /\ height' \in [Chains -> 1..MaxHeight]
      /\ \A c \in Chains : /\ height[c] \in Nat /\ height'[c] \in Nat /\ height[c] <= height'[c]
                           /\ c # o => height'[c] = height[c]
                           /\ c = o => height'[c] = height[c] + 1
  BY <1>1
<1>3. DOMAIN rebalances' = DOMAIN rebalances /\ k \in DOMAIN rebalances
  BY DEF MinedFor
<1>4. Len(rebalances') = Len(rebalances) /\ Len(rebalances) \in Nat
  BY <1>0, <1>3 DEF ShapeInv
<1>5. \A i \in DOMAIN rebalances : WellFormed(rebalances[i]) /\ WellFormed(rebalances'[i])
  BY <1>0 DEF ShapeInv, MinedFor
<1>6. TypeOK'
  <2>1. ASSUME NEW i \in DOMAIN rebalances
        PROVE  LET r == rebalances'[i]
               IN  \/ ~Valid(r) /\ r.sent = 0 /\ r.received = 0 /\ r.status \in {"sending", "failed"}
                   \/ /\ Valid(r) /\ r.status \in {"sending", "in_progress", "complete"}
                      /\ r.sent \in 0..height'[r.origin] /\ r.received \in 0..height'[r.destination]
                      /\ r.received > 0 \/ r.status = "in_progress" => r.sent > 0
                      /\ r.status = "complete" => r.received > 0
    <3> DEFINE r == rebalances[i]
    <3>1. \/ ~Valid(r) /\ r.sent = 0 /\ r.received = 0 /\ r.status \in {"sending", "failed"}
          \/ /\ Valid(r) /\ r.status \in {"sending", "in_progress", "complete"}
             /\ r.sent \in 0..height[r.origin] /\ r.received \in 0..height[r.destination]
             /\ r.received > 0 \/ r.status = "in_progress" => r.sent > 0
             /\ r.status = "complete" => r.received > 0
      BY <1>0 DEF TypeOK
    <3>2. Valid(r) => /\ r.sent \in 0..height'[r.origin]
                      /\ r.received \in 0..height'[r.destination]
      BY <1>2, <3>1 DEF Valid
    <3>3. CASE i # k
      BY <3>1, <3>2, <3>3 DEF MinedFor
    <3>4. CASE i = k
      <4> DEFINE s == rebalances'[i]
      <4>1. /\ Valid(r) /\ Valid(s) /\ s.status = r.status
            /\ s.origin = r.origin /\ s.destination = r.destination
            /\ r.sent \in Nat /\ r.received \in Nat
        BY <1>5, <3>4 DEF MinedFor, Valid, WellFormed
      <4>2. CASE o = r.origin /\ r.sent = 0 /\ s.sent = height[o] + 1
                 /\ r.received = 0 /\ s.received = 0 /\ r.status = "sending"
        <5>1. s.sent \in 0..height'[s.origin] /\ s.sent > 0
          BY <1>2, <4>1, <4>2
        <5>2. s.received \in 0..height'[s.destination]
          BY <3>2, <4>1, <4>2
        <5> QED BY <3>1, <4>1, <4>2, <5>1, <5>2
      <4>3. CASE o = r.destination /\ r.received = 0 /\ s.received = height[o] + 1
                 /\ r.sent > 0 /\ s.sent = r.sent
        <5>1. s.received \in 0..height'[s.destination] /\ s.received > 0
          BY <1>2, <4>1, <4>3
        <5>2. s.sent \in 0..height'[s.origin]
          BY <3>2, <4>1, <4>3
        <5> QED BY <3>1, <4>1, <4>3, <5>1, <5>2
      <4> QED BY <3>4, <4>2, <4>3 DEF MinedFor
    <3> QED BY <3>3, <3>4
  <2>2. \A c \in Chains : /\ event.tag[c] \in 0..height'[c] /\ event.raw[c] \in Nat
                          /\ tagged[c] \in 1..height'[c]
    BY <1>0, <1>2 DEF TypeOK
  <2> QED BY <1>0, <1>2, <1>3, <2>1, <2>2 DEF TypeOK, Valid
<1>7. ShapeInv'
  BY <1>0, <1>3, <1>4, <1>5 DEF ShapeInv
<1>8. PhaseInv'
  BY <1>0, <1>3 DEF PhaseInv, Sending, MinedFor
<1>9. ASSUME NEW c \in Chains, NEW b \in Nat, RecordedBy(c, b) PROVE RecordedBy(c, b)'
  <2>1. ASSUME NEW i \in DOMAIN rebalances
        PROVE  LET r == rebalances'[i]
               IN  /\ Agreeing /\ Started(r) /\ r.origin = c => r.sent <= b
                   /\ r.status = "complete" /\ r.destination = c => r.received <= b
    <3>1. CASE i # k
      BY <1>9, <3>1 DEF RecordedBy, MinedFor
    <3>2. CASE i = k
      <4>1. rebalances[i].received = 0 /\ rebalances[i].status # "complete"
        BY <1>0, <3>2 DEF MinedFor, TypeOK
      <4>2. \/ rebalances'[i].status = "sending"
            \/ rebalances'[i].sent = rebalances[i].sent
        BY <3>2 DEF MinedFor
      <4> QED BY <1>9, <3>2, <4>1, <4>2 DEF RecordedBy, MinedFor, Started
    <3> QED BY <3>1, <3>2
  <2> QED BY <1>3, <2>1 DEF RecordedBy, Agreeing, Started
<1>10. TagInv'
  <2> SUFFICES ASSUME NEW c \in Chains, NEW b \in Nat, b = Tag(c)'
               PROVE  event.tag[c] <= b /\ RecordedBy(c, b)'
    BY DEF TagInv
  <2>1. PICK t \in Nat : t = Tag(c)
    BY <1>0, <1>2, TagType
  <2>2. tagged[c] <= tagged'[c]
    BY <1>0 DEF ShapeInv
  <2>3. t <= b
    BY <1>0, <1>2, <1>6, <2>1, <2>2, TagMonotone
  <2>4. event.tag[c] <= t /\ RecordedBy(c, t) /\ event.tag[c] \in Nat
    BY <1>0, <1>2, <2>1 DEF TagInv, TypeOK
  <2>5. RecordedBy(c, b)
    <3> SUFFICES ASSUME NEW i \in DOMAIN rebalances
                 PROVE  LET r == rebalances[i]
                        IN  /\ Agreeing /\ Started(r) /\ r.origin = c => r.sent <= b
                            /\ r.status = "complete" /\ r.destination = c => r.received <= b
      BY DEF RecordedBy
    <3>1. rebalances[i].sent \in Nat /\ rebalances[i].received \in Nat
      BY <1>5 DEF WellFormed
    <3> QED BY <2>3, <2>4, <3>1 DEF RecordedBy
  <2>6. RecordedBy(c, b)'
    BY <1>9, <2>5
  <2> QED BY <2>3, <2>4, <2>6
<1>11. EventInv'
  <2> SUFFICES ASSUME pc = "sync", NEW c \in Chains, NEW b \in Nat, b = event.tag[c]
               PROVE  event.raw[c] = BalanceAt(c, b)' /\ RecordedBy(c, b)'
    BY DEF EventInv
  <2>1. b <= height[c]
    BY <1>0, <1>2 DEF TypeOK
  <2>2. BalanceAt(c, b)' = BalanceAt(c, b)
    BY <1>0, <2>1, PastStays
  <2>3. event.raw[c] = BalanceAt(c, b) /\ RecordedBy(c, b)
    BY <1>0 DEF EventInv
  <2> QED BY <1>9, <2>2, <2>3
<1>12. SolventInv'
  <2> SUFFICES ASSUME NEW c \in Chains, NEW b \in 0..height'[c] PROVE BalanceAt(c, b)' >= 0
    BY DEF SolventInv
  <2>0. b \in Nat
    BY <1>2
  <2>1. CASE b <= height[c]
    <3>1. BalanceAt(c, b)' = BalanceAt(c, b)
      BY <1>0, <2>0, <2>1, PastStays
    <3> QED BY <1>0, <1>2, <2>0, <2>1, <3>1 DEF SolventInv
  <2>2. CASE ~(b <= height[c])
    <3>1. c = o /\ b = height[o] + 1
      BY <1>2, <2>0, <2>2
    <3> QED BY <1>0, <2>0, <3>1, MinedIsSolvent
  <2> QED BY <2>1, <2>2
<1> QED BY <1>6, <1>7, <1>8, <1>10, <1>11, <1>12 DEF IInv

\* Mailbox.process on the destination.
LEMMA DeliverHolds ==
  ASSUME IInv, NEW k \in DOMAIN rebalances, Deliver(k)
  PROVE  IInv'
<1>0. TypeOK /\ ShapeInv
  BY DEF IInv
<1>1. PICK o \in Chains : o = rebalances[k].destination
  BY <1>0 DEF Deliver, ShapeInv, WellFormed, Valid
<1>2. height[o] \in Nat
  BY <1>0, BoundsAssumption DEF TypeOK
<1>3. WellFormed(rebalances[k]) /\ Valid(rebalances[k])
  BY <1>0 DEF Deliver, ShapeInv, WellFormed
<1>4. rebalances' = [rebalances EXCEPT ![k] = [rebalances[k] EXCEPT !.received = height[o] + 1]]
  BY <1>1 DEF Deliver
<1>5. WellFormed(rebalances'[k])
  BY <1>2, <1>3, <1>4 DEF WellFormed, Valid
<1>6. /\ rebalances'[k].origin = rebalances[k].origin
      /\ rebalances'[k].destination = rebalances[k].destination
      /\ rebalances'[k].amount = rebalances[k].amount
      /\ rebalances'[k].status = rebalances[k].status
      /\ rebalances'[k].sent = rebalances[k].sent
      /\ rebalances'[k].received = height[o] + 1
  BY <1>3, <1>4 DEF WellFormed
<1>7. MinedFor(k, o)
  BY <1>1, <1>3, <1>4, <1>5, <1>6 DEF MinedFor, Deliver
<1>8. MinedIn(o) /\ UNCHANGED <<tagged, pc, event>>
  BY <1>1 DEF Deliver
<1> QED BY <1>7, <1>8, MinedHolds

\* sendTransactionsForChain has a transaction mined on the origin.
LEMMA SendHolds ==
  ASSUME IInv, NEW k \in DOMAIN rebalances, Send(k)
  PROVE  IInv'
<1>0. TypeOK /\ ShapeInv
  BY DEF IInv
<1>1. PICK o \in Chains : o = rebalances[k].origin
  BY DEF Send, Prepared, Valid
<1>2. height[o] \in Nat
  BY <1>0, BoundsAssumption DEF TypeOK
<1>3. /\ WellFormed(rebalances[k]) /\ Valid(rebalances[k])
      /\ rebalances[k].sent = 0 /\ rebalances[k].status = "sending"
  BY <1>0 DEF Send, ShapeInv, Prepared, Sending
<1>4. rebalances[k].received = 0
  BY <1>0, <1>3 DEF TypeOK, WellFormed
<1>5. rebalances' = [rebalances EXCEPT ![k] = [rebalances[k] EXCEPT !.sent = height[o] + 1]]
  BY <1>1 DEF Send
<1>6. WellFormed(rebalances'[k])
  BY <1>2, <1>3, <1>5 DEF WellFormed, Valid
<1>7. /\ rebalances'[k].origin = rebalances[k].origin
      /\ rebalances'[k].destination = rebalances[k].destination
      /\ rebalances'[k].amount = rebalances[k].amount
      /\ rebalances'[k].status = rebalances[k].status
      /\ rebalances'[k].received = rebalances[k].received
      /\ rebalances'[k].sent = height[o] + 1
  BY <1>3, <1>5 DEF WellFormed
<1>8. MinedIn(o) /\ UNCHANGED <<tagged, pc, event>> /\ BalanceAt(o, height[o]) >= rebalances[k].amount
  BY <1>1 DEF Send
<1>9. MinedFor(k, o)
  BY <1>1, <1>3, <1>4, <1>5, <1>6, <1>7, <1>8 DEF MinedFor
<1> QED BY <1>8, <1>9, MinedHolds

\* u is s, of m members, and then t, of n.
Joined(u, s, m, t, n) ==
  /\ Len(u) = m + n /\ DOMAIN u = 1..(m + n)
  /\ \A i \in 1..m : u[i] = s[i]
  /\ \A i \in (m + 1)..(m + n) : u[i] = t[i - m] /\ i - m \in 1..n

\* The members of a concatenation.
LEMMA Concatenated ==
  ASSUME NEW U, NEW s \in Seq(U), NEW t \in Seq(U), NEW m \in Nat, NEW n \in Nat,
         Len(s) = m, Len(t) = n
  PROVE  Joined(s \o t, s, m, t, n)
<1>1. s \o t \in Seq(U) /\ Len(s \o t) = m + n
  OBVIOUS
<1>2. DOMAIN (s \o t) = 1..(m + n)
  BY <1>1
<1>3. ASSUME NEW i \in 1..m PROVE (s \o t)[i] = s[i]
  OBVIOUS
<1>4. ASSUME NEW i \in (m + 1)..(m + n) PROVE (s \o t)[i] = t[i - m] /\ i - m \in 1..n
  OBVIOUS
<1> QED BY <1>1, <1>2, <1>3, <1>4 DEF Joined

\* What a decision appends: routes that are neither sent nor received.
LEMMA DecideAppends ==
  ASSUME ShapeInv, Decide
  PROVE  \E n \in Nat :
           /\ Len(rebalances) + n <= MaxRebalances
           /\ Len(rebalances') = Len(rebalances) + n
           /\ DOMAIN rebalances' = 1..(Len(rebalances) + n)
           /\ \A i \in DOMAIN rebalances : rebalances'[i] = Synced[i]
           /\ \A i \in (Len(rebalances) + 1)..(Len(rebalances) + n) :
                /\ WellFormed(rebalances'[i]) /\ rebalances'[i].status = "sending"
                /\ rebalances'[i].sent = 0 /\ rebalances'[i].received = 0
<1>1. PICK routes : \E n \in 0..(MaxRebalances - Len(rebalances)) :
                      rebalances' = Synced \o Begun(routes, n)
  BY DEF Decide
<1>2. PICK n \in 0..(MaxRebalances - Len(rebalances)) : rebalances' = Synced \o Begun(routes, n)
  BY <1>1
<1>3. Len(rebalances) \in Nat /\ n \in Nat /\ Len(rebalances) + n <= MaxRebalances
  BY BoundsAssumption DEF ShapeInv
<1>4. PICK m \in Nat : m = Len(rebalances)
  BY <1>3
<1> DEFINE new == Begun(routes, n)
           U == {Synced[i] : i \in 1..m} \cup {new[i] : i \in 1..n}
<1>5. DOMAIN Synced = 1..m /\ Synced = [i \in 1..m |-> Synced[i]]
  BY <1>4 DEF Synced, ShapeInv
<1>6. new = [i \in 1..n |-> new[i]] /\ DOMAIN new = 1..n
  BY DEF Begun
<1>7. Synced \in Seq(U) /\ new \in Seq(U) /\ Len(Synced) = m /\ Len(new) = n
  <2>1. \A i \in 1..m : Synced[i] \in U
    OBVIOUS
  <2>2. \A i \in 1..n : new[i] \in U
    OBVIOUS
  <2> HIDE DEF new, U
  <2>3. Synced \in [1..m -> U] /\ new \in [1..n -> U]
    BY <1>5, <1>6, <2>1, <2>2
  <2> QED BY <1>3, <1>4, <1>5, <1>6, <2>3
<1>8. /\ Len(rebalances') = m + n /\ DOMAIN rebalances' = 1..(m + n)
      /\ \A i \in 1..m : rebalances'[i] = Synced[i]
      /\ \A i \in (m + 1)..(m + n) : rebalances'[i] = new[i - m] /\ i - m \in 1..n
  <2> HIDE DEF new, U
  <2>1. rebalances' = Synced \o new
    BY <1>2 DEF new
  <2>2. PICK s, t : s = Synced /\ t = new
    OBVIOUS
  <2>3. s \in Seq(U) /\ t \in Seq(U) /\ Len(s) = m /\ Len(t) = n /\ n \in Nat
    BY <1>3, <1>7, <2>2
  <2>4. Joined(s \o t, s, m, t, n)
    BY <2>3, Concatenated
  <2>5. Joined(rebalances', Synced, m, new, n)
    BY <2>1, <2>2, <2>4
  <2> QED BY <2>5 DEF Joined
<1>9. ASSUME NEW i \in (m + 1)..(m + n)
      PROVE  /\ WellFormed(rebalances'[i]) /\ rebalances'[i].status = "sending"
             /\ rebalances'[i].sent = 0 /\ rebalances'[i].received = 0
  <2>1. PICK k \in 1..n : rebalances'[i] = new[k]
    BY <1>8
  <2>2. new[k] = [origin |-> routes[k].origin, destination |-> routes[k].destination,
                  amount |-> routes[k].amount, bridge |-> routes[k].bridge,
                  sent |-> 0, received |-> 0, status |-> "sending"]
    BY DEF Begun
  <2> HIDE DEF new
  <2> QED BY <2>1, <2>2 DEF WellFormed
<1> QED BY <1>3, <1>4, <1>8, <1>9 DEF ShapeInv

\* Rebalances that moved nothing yet may be appended: no balance changes.
LEMMA AppendedBalance ==
  ASSUME ShapeInv, NEW n \in Nat, DOMAIN rebalances' = 1..(Len(rebalances) + n),
         \A i \in DOMAIN rebalances' : WellFormed(rebalances'[i]),
         NEW c \in Chains, NEW b \in Nat,
         \A i \in DOMAIN rebalances : Moved(rebalances'[i], c, b) = Moved(rebalances[i], c, b),
         \A i \in (Len(rebalances) + 1)..(Len(rebalances) + n) :
           rebalances'[i].sent = 0 /\ rebalances'[i].received = 0
  PROVE  BalanceAt(c, b)' = BalanceAt(c, b)
<1>1. PICK m \in Nat : m = Len(rebalances) /\ DOMAIN rebalances = 1..m
  <2>1. Len(rebalances) \in Nat /\ DOMAIN rebalances = 1..Len(rebalances)
    BY BoundsAssumption DEF ShapeInv
  <2> QED BY <2>1
<1> DEFINE f == Flow(c, b)
           g == Flow(c, b)'
           S == 1..m
<1>2. IsFiniteSet(S) /\ \A i \in S : f[i] \in Int
  BY <1>1, FlowType
<1>3. \A i \in 1..(m + n) : g[i] = Moved(rebalances'[i], c, b)
  BY <1>1 DEF Flow
<1>4. \A i \in 1..(m + n) : g[i] \in Int
  BY <1>1, <1>3, MovedType
<1>5. \A i \in (m + 1)..(m + n) : g[i] = 0
  <2> SUFFICES ASSUME NEW i \in (m + 1)..(m + n) PROVE g[i] = 0
    OBVIOUS
  <2>1. i \in 1..(m + n)
    OBVIOUS
  <2>2. WellFormed(rebalances'[i]) /\ rebalances'[i].sent = 0 /\ rebalances'[i].received = 0
    BY <1>1, <2>1
  <2> QED BY <1>3, <2>1, <2>2, MovedType
<1>6. \A i \in S : g[i] = f[i]
  <2> SUFFICES ASSUME NEW i \in 1..m PROVE g[i] = f[i]
    OBVIOUS
  <2>1. i \in 1..(m + n)
    OBVIOUS
  <2>2. f[i] = Moved(rebalances[i], c, b)
    BY <1>1 DEF Flow
  <2> QED BY <1>1, <1>3, <2>1, <2>2
<1>7. SumFunctionOnSet(g, 1..(m + n)) = SumFunctionOnSet(g, S)
  <2> HIDE DEF f, g
  <2> QED BY <1>4, <1>5, SumTail
<1>8. SumFunctionOnSet(g, S) = SumFunctionOnSet(f, S)
  <2>1. \A i \in S : f[i] \in Int /\ g[i] = f[i]
    BY <1>2, <1>6
  <2> HIDE DEF f, g, S
  <2> QED BY <1>2, <2>1, SumEq
<1>9. BalanceAt(c, b)' = InitialCollateral[c] + SumFunctionOnSet(g, 1..(m + n))
  BY <1>1, BalanceIs
<1>10. BalanceAt(c, b) = InitialCollateral[c] + SumFunctionOnSet(f, S)
  BY <1>1, BalanceIs
<1> HIDE DEF f, g, S
<1> QED BY <1>7, <1>8, <1>9, <1>10

\* syncRebalanceActions completes what is delivered at the block of the event,
\* and the routes of the strategies are begun.
LEMMA DecideHolds ==
  ASSUME IInv, Decide
  PROVE  IInv'
<1> USE BoundsAssumption
<1>0. TypeOK /\ ShapeInv /\ PhaseInv /\ TagInv /\ EventInv /\ SolventInv
  BY DEF IInv
<1>1. pc' = "send" /\ UNCHANGED <<height, tagged, event>>
  BY DEF Decide
<1>2. PICK m \in Nat : m = Len(rebalances) /\ DOMAIN rebalances = 1..m
  <2>1. ShapeInv
    BY <1>0
  <2>2. Len(rebalances) \in Nat /\ DOMAIN rebalances = 1..Len(rebalances)
    BY <2>1 DEF ShapeInv
  <2> QED BY <2>2
<1> DEFINE Begins(i) == /\ WellFormed(rebalances'[i]) /\ rebalances'[i].status = "sending"
                        /\ rebalances'[i].sent = 0 /\ rebalances'[i].received = 0
<1>3. PICK n \in Nat :
        /\ m + n <= MaxRebalances /\ Len(rebalances') = m + n
        /\ DOMAIN rebalances' = 1..(m + n)
        /\ \A i \in DOMAIN rebalances : rebalances'[i] = Synced[i]
        /\ \A i \in (m + 1)..(m + n) : Begins(i)
  BY <1>0, <1>2, DecideAppends
<1> DEFINE Keeps(i) == /\ rebalances'[i].origin = rebalances[i].origin
                       /\ rebalances'[i].destination = rebalances[i].destination
                       /\ rebalances'[i].amount = rebalances[i].amount
                       /\ rebalances'[i].sent = rebalances[i].sent
                       /\ rebalances'[i].received = rebalances[i].received
                       /\ rebalances'[i].status = IF i \in DeliveredAtTag THEN "complete"
                                                  ELSE rebalances[i].status
                       /\ WellFormed(rebalances'[i])
<1>4. ASSUME NEW i \in DOMAIN rebalances PROVE Keeps(i)
  <2>1. WellFormed(rebalances[i])
    BY <1>0 DEF ShapeInv
  <2>2. rebalances'[i] = IF i \in DeliveredAtTag THEN [rebalances[i] EXCEPT !.status = "complete"]
                         ELSE rebalances[i]
    BY <1>3 DEF Synced
  <2>3. CASE i \in DeliveredAtTag
    BY <2>1, <2>2, <2>3 DEF WellFormed, Valid
  <2>4. CASE i \notin DeliveredAtTag
    BY <2>1, <2>2, <2>4
  <2> QED BY <2>3, <2>4
<1>5. ASSUME NEW i \in DOMAIN rebalances' PROVE i \in DOMAIN rebalances \/ Begins(i)
  <2>1. i \in 1..(m + n)
    BY <1>3
  <2>2. i \in 1..m \/ i \in (m + 1)..(m + n)
    BY <2>1
  <2> QED BY <1>2, <1>3, <2>2
<1>6. \A i \in DOMAIN rebalances' : WellFormed(rebalances'[i])
  BY <1>4, <1>5
<1>7. ShapeInv'
  <2>1. tagged' \in [Chains -> Nat] /\ event'.raw = [c \in Chains |-> event'.raw[c]]
    BY <1>0, <1>1 DEF ShapeInv
  <2> HIDE DEF Begins, Keeps
  <2> QED BY <1>3, <1>6, <2>1 DEF ShapeInv
<1>8. PhaseInv'
  BY <1>1 DEF PhaseInv
<1>9. TypeOK'
  <2>1. ASSUME NEW i \in DOMAIN rebalances'
        PROVE  LET r == rebalances'[i]
               IN  \/ ~Valid(r) /\ r.sent = 0 /\ r.received = 0 /\ r.status \in {"sending", "failed"}
                   \/ /\ Valid(r) /\ r.status \in {"sending", "in_progress", "complete"}
                      /\ r.sent \in 0..height[r.origin] /\ r.received \in 0..height[r.destination]
                      /\ r.received > 0 \/ r.status = "in_progress" => r.sent > 0
                      /\ r.status = "complete" => r.received > 0
    <3>1. CASE i \in DOMAIN rebalances
      <4>1. Keeps(i) /\ (Valid(rebalances'[i]) <=> Valid(rebalances[i]))
        BY <1>4, <3>1 DEF Valid
      <4>2. CASE i \in DeliveredAtTag
        <5>1. /\ rebalances[i].status = "in_progress"
              /\ rebalances[i].received \in 1..event.tag[rebalances[i].destination]
          BY <4>2 DEF DeliveredAtTag, InProgress
        <5>2. rebalances[i].received > 0 /\ Valid(rebalances[i])
          BY <1>0, <3>1, <5>1 DEF TypeOK
        <5> QED BY <1>0, <3>1, <4>1, <4>2, <5>1, <5>2 DEF TypeOK
      <4>3. CASE i \notin DeliveredAtTag
        BY <1>0, <3>1, <4>1, <4>3 DEF TypeOK
      <4> QED BY <4>2, <4>3
    <3>2. CASE Begins(i)
      <4>1. Valid(rebalances'[i]) => /\ 0 \in 0..height[rebalances'[i].origin]
                                     /\ 0 \in 0..height[rebalances'[i].destination]
        BY <1>0 DEF TypeOK, Valid
      <4> QED BY <3>2, <4>1
    <3> QED BY <1>5, <3>1, <3>2
  <2> HIDE DEF Begins, Keeps
  <2> QED BY <1>0, <1>1, <2>1 DEF TypeOK, Valid
<1>10. TagInv'
  <2> SUFFICES ASSUME NEW c \in Chains, NEW b \in Nat, b = Tag(c)
               PROVE  event.tag[c] <= b /\ RecordedBy(c, b)'
    BY <1>1 DEF TagInv, Tag
  <2>1. RecordedBy(c, b) /\ event.tag[c] <= b /\ event.tag[c] \in Nat
    BY <1>0 DEF TagInv, TypeOK
  <2>2. ASSUME NEW i \in DOMAIN rebalances'
        PROVE  LET r == rebalances'[i]
               IN  /\ Agreeing /\ Started(r) /\ r.origin = c => r.sent <= b
                   /\ r.status = "complete" /\ r.destination = c => r.received <= b
    <3>1. CASE i \in DOMAIN rebalances \ DeliveredAtTag
      BY <1>4, <2>1, <3>1 DEF RecordedBy, Started
    <3>2. CASE i \in DeliveredAtTag
      <4>1. /\ i \in DOMAIN rebalances /\ rebalances[i].status = "in_progress"
            /\ rebalances[i].received \in 1..event.tag[rebalances[i].destination]
        BY <3>2 DEF DeliveredAtTag, InProgress
      <4>2. rebalances[i].destination = c => rebalances[i].received <= b
        BY <2>1, <4>1
      <4>3. Agreeing /\ rebalances[i].origin = c => rebalances[i].sent <= b
        BY <2>1, <4>1 DEF RecordedBy, Started
      <4> QED BY <1>4, <4>1, <4>2, <4>3
    <3>3. CASE Begins(i)
      BY <3>3 DEF Started
    <3> QED BY <1>5, <3>1, <3>2, <3>3
  <2> HIDE DEF Begins, Keeps
  <2>3. RecordedBy(c, b)'
    BY <2>2 DEF RecordedBy, Started, Agreeing
  <2> QED BY <2>1, <2>3
<1>11. EventInv'
  BY <1>1 DEF EventInv
<1>12. SolventInv'
  <2> SUFFICES ASSUME NEW c \in Chains, NEW b \in 0..height[c] PROVE BalanceAt(c, b)' >= 0
    BY <1>1 DEF SolventInv
  <2>1. b \in Nat
    BY <1>0 DEF TypeOK
  <2>2. \A i \in DOMAIN rebalances : Moved(rebalances'[i], c, b) = Moved(rebalances[i], c, b)
    BY <1>4 DEF Moved
  <2>3. \A i \in (Len(rebalances) + 1)..(Len(rebalances) + n) :
           rebalances'[i].sent = 0 /\ rebalances'[i].received = 0
    BY <1>2, <1>3
  <2>4. DOMAIN rebalances' = 1..(Len(rebalances) + n)
    BY <1>2, <1>3
  <2> HIDE DEF Begins, Keeps
  <2>5. BalanceAt(c, b)' = BalanceAt(c, b)
    BY <1>0, <1>6, <2>1, <2>2, <2>3, <2>4, AppendedBalance
  <2> QED BY <1>0, <2>5 DEF SolventInv
<1> QED BY <1>7, <1>8, <1>9, <1>10, <1>11, <1>12 DEF IInv

-----------------------------------------------------------------------------
(* The theorems.                                                           *)

\* Before the first cycle the chains have one block and nothing is recorded.
LEMMA InitHolds ==
  ASSUME Init
  PROVE  IInv
<1> USE BoundsAssumption, CollateralAssumption
<1>1. /\ height = [c \in Chains |-> 1] /\ tagged = [c \in Chains |-> 1]
      /\ rebalances = <<>> /\ pc = "idle"
      /\ \A c \in Chains : event.tag[c] = 0 /\ event.raw[c] = 0
  BY DEF Init, NoEvent
<1>2. DOMAIN rebalances = {} /\ Len(rebalances) = 0 /\ DOMAIN rebalances = 1..0
  BY <1>1
<1>3. TypeOK
  BY <1>1, <1>2 DEF TypeOK
<1>4. ShapeInv
  <2>1. event.raw = [c \in Chains |-> event.raw[c]]
    BY DEF Init, NoEvent
  <2> QED BY <1>1, <1>2, <2>1 DEF ShapeInv
<1>5. PhaseInv /\ EventInv
  BY <1>1, <1>2 DEF PhaseInv, EventInv, Sending
<1>6. TagInv
  BY <1>1, <1>2 DEF TagInv, RecordedBy
<1>7. SolventInv
  <2> SUFFICES ASSUME NEW c \in Chains, NEW b \in 0..height[c] PROVE BalanceAt(c, b) >= 0
    BY DEF SolventInv
  <2> DEFINE f == Flow(c, b)
             S == DOMAIN rebalances
  <2>1. IsFiniteSet(S) /\ S = {} /\ \A i \in S : f[i] \in Int
    BY <1>2, FS_EmptySet
  <2>2. SumFunctionOnSet(f, S) = 0
    <3> HIDE DEF f, S
    <3> QED BY <2>1, SumType
  <2> QED BY <2>2, BalanceIs
<1> QED BY <1>3, <1>4, <1>5, <1>6, <1>7 DEF IInv

\* Every step keeps the invariant.
LEMMA StepHolds ==
  ASSUME IInv, [Next]_vars
  PROVE  IInv'
<1> USE BoundsAssumption
<1>0. TypeOK /\ ShapeInv
  BY DEF IInv
<1>1. /\ height \in [Chains -> 1..MaxHeight] /\ tagged \in [Chains -> Nat]
      /\ \A c \in Chains : tagged[c] \in 1..height[c]
  BY <1>0 DEF TypeOK, ShapeInv
<1>2. ASSUME NEW o \in Chains, Mine(o) PROVE IInv'
  <2>1. /\ UNCHANGED <<rebalances, pc, event>> /\ tagged' = tagged /\ height[o] < MaxHeight
        /\ height' = [height EXCEPT ![o] = @ + 1]
    BY <1>2 DEF Mine
  <2>2. height' \in [Chains -> 1..MaxHeight]
    BY <1>1, <2>1
  <2>3. \A c \in Chains : /\ height[c] <= height'[c] /\ height'[c] <= height[c] + 1
                          /\ tagged[c] <= tagged'[c] /\ tagged'[c] <= height'[c]
    BY <1>1, <2>1
  <2> QED BY <1>1, <2>1, <2>2, <2>3, BlocksHold
<1>3. ASSUME NEW o \in Chains, Finalize(o) PROVE IInv'
  <2>1. /\ UNCHANGED <<rebalances, pc, event>> /\ height' = height /\ tagged[o] < height[o]
        /\ tagged' = [tagged EXCEPT ![o] = @ + 1]
    BY <1>3 DEF Finalize
  <2>2. tagged' \in [Chains -> Nat] /\ height' \in [Chains -> 1..MaxHeight]
    BY <1>1, <2>1
  <2>3. \A c \in Chains : /\ height[c] <= height'[c] /\ height'[c] <= height[c] + 1
                          /\ tagged[c] <= tagged'[c] /\ tagged'[c] <= height'[c]
    BY <1>1, <2>1
  <2> QED BY <2>1, <2>2, <2>3, BlocksHold
<1>4. CASE UNCHANGED vars
  <2>1. UNCHANGED <<rebalances, pc, event>> /\ height' = height /\ tagged' = tagged
    BY <1>4 DEF vars
  <2>2. \A c \in Chains : /\ height[c] <= height'[c] /\ height'[c] <= height[c] + 1
                          /\ tagged[c] <= tagged'[c] /\ tagged'[c] <= height'[c]
    BY <1>1, <2>1
  <2> QED BY <1>1, <2>1, <2>2, BlocksHold
<1> QED BY <1>2, <1>3, <1>4, DeliverHolds, PollHolds, DecideHolds, ProcessResultsHolds, SendHolds
        DEF Next, Chain

\* The invariant holds throughout.
THEOREM Invariance == Spec => []IInv
<1>1. Init => IInv
  BY InitHolds
<1>2. IInv /\ [Next]_vars => IInv'
  BY StepHolds
<1> QED BY <1>1, <1>2, PTL DEF Spec

\* Type correctness: what is recorded as in progress was sent, what is
\* recorded as complete was received, on blocks the chains have, and a route
\* that validateRoute refuses is neither.
THEOREM TypeCorrect == Spec => []TypeOK
<1>1. IInv => TypeOK
  BY DEF IInv
<1> QED BY <1>1, Invariance, PTL

\* ActionTracker.getActiveRebalanceIntents, "origin already deducted
\* on-chain": the balances of the event are read at a block that holds the
\* origin transaction of every intent in progress, for every reorg period whose
\* two uses agree.
THEOREM OriginIsDeducted == Spec => []OriginDeducted
<1>1. IInv => OriginDeducted
  <2> SUFFICES ASSUME IInv, pc = "sync", Agreeing, NEW i \in InProgress
               PROVE  rebalances[i].sent <= event.tag[rebalances[i].origin]
    BY DEF OriginDeducted
  <2>1. i \in DOMAIN rebalances /\ Started(rebalances[i]) /\ rebalances[i].status = "in_progress"
    BY DEF InProgress, Started
  <2>2. PICK c \in Chains : c = rebalances[i].origin
    BY <2>1 DEF IInv, TypeOK, Valid
  <2>3. event.tag[c] \in Nat
    BY BoundsAssumption DEF IInv, TypeOK
  <2>4. RecordedBy(c, event.tag[c])
    BY <2>3 DEF IInv, EventInv
  <2> QED BY <2>1, <2>2, <2>4 DEF RecordedBy
<1> QED BY <1>1, Invariance, PTL

-----------------------------------------------------------------------------
(* The projection holds all of the collateral.                             *)

\* One rebalance of the context: what getActiveRebalanceIntents reports of r,
\* put after what came before.
Reported(r) == [origin |-> r.origin, destination |-> r.destination,
                amount |-> r.amount, bridge |-> r.bridge,
                method |-> "movable", delivered |-> 0, awaiting |-> 0]
PendOne(p, r) == IF r.status = "in_progress" THEN Append(p, Reported(r)) ELSE p

\* The context is gathered in the order of the rebalances.
LEMMA PendingInOrder ==
  ASSUME NEW n \in Nat, NEW s, DOMAIN s = 1..n
  PROVE  \E h : /\ h[{}] = <<>>
                /\ \A k \in 1..n : h[1..k] = PendOne(h[1..(k - 1)], s[k])
                /\ Pending(s) = h[1..n]
<1> DEFINE S == 1..n
           U == {Reported(s[k]) : k \in S}
           D == Seq(U)
           none == << >>
           pick == [t \in SUBSET S |-> Max(t)]
           step == [k \in S |-> [d \in D |-> PendOne(d, s[k])]]
           Loop(h) == [t \in SUBSET S |-> IF t = {} THEN none
                                          ELSE PendOne(h[t \ {Max(t)}], s[Max(t)])]
<1>1. \A t \in SUBSET S : t # {} => pick[t] = Max(t) /\ Max(t) \in t
  BY LastPosition
<1>2. ASSUME NEW k \in S, NEW d \in D PROVE step[k][d] = PendOne(d, s[k]) /\ step[k][d] \in D
  <2>1. Reported(s[k]) \in U
    OBVIOUS
  <2>2. PendOne(d, s[k]) \in D
    <3> HIDE DEF U
    <3> QED BY <2>1 DEF PendOne
  <2> HIDE DEF D
  <2> QED BY <2>2
<1>3. PICK h \in [SUBSET S -> D] : Folds(h, S, none, pick, step)
  <2>1. IsFiniteSet(S) /\ none \in D
    BY FS_Interval
  <2>2. ASSUME NEW t \in SUBSET S, t # {} PROVE pick[t] \in t
    <3> HIDE DEF pick
    <3> QED BY <1>1, <2>2
  <2> HIDE DEF S, D, pick, step, none
  <2> QED BY <1>2, <2>1, <2>2, FoldExists
<1>4. ASSUME NEW t \in SUBSET S PROVE h[t] = Loop(h)[t]
  <2>1. CASE t = {}
    BY <1>3, <2>1 DEF Folds
  <2>2. CASE t # {}
    <3>1. h[t] = step[pick[t]][h[t \ {pick[t]}]]
      BY <1>3, <2>2 DEF Folds
    <3>2. pick[t] = Max(t) /\ Max(t) \in S /\ h[t \ {Max(t)}] \in D
      BY <1>1, <2>2
    <3>3. h[t] = PendOne(h[t \ {Max(t)}], s[Max(t)])
      <4> HIDE DEF pick, step, D
      <4> QED BY <1>2, <3>1, <3>2
    <3> QED BY <2>2, <3>3
  <2> QED BY <2>1, <2>2
<1>5. h = Loop(h)
  BY <1>4
<1>6. PICK k : k = Loop(k) /\ Pending(s) = k[S]
  BY <1>5, ZenonT(30) DEF Pending, FoldLeft, MapThenFoldSet, PendOne, Reported
<1>7. k[{}] = <<>>
  BY <1>6
<1>8. ASSUME NEW i \in 1..n PROVE k[1..i] = PendOne(k[1..(i - 1)], s[i])
  <2>1. k[1..i] = PendOne(k[1..i \ {Max(1..i)}], s[Max(1..i)])
    BY <1>6, LastOfInterval
  <2> QED BY <2>1, LastOfInterval
<1> QED BY <1>6, <1>7, <1>8

\* What the rebalances of a context gain together.
Gains(q) == [j \in 1..Len(q) |-> Gain(q[j])]
GainOf(q) == SumFunctionOnSet(Gains(q), 1..Len(q))

\* A context gains one rebalance's amount when that is appended.
LEMMA AppendGain ==
  ASSUME NEW U, \A u \in U : Gain(u) \in Int, NEW q \in Seq(U), NEW x \in U
  PROVE  GainOf(Append(q, x)) = GainOf(q) + Gain(x) /\ GainOf(q) \in Int
<1>1. PICK m \in Nat : m = Len(q)
  OBVIOUS
<1>2. /\ Len(Append(q, x)) = m + 1 /\ Append(q, x)[m + 1] = x
      /\ \A j \in 1..m : Append(q, x)[j] = q[j] /\ q[j] \in U
  BY <1>1
<1> DEFINE f == Gains(q)
           g == Gains(Append(q, x))
           S == 1..m
<1>3. \A j \in S : f[j] \in Int /\ g[j] = f[j]
  <2> SUFFICES ASSUME NEW j \in 1..m PROVE f[j] \in Int /\ g[j] = f[j]
    OBVIOUS
  <2>1. j \in 1..(m + 1)
    OBVIOUS
  <2>2. f[j] = Gain(q[j])
    BY <1>1 DEF Gains
  <2>3. g[j] = Gain(Append(q, x)[j])
    BY <1>2, <2>1 DEF Gains
  <2> QED BY <1>2, <2>2, <2>3
<1>4. g[m + 1] = Gain(x) /\ Gain(x) \in Int
  <2>1. m + 1 \in 1..(m + 1)
    OBVIOUS
  <2> QED BY <1>2, <2>1 DEF Gains
<1>5. \A j \in 1..(m + 1) : g[j] \in Int
  <2> HIDE DEF f, g
  <2> SUFFICES ASSUME NEW j \in 1..(m + 1) PROVE g[j] \in Int
    OBVIOUS
  <2>1. j \in 1..m \/ j = m + 1
    OBVIOUS
  <2> QED BY <1>3, <1>4, <2>1
<1>6. GainOf(Append(q, x)) = SumFunctionOnSet(g, 1..(m + 1)) /\ GainOf(q) = SumFunctionOnSet(f, S)
  BY <1>1, <1>2 DEF GainOf
<1>7. IsFiniteSet(S)
  BY FS_Interval
<1> HIDE DEF f, g
<1>8. SumFunctionOnSet(g, 1..(m + 1)) = SumFunctionOnSet(g, S) + g[m + 1]
  BY <1>5, SumLast
<1> HIDE DEF S
<1>9. SumFunctionOnSet(g, S) = SumFunctionOnSet(f, S) /\ SumFunctionOnSet(f, S) \in Int
  BY <1>3, <1>7, SumEq, SumType
<1> QED BY <1>4, <1>6, <1>8, <1>9

\* What of a rebalance is in flight.
InFlight(r) == IF r.status = "in_progress" THEN r.amount ELSE 0

\* The context gains what is in flight.
LEMMA PendingGains ==
  ASSUME NEW n \in Nat, NEW s, DOMAIN s = 1..n,
         \A k \in 1..n : s[k].status = "in_progress" => Valid(s[k]),
         NEW f, \A k \in 1..n : f[k] = InFlight(s[k])
  PROVE  /\ \E m \in Nat : DOMAIN Pending(s) = 1..m /\ Len(Pending(s)) = m
         /\ \A j \in DOMAIN Pending(s) : Pendable(Pending(s)[j])
         /\ GainOf(Pending(s)) = SumFunctionOnSet(f, 1..n)
<1>1. PICK h : /\ h[{}] = <<>>
               /\ \A k \in 1..n : h[1..k] = PendOne(h[1..(k - 1)], s[k])
               /\ Pending(s) = h[1..n]
  BY PendingInOrder
<1> DEFINE U == {Reported(s[k]) : k \in {i \in 1..n : s[i].status = "in_progress"}}
<1>2. ASSUME NEW u \in U PROVE Pendable(u) /\ Gain(u) \in Int /\ Gain(u) = u.amount
  BY DEF Pendable, Gain, Valid, Reported
<1>3. \A k \in 1..n : f[k] \in Int
  BY DEF InFlight, Valid
<1> DEFINE P == {k \in Nat : k <= n => /\ h[1..k] \in Seq(U)
                                       /\ GainOf(h[1..k]) = SumFunctionOnSet(f, 1..k)}
<1>4. 0 \in P
  <2>1. 1..0 = {} /\ h[1..0] = <<>> /\ Len(<<>>) = 0
    BY <1>1
  <2>2. SumFunctionOnSet(f, {}) = 0
    BY FS_EmptySet, SumType
  <2> DEFINE z == Gains(<<>>)
  <2>3. SumFunctionOnSet(z, {}) = 0
    <3> HIDE DEF z
    <3> QED BY FS_EmptySet, SumType
  <2>4. GainOf(<<>>) = 0
    BY <2>1, <2>3 DEF GainOf
  <2>5. <<>> \in Seq(U)
    OBVIOUS
  <2> HIDE DEF U
  <2> QED BY <2>1, <2>2, <2>4, <2>5
<1>5. ASSUME NEW k \in Nat, k \in P PROVE k + 1 \in P
  <2> SUFFICES ASSUME k + 1 <= n
               PROVE  /\ h[1..(k + 1)] \in Seq(U)
                      /\ GainOf(h[1..(k + 1)]) = SumFunctionOnSet(f, 1..(k + 1))
    OBVIOUS
  <2>1. k + 1 \in 1..n /\ (k + 1) - 1 = k /\ k <= n
    OBVIOUS
  <2>2. PICK q \in Seq(U) : q = h[1..k] /\ GainOf(q) = SumFunctionOnSet(f, 1..k)
    BY <1>5, <2>1
  <2>3. h[1..(k + 1)] = PendOne(q, s[k + 1])
    BY <1>1, <2>1, <2>2
  <2>4. f[k + 1] = InFlight(s[k + 1])
    BY <2>1
  <2>5. \A i \in 1..(k + 1) : f[i] \in Int
    BY <1>3, <2>1
  <2>6. SumFunctionOnSet(f, 1..(k + 1)) = SumFunctionOnSet(f, 1..k) + f[k + 1]
    BY <2>5, SumLast
  <2>7. CASE s[k + 1].status = "in_progress"
    <3>1. PICK u \in U : u = Reported(s[k + 1])
      BY <2>1, <2>7
    <3>2. Gain(u) = f[k + 1]
      BY <1>2, <2>4, <2>7, <3>1 DEF InFlight, Reported
    <3>3. h[1..(k + 1)] = Append(q, u)
      BY <2>3, <2>7, <3>1 DEF PendOne
    <3>4. \A v \in U : Gain(v) \in Int
      BY <1>2
    <3> HIDE DEF U
    <3>5. GainOf(Append(q, u)) = GainOf(q) + Gain(u)
      BY <3>4, AppendGain
    <3>6. Append(q, u) \in Seq(U)
      OBVIOUS
    <3> QED BY <2>2, <2>6, <3>2, <3>3, <3>5, <3>6
  <2>8. CASE s[k + 1].status # "in_progress"
    <3>1. f[k + 1] = 0 /\ h[1..(k + 1)] = q
      BY <2>3, <2>4, <2>8 DEF InFlight, PendOne
    <3>2. SumFunctionOnSet(f, 1..k) \in Int
      <4>1. IsFiniteSet(1..k) /\ \A i \in 1..k : f[i] \in Int
        BY <2>5, FS_Interval
      <4> QED BY <4>1, SumType
    <3> HIDE DEF U
    <3> QED BY <2>2, <2>6, <3>1, <3>2
  <2> QED BY <2>7, <2>8
<1>6. Nat \subseteq P
  <2> HIDE DEF P
  <2> QED BY <1>4, <1>5, NatSetInduction
<1>7. h[1..n] \in Seq(U) /\ GainOf(h[1..n]) = SumFunctionOnSet(f, 1..n)
  <2>1. n \in P /\ n <= n
    BY <1>6
  <2> HIDE DEF U
  <2> QED BY <2>1
<1>8. PICK q \in Seq(U) : q = Pending(s) /\ GainOf(q) = SumFunctionOnSet(f, 1..n)
  BY <1>1, <1>7
<1>9. \A j \in DOMAIN q : Pendable(q[j])
  <2>1. \A j \in DOMAIN q : q[j] \in U
    <3> HIDE DEF U
    <3> QED OBVIOUS
  <2> QED BY <1>2, <2>1
<1>10. DOMAIN q = 1..Len(q) /\ Len(q) \in Nat
  <2> HIDE DEF U
  <2> QED OBVIOUS
<1> QED BY <1>8, <1>9, <1>10

\* The balances `new' are b after x arrived on chain d and y left chain o.
MovedTo(b, new, d, x, o, y) ==
  \A c \in Chains : new[c] = b[c] + ((IF d = c THEN x ELSE 0) - (IF o = c THEN y ELSE 0))

\* The total changes by the difference.
LEMMA TotalMoves ==
  ASSUME NEW b \in [Chains -> Int], NEW new \in [Chains -> Int], NEW d \in Chains,
         NEW o \in Chains, NEW x \in Int, NEW y \in Int,
         MovedTo(b, new, d, x, o, y)
  PROVE  Total(new) = Total(b) + (x - y) /\ Total(b) \in Int
<1> DEFINE mid == [b EXCEPT ![d] = @ + x]
<1>1. /\ mid \in [Chains -> Int] /\ \A c \in Chains : c # d => mid[c] = b[c]
      /\ mid[d] = b[d] + x
  OBVIOUS
<1>2. mid[d] - b[d] = x
  OBVIOUS
<1>3. \A c \in Chains : c # o => new[c] = mid[c]
  BY DEF MovedTo
<1>4. new[o] - mid[o] = 0 - y
  BY DEF MovedTo
<1> HIDE DEF mid
<1>5. Total(mid) = Total(b) + (mid[d] - b[d])
  BY <1>1, TotalChange
<1>6. Total(new) = Total(mid) + (new[o] - mid[o])
  BY <1>1, <1>3, TotalChange
<1>7. PICK t \in Int : t = Total(b)
  BY TotalType
<1> QED BY <1>2, <1>4, <1>5, <1>6, <1>7

\* What a rebalance has moved by the blocks of the event, it has taken from the
\* total of the balances read there while it is in flight, and not otherwise.
LEMMA MovedByTag ==
  ASSUME IInv, pc = "sync", Agreeing, NEW i \in DOMAIN rebalances,
         NEW b \in [Chains -> Int], NEW new \in [Chains -> Int],
         \A c \in Chains : new[c] = b[c] + Moved(rebalances[i], c, event.tag[c])
  PROVE  Total(new) + InFlight(Synced[i]) = Total(b) /\ InFlight(Synced[i]) \in Int
<1> USE BoundsAssumption
<1>0. TypeOK /\ ShapeInv /\ PhaseInv /\ EventInv
  BY DEF IInv
<1> DEFINE r == rebalances[i]
<1>1. WellFormed(r)
  BY <1>0 DEF ShapeInv
<1>2. \A c \in Chains : event.tag[c] \in Nat
  BY <1>0 DEF TypeOK
<1>3. r.status # "sending"
  BY <1>0 DEF PhaseInv, Sending
<1>4. Synced[i] = IF i \in DeliveredAtTag THEN [r EXCEPT !.status = "complete"] ELSE r
  BY DEF Synced
<1>5. PICK t \in Int : t = Total(b)
  BY TotalType
<1>6. CASE ~Valid(r)
  <2>1. r.sent = 0 /\ r.received = 0 /\ r.status = "failed"
    BY <1>0, <1>3, <1>6 DEF TypeOK
  <2>2. \A c \in Chains : Moved(r, c, event.tag[c]) = 0
    BY <1>1, <1>2, <2>1, MovedType
  <2>3. new = b
    BY <2>2
  <2>4. i \notin DeliveredAtTag
    BY <2>1 DEF DeliveredAtTag, InProgress
  <2>5. InFlight(Synced[i]) = 0
    BY <1>4, <2>1, <2>4 DEF InFlight
  <2> QED BY <1>5, <2>3, <2>5
<1>7. CASE Valid(r)
  <2>1. PICK d \in Chains, o \in Chains, a \in Int : d = r.destination /\ o = r.origin /\ a = r.amount
    BY <1>7 DEF Valid
  <2> DEFINE x == IF r.received \in 1..event.tag[d] THEN a ELSE 0
             y == IF r.sent \in 1..event.tag[o] THEN a ELSE 0
  <2>2. x \in Int /\ y \in Int
    OBVIOUS
  <2>3. ASSUME NEW c \in Chains
        PROVE  new[c] = b[c] + ((IF d = c THEN x ELSE 0) - (IF o = c THEN y ELSE 0))
    <3>1. Moved(r, c, event.tag[c]) = (IF d = c THEN x ELSE 0) - (IF o = c THEN y ELSE 0)
      BY <2>1 DEF Moved
    <3> QED BY <3>1
  <2>4. Total(new) = Total(b) + (x - y)
    <3>1. MovedTo(b, new, d, x, o, y)
      BY <2>3 DEF MovedTo
    <3> HIDE DEF x, y
    <3> QED BY <2>2, <3>1, TotalMoves
  <2>5. /\ r.status \in {"in_progress", "complete"} /\ r.sent > 0 /\ r.sent \in Nat /\ r.received \in Nat
        /\ r.status = "complete" => r.received > 0
    BY <1>0, <1>1, <1>3, <1>7 DEF TypeOK, WellFormed
  <2>6. r.sent <= event.tag[o]
    <3>1. PICK e \in Nat : e = event.tag[o]
      BY <1>2
    <3>2. RecordedBy(o, e)
      BY <1>0, <3>1 DEF EventInv
    <3> QED BY <2>1, <2>5, <3>1, <3>2 DEF RecordedBy, Started
  <2>7. y = a
    BY <1>2, <2>5, <2>6
  <2>8. InFlight(Synced[i]) = a - x
    <3>1. CASE r.status = "complete"
      <4>1. PICK e \in Nat : e = event.tag[d]
        BY <1>2
      <4>2. RecordedBy(d, e)
        BY <1>0, <4>1 DEF EventInv
      <4>3. r.received <= e
        BY <2>1, <3>1, <4>2 DEF RecordedBy
      <4>4. x = a
        BY <2>5, <3>1, <4>1, <4>3
      <4>5. i \notin DeliveredAtTag
        BY <3>1 DEF DeliveredAtTag, InProgress
      <4> HIDE DEF x
      <4> QED BY <1>4, <3>1, <4>4, <4>5 DEF InFlight
    <3>2. CASE r.status = "in_progress" /\ r.received \in 1..event.tag[d]
      <4>1. i \in DeliveredAtTag
        BY <2>1, <3>2 DEF DeliveredAtTag, InProgress
      <4>2. Synced[i].status = "complete"
        BY <1>1, <1>4, <4>1 DEF WellFormed
      <4>3. x = a
        BY <3>2
      <4> HIDE DEF x
      <4> QED BY <4>2, <4>3 DEF InFlight
    <3>3. CASE r.status = "in_progress" /\ r.received \notin 1..event.tag[d]
      <4>1. i \notin DeliveredAtTag
        BY <2>1, <3>3 DEF DeliveredAtTag
      <4>2. InFlight(Synced[i]) = a
        BY <1>4, <2>1, <3>3, <4>1 DEF InFlight
      <4>3. x = 0
        BY <3>3
      <4> HIDE DEF x
      <4> QED BY <4>2, <4>3
    <3> QED BY <2>5, <3>1, <3>2, <3>3
  <2> HIDE DEF x, y
  <2> QED BY <1>5, <2>2, <2>4, <2>7, <2>8
<1> QED BY <1>6, <1>7

\* The balances of the event, counting the first k rebalances.
ReadOf(k) ==
  [c \in Chains |-> InitialCollateral[c] + SumFunctionOnSet(Flow(c, event.tag[c]), 1..k)]

\* They and what of those is in flight are all of the collateral.
LEMMA ReadAndInFlight ==
  ASSUME IInv, pc = "sync", Agreeing, NEW n \in Nat, n = Len(rebalances),
         NEW f, \A k \in 1..n : f[k] = InFlight(Synced[k])
  PROVE  /\ ReadOf(n) \in [Chains -> Int]
         /\ Total(ReadOf(n)) + SumFunctionOnSet(f, 1..n) = Total(InitialCollateral)
<1> USE BoundsAssumption
<1>0. TypeOK /\ ShapeInv
  BY DEF IInv
<1>1. DOMAIN rebalances = 1..n
  BY <1>0 DEF ShapeInv
<1>2. \A c \in Chains : event.tag[c] \in Nat
  BY <1>0 DEF TypeOK
<1>3. \A c \in Chains : \A i \in 1..n : /\ Flow(c, event.tag[c])[i] \in Int
                                         /\ Flow(c, event.tag[c])[i] = Moved(rebalances[i], c, event.tag[c])
  BY <1>0, <1>1, <1>2, FlowType DEF Flow
<1>4. ASSUME NEW k \in 0..n PROVE ReadOf(k) \in [Chains -> Int]
  <2> SUFFICES ASSUME NEW c \in Chains
               PROVE  InitialCollateral[c] + SumFunctionOnSet(Flow(c, event.tag[c]), 1..k) \in Int
    BY DEF ReadOf
  <2> DEFINE g == Flow(c, event.tag[c])
             S == 1..k
  <2>1. \A i \in S : i \in 1..n
    OBVIOUS
  <2>2. IsFiniteSet(S) /\ \A i \in S : g[i] \in Int
    BY <1>3, <2>1, FS_Interval
  <2>3. SumFunctionOnSet(g, S) \in Int
    <3> HIDE DEF g, S
    <3> QED BY <2>2, SumType
  <2>4. InitialCollateral[c] \in Int
    BY CollateralAssumption
  <2> QED BY <2>3, <2>4
<1>5. ASSUME NEW k \in Nat, k + 1 <= n, NEW c \in Chains
      PROVE  ReadOf(k + 1)[c] = ReadOf(k)[c] + Moved(rebalances[k + 1], c, event.tag[c])
  <2> DEFINE g == Flow(c, event.tag[c])
  <2>1. \A i \in 1..(k + 1) : i \in 1..n
    BY <1>5
  <2>2. \A i \in 1..(k + 1) : g[i] \in Int
    BY <1>3, <2>1
  <2>3. k + 1 \in 1..(k + 1) /\ k + 1 \in 1..n
    BY <1>5
  <2>4. g[k + 1] = Moved(rebalances[k + 1], c, event.tag[c])
    BY <1>3, <2>3
  <2>5. SumFunctionOnSet(g, 1..(k + 1)) = SumFunctionOnSet(g, 1..k) + g[k + 1]
    <3> HIDE DEF g
    <3> QED BY <2>2, SumLast
  <2>6. /\ ReadOf(k + 1)[c] = InitialCollateral[c] + SumFunctionOnSet(g, 1..(k + 1))
        /\ ReadOf(k)[c] = InitialCollateral[c] + SumFunctionOnSet(g, 1..k)
    BY DEF ReadOf
  <2>7. PICK x \in Int, y \in Int, z \in Int :
          x = InitialCollateral[c] /\ y = SumFunctionOnSet(g, 1..k) /\ z = g[k + 1]
    <3>1. InitialCollateral[c] \in Int /\ g[k + 1] \in Int
      BY <2>2, <2>3, CollateralAssumption
    <3>2. IsFiniteSet(1..k) /\ \A i \in 1..k : g[i] \in Int
      <4>1. IsFiniteSet(1..k)
        BY FS_Interval
      <4>2. \A i \in 1..k : i \in 1..(k + 1)
        OBVIOUS
      <4> HIDE DEF g
      <4> QED BY <2>2, <4>1, <4>2
    <3>3. SumFunctionOnSet(g, 1..k) \in Int
      <4> HIDE DEF g
      <4> QED BY <3>2, SumType
    <3> QED BY <3>1, <3>3
  <2> HIDE DEF g
  <2>8. ReadOf(k + 1)[c] = x + (y + z) /\ ReadOf(k)[c] = x + y
    BY <2>5, <2>6, <2>7
  <2>9. x + (y + z) = (x + y) + z
    OBVIOUS
  <2> QED BY <2>4, <2>7, <2>8, <2>9
<1> DEFINE all == Total(InitialCollateral)
           P == {k \in Nat : k <= n => Total(ReadOf(k)) + SumFunctionOnSet(f, 1..k) = all}
<1>6. all \in Int
  <2>1. InitialCollateral \in [Chains -> Int]
    BY CollateralAssumption
  <2> QED BY <2>1, TotalType
<1>7. 0 \in P
  <2>1. 1..0 = {} /\ SumFunctionOnSet(f, {}) = 0
    BY FS_EmptySet, SumType
  <2>2. ASSUME NEW c \in Chains PROVE ReadOf(0)[c] = InitialCollateral[c]
    <3> DEFINE g == Flow(c, event.tag[c])
    <3>1. SumFunctionOnSet(g, {}) = 0
      <4> HIDE DEF g
      <4> QED BY FS_EmptySet, SumType
    <3>2. ReadOf(0)[c] = InitialCollateral[c] + SumFunctionOnSet(g, {})
      BY <2>1 DEF ReadOf
    <3>3. InitialCollateral[c] \in Int
      BY CollateralAssumption
    <3> QED BY <3>1, <3>2, <3>3
  <2>3. ReadOf(0) = InitialCollateral
    <3>1. ReadOf(0) \in [Chains -> Int]
      BY <1>4
    <3> QED BY <2>2, <3>1, CollateralAssumption
  <2>4. all + 0 = all
    BY <1>6
  <2> QED BY <2>1, <2>3, <2>4
<1>8. ASSUME NEW k \in Nat, k \in P PROVE k + 1 \in P
  <2> SUFFICES ASSUME k + 1 <= n
               PROVE  Total(ReadOf(k + 1)) + SumFunctionOnSet(f, 1..(k + 1)) = all
    OBVIOUS
  <2>0. k + 1 \in 1..n /\ k + 1 \in 0..n /\ k \in 0..n /\ k + 1 \in DOMAIN rebalances
    BY <1>1
  <2>1. Total(ReadOf(k)) + SumFunctionOnSet(f, 1..k) = all
    BY <1>8, <2>0
  <2>2. PICK b \in [Chains -> Int], new \in [Chains -> Int] : b = ReadOf(k) /\ new = ReadOf(k + 1)
    BY <1>4, <2>0
  <2>3. \A c \in Chains : new[c] = b[c] + Moved(rebalances[k + 1], c, event.tag[c])
    BY <1>5, <2>2
  <2>4. Total(new) + InFlight(Synced[k + 1]) = Total(b) /\ InFlight(Synced[k + 1]) \in Int
    BY <2>0, <2>3, MovedByTag
  <2>5. \A i \in 1..n : f[i] \in Int
    <3> SUFFICES ASSUME NEW i \in 1..n PROVE InFlight(Synced[i]) \in Int
      OBVIOUS
    <3>1. PICK j \in Nat : i = j + 1 /\ j + 1 <= n
      <4>1. i - 1 \in Nat /\ i = (i - 1) + 1 /\ (i - 1) + 1 <= n
        OBVIOUS
      <4> QED BY <4>1
    <3>2. PICK u \in [Chains -> Int], v \in [Chains -> Int] : u = ReadOf(j) /\ v = ReadOf(j + 1)
      BY <1>4, <3>1
    <3>3. \A c \in Chains : v[c] = u[c] + Moved(rebalances[i], c, event.tag[c])
      BY <1>5, <3>1, <3>2
    <3>4. i \in DOMAIN rebalances
      BY <1>1
    <3> QED BY <3>3, <3>4, MovedByTag
  <2>6. \A i \in 1..(k + 1) : f[i] \in Int
    BY <2>0, <2>5
  <2>7. SumFunctionOnSet(f, 1..(k + 1)) = SumFunctionOnSet(f, 1..k) + f[k + 1]
    BY <2>6, SumLast
  <2>8. PICK x \in Int, y \in Int, t \in Int :
          x = SumFunctionOnSet(f, 1..k) /\ y = f[k + 1] /\ t = Total(new)
    <3>1. IsFiniteSet(1..k) /\ \A i \in 1..k : f[i] \in Int
      <4>1. IsFiniteSet(1..k)
        BY FS_Interval
      <4>2. \A i \in 1..k : i \in 1..(k + 1)
        OBVIOUS
      <4> QED BY <2>6, <4>1, <4>2
    <3>2. SumFunctionOnSet(f, 1..k) \in Int
      BY <3>1, SumType
    <3> QED BY <2>0, <2>5, <3>2, TotalType
  <2>9. y = InFlight(Synced[k + 1])
    BY <2>0, <2>8
  <2>10. (t + y) + x = all
    BY <2>1, <2>2, <2>4, <2>8, <2>9
  <2>11. Total(ReadOf(k + 1)) + SumFunctionOnSet(f, 1..(k + 1)) = t + (x + y)
    BY <2>2, <2>7, <2>8
  <2>12. t + (x + y) = (t + y) + x
    OBVIOUS
  <2> QED BY <2>10, <2>11, <2>12
<1>9. Nat \subseteq P
  <2> HIDE DEF P
  <2> QED BY <1>7, <1>8, NatSetInduction
<1>10. Total(ReadOf(n)) + SumFunctionOnSet(f, 1..n) = all
  BY <1>9
<1> QED BY <1>4, <1>10

\* BaseStrategy.simulatePendingRebalances: when the strategies are asked, the
\* balances of the event with what is in flight added hold all of the
\* collateral and no more, however deliveries and confirmations fell between
\* the reads, for every reorg period whose two uses agree.
THEOREM ProjectionIsConserved == Spec => []Conserved
<1>1. IInv => Conserved
  <2> SUFFICES ASSUME IInv, pc = "sync", Agreeing
               PROVE  Total(simulatePendingRebalances(event.raw, Pending(Synced)))
                        = Total(InitialCollateral)
    BY DEF Conserved
  <2>0. TypeOK /\ ShapeInv /\ EventInv
    BY DEF IInv
  <2>1. PICK n \in Nat : n = Len(rebalances) /\ DOMAIN rebalances = 1..n
    <3>1. Len(rebalances) \in Nat /\ DOMAIN rebalances = 1..Len(rebalances)
      BY <2>0, BoundsAssumption DEF ShapeInv
    <3> QED BY <3>1
  <2> DEFINE f == [k \in 1..n |-> InFlight(Synced[k])]
  <2>2. \A k \in 1..n : f[k] = InFlight(Synced[k])
    OBVIOUS
  <2> HIDE DEF f
  <2>3. /\ ReadOf(n) \in [Chains -> Int]
        /\ Total(ReadOf(n)) + SumFunctionOnSet(f, 1..n) = Total(InitialCollateral)
    BY <2>1, <2>2, ReadAndInFlight
  <2>4. event.raw = ReadOf(n)
    <3>1. ASSUME NEW c \in Chains PROVE event.raw[c] = ReadOf(n)[c]
      <4>1. PICK b \in Nat : b = event.tag[c]
        BY <2>0, BoundsAssumption DEF TypeOK
      <4>2. event.raw[c] = BalanceAt(c, b)
        BY <2>0, <4>1 DEF EventInv
      <4>3. BalanceAt(c, b) = InitialCollateral[c] + SumFunctionOnSet(Flow(c, b), 1..n)
        BY <2>1, BalanceIs
      <4> QED BY <4>1, <4>2, <4>3 DEF ReadOf
    <3>2. event.raw = [c \in Chains |-> event.raw[c]]
      BY <2>0 DEF ShapeInv
    <3>3. event.raw = [c \in Chains |-> ReadOf(n)[c]]
      BY <3>1, <3>2
    <3> QED BY <2>3, <3>3
  <2>5. DOMAIN Synced = 1..n
    BY <2>1 DEF Synced
  <2>6. ASSUME NEW k \in 1..n, Synced[k].status = "in_progress" PROVE Valid(Synced[k])
    <3>1. k \in DOMAIN rebalances /\ WellFormed(rebalances[k])
      BY <2>0, <2>1 DEF ShapeInv
    <3>2. CASE k \in DeliveredAtTag
      BY <2>6, <3>1, <3>2 DEF Synced, WellFormed
    <3>3. CASE k \notin DeliveredAtTag
      <4>1. Synced[k] = rebalances[k]
        BY <3>1, <3>3 DEF Synced
      <4> QED BY <2>0, <2>6, <3>1, <4>1 DEF TypeOK
    <3> QED BY <3>2, <3>3
  <2>7. PICK s : s = Synced
    OBVIOUS
  <2>8. /\ DOMAIN s = 1..n /\ \A k \in 1..n : s[k].status = "in_progress" => Valid(s[k])
        /\ \A k \in 1..n : f[k] = InFlight(s[k])
    BY <2>2, <2>5, <2>6, <2>7
  <2>9. /\ \E m \in Nat : DOMAIN Pending(s) = 1..m /\ Len(Pending(s)) = m
        /\ \A j \in DOMAIN Pending(s) : Pendable(Pending(s)[j])
        /\ GainOf(Pending(s)) = SumFunctionOnSet(f, 1..n)
    BY <2>8, PendingGains
  <2>10. PICK m \in Nat : DOMAIN Pending(s) = 1..m /\ Len(Pending(s)) = m
    BY <2>9
  <2>11. PICK p : p = Pending(s)
    OBVIOUS
  <2>12. PICK b \in [Chains -> Int] : b = event.raw
    BY <2>3, <2>4
  <2>13. \A j \in 1..m : Pendable(p[j])
    BY <2>9, <2>10, <2>11
  <2> DEFINE gain == Gains(p)
  <2>14. \A j \in 1..m : gain[j] = Gain(p[j])
    BY <2>10, <2>11 DEF Gains
  <2> HIDE DEF gain
  <2>15. Total(simulatePendingRebalances(b, p)) = Total(b) + SumFunctionOnSet(gain, 1..m)
    <3>1. DOMAIN p = 1..m
      BY <2>10, <2>11
    <3> QED BY <2>13, <2>14, <3>1, SimulatedTotal
  <2>16. SumFunctionOnSet(gain, 1..m) = SumFunctionOnSet(f, 1..n)
    BY <2>9, <2>10, <2>11 DEF GainOf, gain
  <2> QED BY <2>3, <2>4, <2>7, <2>11, <2>12, <2>15, <2>16
<1> QED BY <1>1, Invariance, PTL
=============================================================================
