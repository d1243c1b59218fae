--------------------------- MODULE RebalancerProofs ---------------------------
(***************************************************************************)
(* The rebalancer keeps its stores consistent, for every set of chains and *)
(* settings, whatever fails.  The invariant IInv is stated in parts: what  *)
(* holds of the tracker's stores whoever calls it (StoreInv), and how the  *)
(* stores fit the chains and the steps of a cycle (WorldInv, NamesInv,     *)
(* JobsInv, TaskInv, OnceInv, SyncInv, DepositInv).  The tracker's         *)
(* operations are shown to keep StoreInv first; then there is one lemma    *)
(* per action of Rebalancer.tla.                                           *)
(***************************************************************************)
EXTENDS Rebalancer, RebalanceStrategyProofs

-----------------------------------------------------------------------------
(* The stores *)

\* The bridge of a route, or none.
Bridges == STRING \cup {"none"}

IntentSet == [origin : Chains, destination : Chains, amount : Nat \ {0},
              method : {"movable", "inventory"}, bridge : Bridges, status : Statuses,
              old : BOOLEAN]

ActionSet == [type : {"rebalance_message", "inventory_deposit", "inventory_movement"},
              status : {"in_progress", "complete", "failed"}, intent : Nat, msg : Nat,
              move : Nat, amount : Nat \ {0},
              bridgeStatus : {"unknown", "pending", "not_found"}, stale : BOOLEAN]

\* The deposits of an intent, whatever became of them.
DepositsOf(as, i) == {a \in DOMAIN as : as[a].type = "inventory_deposit" /\ as[a].intent = i}
Deposited(as, i) == AmountOf(as, DepositsOf(as, i))

Typed(is, as) ==
  /\ is \in Seq(IntentSet) /\ as \in Seq(ActionSet)
  /\ \A a \in DOMAIN as : as[a].intent \in DOMAIN is

\* A bridge message is the whole of its intent.
MessageFits(is, as, a) ==
  as[a].type = "rebalance_message" =>
    /\ is[as[a].intent].method = "movable" /\ as[a].amount = is[as[a].intent].amount
    /\ as[a].msg # 0
    /\ as[a].status = "complete" => is[as[a].intent].status = "complete"
    /\ \A b \in DOMAIN as : as[b].intent = as[a].intent => b = a

DepositFits(is, as, a) ==
  as[a].type = "inventory_deposit" =>
    /\ is[as[a].intent].method = "inventory"
    /\ as[a].status = "failed" => is[as[a].intent].status = "failed"

MovementFits(is, as, a) ==
  as[a].type = "inventory_movement" =>
    /\ is[as[a].intent].method = "inventory" /\ as[a].msg = 0
    /\ as[a].status = "in_progress" => Deposited(as, as[a].intent) < is[as[a].intent].amount

Fits(is, as, a) ==
  /\ as[a].status = "in_progress" => is[as[a].intent].status = "in_progress"
  /\ MessageFits(is, as, a) /\ DepositFits(is, as, a) /\ MovementFits(is, as, a)

StoreInv(is, as) ==
  /\ Typed(is, as)
  /\ \A a \in DOMAIN as : Fits(is, as, a)
  /\ \A i \in DOMAIN is : Deposited(as, i) <= is[i].amount

-----------------------------------------------------------------------------
(* The cycle *)

MessageSet == [kind : {"transfer", "rebalance", "deposit"}, origin : Chains,
               destination : Chains, amount : Nat, delivered : BOOLEAN,
               explorer : {"unseen", "inflight", "delivered"}, intent : Nat]
MoveSet == [origin : Chains, destination : Chains, amount : Nat,
            status : {"pending", "complete", "failed"}]
JobSet == [intent : Nat, route : Route, state : {"todo", "sent", "failed"}, msg : Nat]
EventSet == [raw : [Chains -> Nat], delivered : SUBSET Nat, inventory : [Chains -> Nat]]

WorldInv ==
  /\ setting \in Settings
  /\ collateral \in [Chains -> Nat] /\ inventory \in [Chains -> Nat]
  /\ msgs \in Seq(MessageSet) /\ moves \in Seq(MoveSet)
  /\ \A m \in DOMAIN msgs : msgs[m].kind = "rebalance" => msgs[m].amount > 0
  /\ \A m \in DOMAIN transfers : m \in Kind("transfer")
  /\ event \in EventSet /\ event.delivered \subseteq Delivered
  /\ \A o \in orphans : o.delivered \subseteq Delivered

\* What the stores and the chains name exists.
NamesInv ==
  /\ \A a \in DOMAIN actions : actions[a].msg <= Len(msgs) /\ actions[a].move <= Len(moves)
  /\ \A m \in DOMAIN msgs : msgs[m].intent <= Len(intents)

\* The intent of a route that is being sent waits for its result.
JobFits(is, as, job) ==
  /\ job.intent \in DOMAIN is
  /\ is[job.intent].status = "not_started" /\ is[job.intent].method = "movable"
  /\ is[job.intent].amount = job.route.amount
  /\ \A a \in DOMAIN as : as[a].intent # job.intent
  /\ job.state = "sent" => job.msg # 0

JobsInv ==
  /\ jobs \in Seq(JobSet) /\ (pc # "send" => jobs = <<>>)
  /\ \A j \in DOMAIN jobs : JobFits(intents, actions, jobs[j]) /\ jobs[j].msg <= Len(msgs)
  /\ \A j, k \in DOMAIN jobs : j # k => jobs[j].intent # jobs[k].intent

\* The intent of the route that is being executed awaits nothing, and the
\* amount is what its deposits leave.
TaskFits(is, as, i, n) ==
  /\ i \in DOMAIN is /\ is[i].method = "inventory"
  /\ is[i].status \in {"not_started", "in_progress"}
  /\ \A a \in DOMAIN as : as[a].intent = i => as[a].status # "in_progress"
  /\ n \in Nat \ {0} /\ Deposited(as, i) + n <= is[i].amount

TaskInv ==
  /\ wanted \in Seq(Route) /\ task.intent \in {0} \cup DOMAIN intents
  /\ pc = "execute" => TaskFits(intents, actions, task.intent, task.amount)

\* Messages are recorded once, and completed at the blocks of the event.
OnceInv ==
  ~Fault("explorer") =>
    /\ orphans = {} /\ OneActionPerMessage
    /\ \A j \in DOMAIN jobs : jobs[j].state = "sent" =>
         /\ \A a \in DOMAIN actions : actions[a].msg # jobs[j].msg
         /\ \A k \in DOMAIN jobs : k # j /\ jobs[k].state = "sent" => jobs[k].msg # jobs[j].msg

\* The messages of a cycle whose strategies have not been asked yet.
SyncInv ==
  ~Fault("explorer") =>
    /\ pc = "plan" => asked = {}
    /\ \A a \in DOMAIN actions : actions[a].type = "rebalance_message" =>
         /\ actions[a].status = "complete" => actions[a].msg \in Delivered
         /\ pc \in {"sync", "plan"} =>
              /\ actions[a].status = "complete" => actions[a].msg \in event.delivered
              /\ "actions" \notin asked /\ ~Fault("check") /\ actions[a].status = "in_progress" =>
                   actions[a].msg \notin event.delivered

\* The chains and the tracker agree on what was deposited.
MessagesOf(ms, i) == {m \in DOMAIN ms : ms[m].kind = "deposit" /\ ms[m].intent = i}
Sent(ms, i) == AmountOf(ms, MessagesOf(ms, i))
DepositInv ==
  ~Fault("lost") => \A i \in DOMAIN intents : Sent(msgs, i) = Deposited(actions, i)

IInv == /\ WorldInv /\ StoreInv(intents, actions) /\ NamesInv /\ JobsInv /\ TaskInv
        /\ OnceInv /\ SyncInv /\ DepositInv

-----------------------------------------------------------------------------
(* Proofs *)

\* An amount is a sum of amounts: its type, the empty one, and any member may
\* be taken out.
LEMMA AmountFacts ==
  ASSUME NEW q, NEW S, IsFiniteSet(S), \A x \in S : q[x].amount \in Nat
  PROVE  /\ AmountOf(q, S) \in Nat /\ (S = {} => AmountOf(q, S) = 0)
         /\ \A x \in S : AmountOf(q, S) = q[x].amount + AmountOf(q, S \ {x})
<1> DEFINE f == [a \in S |-> q[a].amount]
<1>1. \A x \in S : f[x] \in Nat /\ f[x] \in Int
  OBVIOUS
<1>2. AmountOf(q, S) = SumFunctionOnSet(f, S)
  BY DEF AmountOf
<1>3. ASSUME NEW x \in S PROVE AmountOf(q, S) = q[x].amount + AmountOf(q, S \ {x})
  <2> DEFINE T == S \ {x}
             g == [a \in T |-> q[a].amount]
  <2>1. IsFiniteSet(T)
    BY FS_Subset
  <2>2. \A y \in T : f[y] \in Int /\ g[y] = f[y]
    OBVIOUS
  <2>3. SumFunctionOnSet(g, T) = SumFunctionOnSet(f, T)
    <3> HIDE DEF f, g, T
    <3> QED BY <2>1, <2>2, SumEq
  <2>4. SumFunctionOnSet(f, S) = f[x] + SumFunctionOnSet(f, T)
    <3> HIDE DEF f
    <3> QED BY <1>1, SumSplit
  <2>5. AmountOf(q, T) = SumFunctionOnSet(g, T)
    BY DEF AmountOf
  <2>6. f[x] = q[x].amount
    OBVIOUS
  <2> HIDE DEF f, g
  <2> QED BY <1>2, <2>3, <2>4, <2>5, <2>6
<1> HIDE DEF f
<1> QED BY <1>1, <1>2, <1>3, SumNat, SumType

\* Amounts that agree add up to the same.
LEMMA AmountEq ==
  ASSUME NEW q, NEW p, NEW S, IsFiniteSet(S),
         \A x \in S : q[x].amount \in Nat /\ p[x].amount = q[x].amount
  PROVE  AmountOf(p, S) = AmountOf(q, S)
<1> DEFINE f == [a \in S |-> q[a].amount]
           g == [a \in S |-> p[a].amount]
<1>1. f = g
  OBVIOUS
<1> QED BY <1>1 DEF AmountOf

\* A part is no more than the whole.
LEMMA AmountPart ==
  ASSUME NEW q, NEW S, IsFiniteSet(S), \A x \in S : q[x].amount \in Nat, NEW T, T \subseteq S
  PROVE  AmountOf(q, T) <= AmountOf(q, S)
<1> DEFINE P == {s \in SUBSET S : \A t \in SUBSET s : AmountOf(q, t) <= AmountOf(q, s)}
<1>0. \A s \in SUBSET S : /\ IsFiniteSet(s) /\ AmountOf(q, s) \in Nat
                          /\ \A x \in s : AmountOf(q, s) = q[x].amount + AmountOf(q, s \ {x})
  <2> SUFFICES ASSUME NEW s \in SUBSET S
               PROVE  /\ IsFiniteSet(s) /\ AmountOf(q, s) \in Nat
                      /\ \A x \in s : AmountOf(q, s) = q[x].amount + AmountOf(q, s \ {x})
    OBVIOUS
  <2>1. IsFiniteSet(s) /\ \A x \in s : q[x].amount \in Nat
    BY FS_Subset
  <2> QED BY <2>1, AmountFacts
<1>1. {} \in P
  BY <1>0, SMTT(30)
<1>2. ASSUME NEW s \in SUBSET S, s # {}, \A x \in s : s \ {x} \in P
      PROVE  s \in P
  <2> SUFFICES ASSUME NEW t \in SUBSET s PROVE AmountOf(q, t) <= AmountOf(q, s)
    OBVIOUS
  <2>1. CASE t = s
    BY <1>0, <2>1
  <2>2. CASE t # s
    <3>1. PICK x \in s : x \notin t
      BY <2>2
    <3>2. AmountOf(q, t) <= AmountOf(q, s \ {x})
      BY <1>2, <3>1
    <3>3. /\ AmountOf(q, t) \in Nat /\ AmountOf(q, s \ {x}) \in Nat /\ q[x].amount \in Nat
          /\ AmountOf(q, s) = q[x].amount + AmountOf(q, s \ {x})
      <4>1. t \in SUBSET S /\ s \ {x} \in SUBSET S /\ x \in S
        OBVIOUS
      <4> QED BY <1>0, <4>1
    <3> HIDE DEF P
    <3> QED BY <3>2, <3>3
  <2> QED BY <2>1, <2>2
<1>3. S \in P
  <2> HIDE DEF P
  <2> QED BY <1>1, <1>2, SubsetInduction
<1> QED BY <1>3

\* An element of a sequence.
LEMMA ElementOf ==
  ASSUME NEW U, NEW q \in Seq(U), NEW k \in DOMAIN q
  PROVE  q[k] \in U
OBVIOUS

\* A set of positions of a sequence is finite.
LEMMA Positions ==
  ASSUME NEW U, NEW q \in Seq(U), NEW S, S \subseteq DOMAIN q
  PROVE  IsFiniteSet(S) /\ DOMAIN q = 1..Len(q) /\ \A x \in S : q[x] \in U
<1>1. DOMAIN q = 1..Len(q) /\ Len(q) \in Nat
  OBVIOUS
<1>2. IsFiniteSet(1..Len(q))
  BY <1>1, FS_Interval
<1> QED BY <1>1, <1>2, FS_Subset

\* Amounts of actions.
LEMMA ActionAmounts ==
  ASSUME NEW as \in Seq(ActionSet), NEW S, S \subseteq DOMAIN as
  PROVE  IsFiniteSet(S) /\ \A x \in S : as[x].amount \in Nat /\ as[x].amount > 0
<1>1. IsFiniteSet(S) /\ \A x \in S : as[x] \in ActionSet
  BY Positions
<1>2. \A x \in ActionSet : x.amount \in Nat /\ x.amount > 0
  BY DEF ActionSet
<1> QED BY <1>1, <1>2

\* What was deposited is a natural number.
LEMMA DepositedType ==
  ASSUME NEW as \in Seq(ActionSet), NEW i
  PROVE  Deposited(as, i) \in Nat /\ (DepositsOf(as, i) = {} => Deposited(as, i) = 0)
<1>1. DepositsOf(as, i) \subseteq DOMAIN as
  BY DEF DepositsOf
<1>2. IsFiniteSet(DepositsOf(as, i)) /\ \A x \in DepositsOf(as, i) : as[x].amount \in Nat
  BY <1>1, ActionAmounts
<1> QED BY <1>2, AmountFacts DEF Deposited

-----------------------------------------------------------------------------
(* What keeps the stores consistent *)

\* What is fixed once an intent or an action is created.
KeepsIntents(is, it) ==
  /\ DOMAIN is \subseteq DOMAIN it
  /\ \A i \in DOMAIN is : it[i].amount = is[i].amount /\ it[i].method = is[i].method
KeepsActions(as, at) ==
  /\ DOMAIN as \subseteq DOMAIN at
  /\ \A a \in DOMAIN as : /\ at[a].type = as[a].type /\ at[a].intent = as[a].intent
                          /\ at[a].msg = as[a].msg /\ at[a].move = as[a].move
                          /\ at[a].amount = as[a].amount

\* Actions and intents end: an action that is in progress, an intent that is
\* open and left without one.
Ends(is, as, it, at) ==
  /\ KeepsIntents(is, it) /\ DOMAIN it = DOMAIN is
  /\ KeepsActions(as, at) /\ DOMAIN at = DOMAIN as
  /\ \A a \in DOMAIN as : at[a].status # as[a].status =>
       /\ as[a].status = "in_progress"
       /\ as[a].type = "rebalance_message" /\ at[a].status = "complete" =>
            it[as[a].intent].status = "complete"
       /\ as[a].type = "inventory_deposit" /\ at[a].status = "failed" =>
            it[as[a].intent].status = "failed"
  /\ \A i \in DOMAIN is : it[i].status # is[i].status =>
       /\ is[i].status \in {"not_started", "in_progress"}
       /\ \A a \in DOMAIN as : as[a].intent = i => at[a].status # "in_progress"

\* What was deposited does not depend on what became of it.
LEMMA SameDeposits ==
  ASSUME NEW as \in Seq(ActionSet), NEW at, KeepsActions(as, at), DOMAIN at = DOMAIN as, NEW i
  PROVE  Deposited(at, i) = Deposited(as, i)
<1>1. DepositsOf(at, i) = DepositsOf(as, i)
  BY DEF KeepsActions, DepositsOf
<1>2. DepositsOf(as, i) \subseteq DOMAIN as
  BY DEF DepositsOf
<1>3. IsFiniteSet(DepositsOf(as, i)) /\ \A x \in DepositsOf(as, i) : as[x].amount \in Nat
  BY <1>2, ActionAmounts
<1>4. \A x \in DepositsOf(as, i) : at[x].amount = as[x].amount
  BY <1>2 DEF KeepsActions
<1>5. PICK S : S = DepositsOf(as, i)
  OBVIOUS
<1>6. IsFiniteSet(S) /\ \A x \in S : as[x].amount \in Nat /\ at[x].amount = as[x].amount
  BY <1>3, <1>4, <1>5
<1>7. AmountOf(at, S) = AmountOf(as, S)
  BY <1>6, AmountEq
<1> QED BY <1>1, <1>5, <1>7 DEF Deposited

\* The stores stay consistent when actions and intents end.
LEMMA EndsInv ==
  ASSUME NEW is, NEW as, StoreInv(is, as), NEW it \in Seq(IntentSet), NEW at \in Seq(ActionSet),
         Ends(is, as, it, at)
  PROVE  StoreInv(it, at) /\ \A i : Deposited(at, i) = Deposited(as, i)
<1>0. is \in Seq(IntentSet) /\ as \in Seq(ActionSet)
  BY DEF StoreInv, Typed
<1>1. /\ KeepsIntents(is, it) /\ DOMAIN it = DOMAIN is
      /\ KeepsActions(as, at) /\ DOMAIN at = DOMAIN as
  BY DEF Ends
<1>2. \A i : Deposited(at, i) = Deposited(as, i)
  BY <1>0, <1>1, SameDeposits
<1>3. Typed(it, at)
  BY <1>1 DEF StoreInv, Typed, KeepsActions
<1>4. ASSUME NEW a \in DOMAIN at PROVE Fits(it, at, a)
  <2>1. PICK i \in DOMAIN is : i = as[a].intent
    BY <1>1 DEF StoreInv, Typed
  <2>2. /\ at[a].type = as[a].type /\ at[a].intent = i /\ at[a].msg = as[a].msg
        /\ at[a].amount = as[a].amount /\ it[i].amount = is[i].amount
        /\ it[i].method = is[i].method
    BY <1>1, <2>1 DEF KeepsIntents, KeepsActions
  <2>3. Fits(is, as, a)
    BY <1>1 DEF StoreInv
  <2>4. /\ at[a].status # as[a].status => as[a].status = "in_progress"
        /\ at[a].status # as[a].status /\ as[a].type = "rebalance_message"
             /\ at[a].status = "complete" => it[i].status = "complete"
        /\ at[a].status # as[a].status /\ as[a].type = "inventory_deposit"
             /\ at[a].status = "failed" => it[i].status = "failed"
    BY <1>1, <2>1 DEF Ends
  <2>5. it[i].status # is[i].status => /\ is[i].status \in {"not_started", "in_progress"}
                                       /\ at[a].status # "in_progress"
    BY <1>1, <2>1 DEF Ends
  <2>6. at[a].status = "in_progress" => it[i].status = "in_progress"
    BY <2>1, <2>3, <2>4, <2>5 DEF Fits
  <2>7. MessageFits(it, at, a)
    <3>1. \A b \in DOMAIN at : at[b].intent = as[b].intent
      BY <1>1 DEF KeepsActions
    <3> QED BY <1>1, <2>1, <2>2, <2>3, <2>4, <2>5, <3>1 DEF Fits, MessageFits
  <2>8. DepositFits(it, at, a)
    BY <2>1, <2>2, <2>3, <2>4, <2>5 DEF Fits, DepositFits
  <2>9. MovementFits(it, at, a)
    BY <1>2, <2>1, <2>2, <2>3, <2>4 DEF Fits, MovementFits
  <2> QED BY <2>2, <2>6, <2>7, <2>8, <2>9 DEF Fits
<1>5. \A i \in DOMAIN it : Deposited(at, i) <= it[i].amount
  BY <1>1, <1>2 DEF StoreInv, KeepsIntents
<1> QED BY <1>2, <1>3, <1>4, <1>5 DEF StoreInv

\* The stores stay consistent when intents are created.
LEMMA IntentsAdded ==
  ASSUME NEW is, NEW as, StoreInv(is, as), NEW it \in Seq(IntentSet),
         DOMAIN is \subseteq DOMAIN it, \A i \in DOMAIN is : it[i] = is[i]
  PROVE  /\ StoreInv(it, as) /\ KeepsIntents(is, it)
         /\ \A i \in DOMAIN it \ DOMAIN is : Deposited(as, i) = 0
<1>0. as \in Seq(ActionSet) /\ \A a \in DOMAIN as : as[a].intent \in DOMAIN is
  BY DEF StoreInv, Typed
<1>1. Typed(it, as)
  BY <1>0 DEF Typed
<1>2. \A a \in DOMAIN as : Fits(it, as, a)
  BY <1>0 DEF StoreInv, Fits, MessageFits, DepositFits, MovementFits
<1>3. \A i \in DOMAIN it \ DOMAIN is : Deposited(as, i) = 0
  <2> SUFFICES ASSUME NEW i \in DOMAIN it \ DOMAIN is PROVE Deposited(as, i) = 0
    OBVIOUS
  <2>1. DepositsOf(as, i) = {}
    BY <1>0 DEF DepositsOf
  <2> QED BY <1>0, <2>1, DepositedType
<1>4. ASSUME NEW i \in DOMAIN it PROVE Deposited(as, i) <= it[i].amount
  <2>1. it[i].amount \in Nat
    <3>1. it[i] \in IntentSet
      OBVIOUS
    <3> QED BY <3>1 DEF IntentSet
  <2>2. CASE i \in DOMAIN is
    BY <2>2 DEF StoreInv
  <2>3. CASE i \notin DOMAIN is
    <3>1. i \in DOMAIN it \ DOMAIN is
      BY <2>3
    <3>2. Deposited(as, i) = 0
      BY <1>3, <3>1
    <3> QED BY <2>1, <3>2
  <2> QED BY <2>2, <2>3
<1>5. KeepsIntents(is, it)
  BY DEF KeepsIntents
<1> QED BY <1>1, <1>2, <1>3, <1>4, <1>5 DEF StoreInv

\* What an action must be for its intent to take it.
CanTake(is, as, x) ==
  /\ x \in ActionSet /\ x.status = "in_progress" /\ x.intent \in DOMAIN is
  /\ is[x.intent].status \in {"not_started", "in_progress"}
  /\ x.type = "rebalance_message" =>
       /\ is[x.intent].method = "movable" /\ x.amount = is[x.intent].amount /\ x.msg # 0
       /\ \A a \in DOMAIN as : as[a].intent # x.intent
  /\ x.type = "inventory_deposit" =>
       /\ is[x.intent].method = "inventory"
       /\ Deposited(as, x.intent) + x.amount <= is[x.intent].amount
       /\ \A a \in DOMAIN as : as[a].intent = x.intent => as[a].status # "in_progress"
  /\ x.type = "inventory_movement" =>
       /\ is[x.intent].method = "inventory" /\ x.msg = 0
       /\ Deposited(as, x.intent) < is[x.intent].amount

\* An action is created: its intent is in progress, the others are as before.
Creates(is, as, x, it, at) ==
  /\ at = Append(as, x) /\ it \in Seq(IntentSet) /\ DOMAIN it = DOMAIN is
  /\ KeepsIntents(is, it)
  /\ \A i \in DOMAIN is : /\ i # x.intent => it[i] = is[i]
                          /\ it[i].status # is[i].status => is[i].status = "not_started"
  /\ it[x.intent].status = "in_progress"

\* The positions of a sequence with one more element.
Longer(q, x, p) ==
  /\ Len(q) \in Nat /\ Len(p) = Len(q) + 1
  /\ DOMAIN p = DOMAIN q \cup {Len(p)} /\ Len(p) \notin DOMAIN q
  /\ p[Len(p)] = x /\ \A k \in DOMAIN q : p[k] = q[k]

\* An element is appended.
LEMMA Appended ==
  ASSUME NEW U, NEW q \in Seq(U), NEW x \in U, NEW p, p = Append(q, x)
  PROVE  p \in Seq(U) /\ Longer(q, x, p)
BY DEF Longer

\* What is deposited once a further action is recorded.
Grows(as, x, at, i) ==
  IF x.type = "inventory_deposit" /\ x.intent = i
  THEN Deposited(at, i) = Deposited(as, i) + x.amount
  ELSE Deposited(at, i) = Deposited(as, i)

\* A deposit that is recorded adds its amount, other actions nothing.
LEMMA DepositedAppended ==
  ASSUME NEW as \in Seq(ActionSet), NEW x \in ActionSet, NEW at, at = Append(as, x), NEW i
  PROVE  Grows(as, x, at, i)
<1>2. /\ at \in Seq(ActionSet) /\ DOMAIN at = DOMAIN as \cup {Len(at)} /\ Len(at) \notin DOMAIN as
      /\ at[Len(at)] = x /\ \A a \in DOMAIN as : at[a] = as[a]
  <2>1. at \in Seq(ActionSet) /\ Longer(as, x, at)
    BY Appended, Zenon
  <2> QED BY <2>1 DEF Longer
<1>3. PICK S : S = DepositsOf(as, i)
  OBVIOUS
<1>4. S \subseteq DOMAIN as /\ Deposited(as, i) = AmountOf(as, S)
  BY <1>3 DEF DepositsOf, Deposited
<1>5. IsFiniteSet(S) /\ \A a \in S : as[a].amount \in Nat
  BY <1>4, ActionAmounts
<1>6. AmountOf(at, S) = AmountOf(as, S)
  <2>1. \A a \in S : as[a].amount \in Nat /\ at[a].amount = as[a].amount
    BY <1>2, <1>4, <1>5
  <2> QED BY <1>5, <2>1, AmountEq
<1>7. Deposited(as, i) \in Nat
  BY DepositedType
<1>8. CASE x.type = "inventory_deposit" /\ x.intent = i
  <2>1. PICK n : n = Len(at)
    OBVIOUS
  <2>2. PICK T : T = DepositsOf(at, i)
    OBVIOUS
  <2>3. T = S \cup {n} /\ n \in T /\ T \ {n} = S /\ T \subseteq DOMAIN at
    BY <1>2, <1>3, <1>8, <2>1, <2>2 DEF DepositsOf
  <2>4. IsFiniteSet(T) /\ \A a \in T : at[a].amount \in Nat
    BY <1>2, <2>3, ActionAmounts
  <2>5. AmountOf(at, T) = at[n].amount + AmountOf(at, T \ {n})
    <3>1. \A a \in T : AmountOf(at, T) = at[a].amount + AmountOf(at, T \ {a})
      BY <2>4, AmountFacts, ZenonT(40)
    <3> QED BY <2>3, <3>1, Zenon
  <2>6. PICK v \in Nat : v = at[n].amount /\ v = x.amount
    BY <1>2, <2>1, <2>3, <2>4
  <2>7. PICK w \in Nat : w = Deposited(as, i)
    BY <1>7
  <2>8. Deposited(at, i) = v + w
    BY <1>4, <1>6, <2>2, <2>3, <2>5, <2>6, <2>7 DEF Deposited
  <2>9. v + w = w + v
    OBVIOUS
  <2>10. Deposited(at, i) = Deposited(as, i) + x.amount
    BY <2>6, <2>7, <2>8, <2>9, Zenon
  <2> QED BY <1>8, <2>10 DEF Grows
<1>9. CASE ~(x.type = "inventory_deposit" /\ x.intent = i)
  <2>1. DepositsOf(at, i) = S
    BY <1>2, <1>3, <1>9 DEF DepositsOf
  <2>2. Deposited(at, i) = Deposited(as, i)
    BY <1>4, <1>6, <2>1 DEF Deposited
  <2> QED BY <1>9, <2>2 DEF Grows
<1> QED BY <1>8, <1>9

\* The stores stay consistent when an action is created.
LEMMA CreatesInv ==
  ASSUME NEW is, NEW as, StoreInv(is, as), NEW x, CanTake(is, as, x),
         NEW it, NEW at, Creates(is, as, x, it, at)
  PROVE  StoreInv(it, at) /\ KeepsActions(as, at)
<1>0. /\ is \in Seq(IntentSet) /\ as \in Seq(ActionSet) /\ it \in Seq(IntentSet)
      /\ x \in ActionSet /\ DOMAIN it = DOMAIN is /\ KeepsIntents(is, it) /\ at = Append(as, x)
      /\ \A a \in DOMAIN as : as[a].intent \in DOMAIN is
  BY DEF StoreInv, Typed, CanTake, Creates
<1>1. PICK n : n = Len(at)
  OBVIOUS
<1>2. /\ at \in Seq(ActionSet) /\ DOMAIN at = DOMAIN as \cup {n} /\ n \notin DOMAIN as
      /\ at[n] = x /\ \A a \in DOMAIN as : at[a] = as[a]
  <2>1. at = Append(as, x) /\ as \in Seq(ActionSet) /\ x \in ActionSet
    BY <1>0
  <2>2. at \in Seq(ActionSet) /\ Longer(as, x, at)
    BY <2>1, Appended, Zenon
  <2> QED BY <1>1, <2>2 DEF Longer
<1>3. PICK j \in DOMAIN is : j = x.intent
  BY DEF CanTake
<1>4. \A i : IF x.type = "inventory_deposit" /\ j = i
             THEN Deposited(at, i) = Deposited(as, i) + x.amount
             ELSE Deposited(at, i) = Deposited(as, i)
  <2> SUFFICES ASSUME NEW i
               PROVE  IF x.type = "inventory_deposit" /\ j = i
                      THEN Deposited(at, i) = Deposited(as, i) + x.amount
                      ELSE Deposited(at, i) = Deposited(as, i)
    OBVIOUS
  <2>1. Grows(as, x, at, i)
    BY <1>0, DepositedAppended, Zenon
  <2> QED BY <1>3, <2>1 DEF Grows
<1>5. \A i : Deposited(as, i) \in Nat
  BY <1>0, DepositedType
<1>6. x.amount \in Nat /\ \A i \in DOMAIN is : is[i].amount \in Nat
  <2>1. x.amount \in Nat
    BY <1>0 DEF ActionSet
  <2>2. \A i \in DOMAIN is : is[i] \in IntentSet
    BY <1>0
  <2> QED BY <2>1, <2>2 DEF IntentSet
<1>7. Typed(it, at)
  BY <1>0, <1>2, <1>3 DEF Typed
<1>8. ASSUME NEW a \in DOMAIN as PROVE Fits(it, at, a)
  <2>1. PICK i \in DOMAIN is : i = as[a].intent
    BY <1>0
  <2>2. Fits(is, as, a)
    BY DEF StoreInv
  <2>3. /\ it[i].amount = is[i].amount /\ it[i].method = is[i].method
        /\ it[i].status # is[i].status => is[i].status = "not_started"
    BY DEF Creates, KeepsIntents
  <2>4. at[a] = as[a]
    BY <1>2
  <2>5. at[a].status = "in_progress" => it[i].status = "in_progress"
    BY <2>1, <2>2, <2>3, <2>4 DEF Fits
  <2>6. MessageFits(it, at, a)
    <3> SUFFICES ASSUME as[a].type = "rebalance_message" PROVE MessageFits(it, at, a)
      BY <2>4 DEF MessageFits
    <3>1. /\ is[i].method = "movable" /\ as[a].amount = is[i].amount /\ as[a].msg # 0
          /\ as[a].status = "complete" => is[i].status = "complete"
          /\ \A b \in DOMAIN as : as[b].intent = i => b = a
      BY <2>1, <2>2 DEF Fits, MessageFits
    <3>2. x.type # "rebalance_message" => is[j].method = "inventory"
      BY <1>3 DEF CanTake, ActionSet
    <3>3. x.type = "rebalance_message" => i # j
      BY <1>3, <2>1 DEF CanTake
    <3>4. i # j
      BY <3>1, <3>2, <3>3
    <3>5. \A b \in DOMAIN at : at[b].intent = i => b = a
      BY <1>2, <1>3, <3>1, <3>4
    <3> QED BY <2>1, <2>3, <2>4, <3>1, <3>5 DEF MessageFits
  <2>7. DepositFits(it, at, a)
    BY <2>1, <2>2, <2>3, <2>4 DEF Fits, DepositFits
  <2>8. MovementFits(it, at, a)
    <3> SUFFICES ASSUME as[a].type = "inventory_movement" PROVE MovementFits(it, at, a)
      BY <2>4 DEF MovementFits
    <3>1. /\ is[i].method = "inventory" /\ as[a].msg = 0
          /\ as[a].status = "in_progress" => Deposited(as, i) < is[i].amount
      BY <2>1, <2>2 DEF Fits, MovementFits
    <3>2. as[a].status = "in_progress" /\ x.type = "inventory_deposit" => i # j
      BY <1>3, <2>1 DEF CanTake
    <3>3. as[a].status = "in_progress" => Deposited(at, i) = Deposited(as, i)
      BY <1>4, <1>5, <3>2
    <3> QED BY <2>1, <2>3, <2>4, <3>1, <3>3 DEF MovementFits
  <2> QED BY <2>1, <2>4, <2>5, <2>6, <2>7, <2>8 DEF Fits
<1>9. Fits(it, at, n)
  <2>1. /\ at[n].status = "in_progress" /\ at[n].intent = j /\ it[j].status = "in_progress"
        /\ it[j].amount = is[j].amount /\ it[j].method = is[j].method
    BY <1>2, <1>3 DEF CanTake, Creates, KeepsIntents
  <2>2. MessageFits(it, at, n)
    BY <1>2, <1>3, <2>1 DEF MessageFits, CanTake
  <2>3. DepositFits(it, at, n)
    BY <1>2, <1>3, <2>1 DEF DepositFits, CanTake
  <2>4. MovementFits(it, at, n)
    <3>1. x.type = "inventory_movement" => Deposited(at, j) = Deposited(as, j)
      BY <1>4, <1>5
    <3> QED BY <1>2, <1>3, <2>1, <3>1 DEF MovementFits, CanTake
  <2> QED BY <2>1, <2>2, <2>3, <2>4 DEF Fits
<1>10. ASSUME NEW i \in DOMAIN it PROVE Deposited(at, i) <= it[i].amount
  <2>1. it[i].amount = is[i].amount /\ Deposited(as, i) <= is[i].amount
    BY <1>0 DEF KeepsIntents, StoreInv
  <2>2. CASE x.type = "inventory_deposit" /\ j = i
    BY <1>3, <1>4, <2>1, <2>2 DEF CanTake
  <2>3. CASE ~(x.type = "inventory_deposit" /\ j = i)
    BY <1>4, <1>5, <2>1, <2>3
  <2> QED BY <2>2, <2>3
<1>11. KeepsActions(as, at)
  BY <1>2 DEF KeepsActions
<1> QED BY <1>2, <1>7, <1>8, <1>9, <1>10, <1>11 DEF StoreInv

-----------------------------------------------------------------------------
(* The tracker's operations *)

\* A sequence of elements of U.
LEMMA Mapped ==
  ASSUME NEW U, NEW n \in Nat, NEW q, DOMAIN q = 1..n, q = [k \in DOMAIN q |-> q[k]],
         \A k \in 1..n : q[k] \in U
  PROVE  q \in Seq(U)
OBVIOUS

\* Once the completed deposits and messages of an intent cover it, nothing is
\* in progress for it any more.
LEMMA FulfilledRests ==
  ASSUME NEW is, NEW as, StoreInv(is, as), NEW at \in Seq(ActionSet), KeepsActions(as, at),
         DOMAIN at = DOMAIN as, NEW i \in DOMAIN is,
         getCompletedAmountForIntent(at, i) >= is[i].amount,
         NEW b \in DOMAIN as, as[b].intent = i, as[b].status = "in_progress"
  PROVE  at[b].status # "in_progress"
<1> SUFFICES ASSUME at[b].status = "in_progress" PROVE FALSE
  OBVIOUS
<1>0. is \in Seq(IntentSet) /\ as \in Seq(ActionSet)
  BY DEF StoreInv, Typed
<1>1. PICK C : C = ActionsWith(at, i, {"inventory_deposit", "rebalance_message"}, "complete")
  OBVIOUS
<1>2. /\ C \subseteq DOMAIN at /\ b \notin C
      /\ \A c \in C : /\ at[c].intent = i /\ as[c].intent = i
                      /\ at[c].type \in {"inventory_deposit", "rebalance_message"}
                      /\ as[c].type = at[c].type
  BY <1>1 DEF ActionsWith, KeepsActions
<1>3. IsFiniteSet(C) /\ \A c \in C : at[c].amount \in Nat
  BY <1>2, ActionAmounts
<1>4. PICK n \in Nat : n = is[i].amount /\ n > 0
  <2>1. is[i] \in IntentSet
    BY <1>0
  <2> QED BY <2>1 DEF IntentSet
<1>5. AmountOf(at, C) \in Nat /\ AmountOf(at, C) >= n
  BY <1>1, <1>3, <1>4, AmountFacts DEF getCompletedAmountForIntent
<1>6. Fits(is, as, b)
  BY DEF StoreInv
<1>7. as[b].type \in {"rebalance_message", "inventory_deposit", "inventory_movement"}
  <2>1. as[b] \in ActionSet
    BY <1>0, ElementOf
  <2> QED BY <2>1 DEF ActionSet
<1>8. CASE as[b].type = "rebalance_message"
  <2>1. \A c \in DOMAIN as : as[c].intent = i => c = b
    BY <1>6, <1>8 DEF Fits, MessageFits
  <2>2. C = {}
    BY <1>2, <2>1
  <2>3. AmountOf(at, C) = 0
    BY <1>3, <2>2, AmountFacts
  <2> QED BY <1>4, <1>5, <2>3
<1>9. CASE as[b].type # "rebalance_message"
  <2>1. is[i].method = "inventory"
    BY <1>6, <1>7, <1>9 DEF Fits, DepositFits, MovementFits
  <2>2. ASSUME NEW c \in C PROVE c \in DepositsOf(at, i)
    <3>1. as[c].type # "rebalance_message"
      BY <1>2, <2>1 DEF StoreInv, Fits, MessageFits
    <3> QED BY <1>2, <3>1 DEF DepositsOf
  <2>3. PICK S : S = DepositsOf(at, i)
    OBVIOUS
  <2>4. /\ S \subseteq DOMAIN at /\ C \subseteq S /\ Deposited(at, i) = AmountOf(at, S)
        /\ Deposited(as, i) = Deposited(at, i)
    <3>1. S \subseteq DOMAIN at /\ C \subseteq S
      BY <2>2, <2>3 DEF DepositsOf
    <3>2. Deposited(at, i) = AmountOf(at, S)
      BY <2>3 DEF Deposited
    <3>3. Deposited(at, i) = Deposited(as, i)
      BY <1>0, SameDeposits
    <3> QED BY <3>1, <3>2, <3>3
  <2>5. IsFiniteSet(S) /\ \A c \in S : at[c].amount \in Nat /\ at[c].amount > 0
    BY <2>4, ActionAmounts
  <2>6. Deposited(at, i) <= n
    BY <1>4, <2>4 DEF StoreInv
  <2>7. CASE as[b].type = "inventory_movement"
    <3>1. Deposited(at, i) < n
      BY <1>4, <1>6, <2>4, <2>7 DEF Fits, MovementFits
    <3>2. AmountOf(at, C) <= AmountOf(at, S) /\ AmountOf(at, S) \in Nat
      BY <2>4, <2>5, AmountPart, AmountFacts
    <3> QED BY <1>5, <2>4, <3>1, <3>2
  <2>8. CASE as[b].type = "inventory_deposit"
    <3>1. b \in S
      BY <2>3, <2>8 DEF DepositsOf, KeepsActions
    <3>2. AmountOf(at, S) = at[b].amount + AmountOf(at, S \ {b})
      BY <2>5, <3>1, AmountFacts
    <3>3. PICK T : T = S \ {b}
      OBVIOUS
    <3>4. IsFiniteSet(T) /\ C \subseteq T /\ \A c \in T : at[c].amount \in Nat
      BY <1>2, <2>4, <2>5, <3>3, FS_Subset
    <3>5. AmountOf(at, C) <= AmountOf(at, T) /\ AmountOf(at, T) \in Nat
      BY <3>4, AmountPart, AmountFacts
    <3>6. PICK v \in Nat : v = at[b].amount /\ v > 0
      BY <2>5, <3>1
    <3>7. Deposited(at, i) = v + AmountOf(at, T)
      BY <2>4, <3>2, <3>3, <3>6
    <3> QED BY <1>5, <2>6, <3>5, <3>6, <3>7
  <2> QED BY <1>7, <1>9, <2>7, <2>8
<1> QED BY <1>8, <1>9

\* The same intent, the same action, in another state.
AsIntent(x, y) == y \in IntentSet /\ y.amount = x.amount /\ y.method = x.method
AsAction(x, y) == /\ y \in ActionSet /\ y.type = x.type /\ y.intent = x.intent
                  /\ y.msg = x.msg /\ y.move = x.move /\ y.amount = x.amount

\* A new status leaves an intent what it is.
LEMMA IntentStatus ==
  ASSUME NEW x \in IntentSet, NEW st \in Statuses, NEW y, y = [x EXCEPT !.status = st]
  PROVE  AsIntent(x, y) /\ y.status = st /\ y.origin = x.origin /\ y.destination = x.destination
BY DEF IntentSet, AsIntent

\* A new status leaves an action what it is.
LEMMA ActionStatus ==
  ASSUME NEW x \in ActionSet, NEW st \in {"in_progress", "complete", "failed"},
         NEW y, y = [x EXCEPT !.status = st]
  PROVE  AsAction(x, y) /\ y.status = st
BY DEF ActionSet, AsAction

\* Intents that stay what they are.
LEMMA IntentsKept ==
  ASSUME NEW is \in Seq(IntentSet), NEW it, it = [i \in DOMAIN is |-> it[i]],
         \A i \in DOMAIN is : AsIntent(is[i], it[i])
  PROVE  it \in Seq(IntentSet) /\ DOMAIN it = DOMAIN is /\ KeepsIntents(is, it)
<1>1. DOMAIN it = 1..Len(is) /\ Len(is) \in Nat /\ DOMAIN is = 1..Len(is)
  OBVIOUS
<1>2. \A i \in DOMAIN is : it[i] \in IntentSet
  BY DEF AsIntent
<1>3. it \in Seq(IntentSet)
  BY <1>1, <1>2
<1>4. KeepsIntents(is, it)
  BY <1>1 DEF KeepsIntents, AsIntent
<1> QED BY <1>1, <1>3, <1>4

\* Actions that stay what they are.
LEMMA ActionsKept ==
  ASSUME NEW as \in Seq(ActionSet), NEW at, at = [a \in DOMAIN as |-> at[a]],
         \A a \in DOMAIN as : AsAction(as[a], at[a])
  PROVE  at \in Seq(ActionSet) /\ DOMAIN at = DOMAIN as /\ KeepsActions(as, at)
<1>1. DOMAIN at = 1..Len(as) /\ Len(as) \in Nat /\ DOMAIN as = 1..Len(as)
  OBVIOUS
<1>2. \A a \in DOMAIN as : at[a] \in ActionSet
  BY DEF AsAction
<1>3. at \in Seq(ActionSet)
  BY <1>1, <1>2
<1>4. KeepsActions(as, at)
  BY <1>1 DEF KeepsActions, AsAction
<1> QED BY <1>1, <1>3, <1>4

\* The actions of S complete, and the intents that they fulfil.
Completes(is, as, S, it, at) ==
  /\ \A a \in DOMAIN as : at[a].status = IF a \in S THEN "complete" ELSE as[a].status
  /\ \A i \in DOMAIN is : it[i] # is[i] => /\ it[i].status = "complete"
                                           /\ \E a \in S : as[a].intent = i

\* completeRebalanceAction ends actions in progress, and their intents.
LEMMA CompleteDoes ==
  ASSUME NEW s, NEW is, NEW as, is = s.intents, as = s.actions, StoreInv(is, as),
         NEW S, S \subseteq DOMAIN as, \A a \in S : as[a].status = "in_progress",
         NEW t, t = completeRebalanceActions(s, S)
  PROVE  /\ t.intents \in Seq(IntentSet) /\ t.actions \in Seq(ActionSet)
         /\ Ends(is, as, t.intents, t.actions) /\ Completes(is, as, S, t.intents, t.actions)
<1>0. is \in Seq(IntentSet) /\ as \in Seq(ActionSet) /\ \A a \in DOMAIN as : as[a].intent \in DOMAIN is
  BY DEF StoreInv, Typed
<1>1. PICK at : at = [a \in DOMAIN as |-> IF a \in S THEN [as[a] EXCEPT !.status = "complete"]
                                          ELSE as[a]]
  OBVIOUS
<1> DEFINE fulfilled(i) == /\ \E a \in S : at[a].intent = i
                           /\ getCompletedAmountForIntent(at, i) >= is[i].amount
<1>2. PICK it : it = [i \in DOMAIN is |-> IF fulfilled(i) THEN [is[i] EXCEPT !.status = "complete"]
                                          ELSE is[i]]
  OBVIOUS
<1>3. t.actions = at /\ t.intents = it
  BY <1>1, <1>2 DEF completeRebalanceActions
<1>4. ASSUME NEW a \in DOMAIN as
      PROVE  /\ AsAction(as[a], at[a])
             /\ at[a].status = IF a \in S THEN "complete" ELSE as[a].status
  <2>1. as[a] \in ActionSet
    BY <1>0, ElementOf
  <2>2. CASE a \in S
    BY <1>1, <2>1, <2>2, ActionStatus
  <2>3. CASE a \notin S
    BY <1>1, <2>1, <2>3 DEF AsAction
  <2> QED BY <2>2, <2>3
<1>5. at \in Seq(ActionSet) /\ DOMAIN at = DOMAIN as /\ KeepsActions(as, at)
  <2>1. at = [a \in DOMAIN as |-> at[a]]
    BY <1>1
  <2> QED BY <1>0, <1>4, <2>1, ActionsKept
<1>6. ASSUME NEW i \in DOMAIN is
      PROVE  /\ AsIntent(is[i], it[i])
             /\ it[i] # is[i] \/ it[i].status # is[i].status => fulfilled(i)
             /\ fulfilled(i) => it[i].status = "complete"
  <2>1. is[i] \in IntentSet
    BY <1>0, ElementOf
  <2>2. CASE fulfilled(i)
    BY <1>2, <2>1, <2>2, IntentStatus DEF Statuses
  <2>3. CASE ~fulfilled(i)
    BY <1>2, <2>1, <2>3 DEF AsIntent
  <2> QED BY <2>2, <2>3
<1>7. it \in Seq(IntentSet) /\ DOMAIN it = DOMAIN is /\ KeepsIntents(is, it)
  <2>1. it = [i \in DOMAIN is |-> it[i]]
    BY <1>2
  <2> HIDE DEF fulfilled
  <2> QED BY <1>0, <1>6, <2>1, IntentsKept
<1>8. ASSUME NEW a \in DOMAIN as, at[a].status # as[a].status
      PROVE  /\ as[a].status = "in_progress" /\ at[a].status = "complete"
             /\ as[a].type = "rebalance_message" => it[as[a].intent].status = "complete"
  <2>1. a \in S /\ as[a].status = "in_progress" /\ at[a].status = "complete"
    BY <1>4, <1>8
  <2>2. ASSUME as[a].type = "rebalance_message" PROVE it[as[a].intent].status = "complete"
    <3>1. PICK i \in DOMAIN is : i = as[a].intent
      BY <1>0
    <3>2. PICK C : C = ActionsWith(at, i, {"inventory_deposit", "rebalance_message"}, "complete")
      OBVIOUS
    <3>3. C \subseteq DOMAIN at /\ a \in C
      BY <1>5, <2>1, <2>2, <3>1, <3>2 DEF ActionsWith, KeepsActions
    <3>4. IsFiniteSet(C) /\ \A c \in C : at[c].amount \in Nat
      BY <1>5, <3>3, ActionAmounts
    <3>5. AmountOf(at, C) = at[a].amount + AmountOf(at, C \ {a})
      BY <3>3, <3>4, AmountFacts
    <3>6. AmountOf(at, C \ {a}) \in Nat
      <4>1. IsFiniteSet(C \ {a}) /\ \A c \in C \ {a} : at[c].amount \in Nat
        BY <3>4, FS_Subset
      <4> QED BY <4>1, AmountFacts
    <3>7. PICK v \in Nat : v = at[a].amount /\ v = is[i].amount
      <4>1. at[a].amount \in Nat /\ at[a].amount = as[a].amount
        BY <1>5, <3>3, <3>4 DEF KeepsActions
      <4>2. as[a].amount = is[i].amount
        BY <2>2, <3>1 DEF StoreInv, Fits, MessageFits
      <4> QED BY <4>1, <4>2
    <3>8. AmountOf(at, C) >= v
      BY <3>5, <3>6, <3>7
    <3>9. fulfilled(i)
      <4>1. at[a].intent = i
        BY <1>5, <3>1 DEF KeepsActions
      <4> QED BY <2>1, <3>2, <3>7, <3>8, <4>1 DEF getCompletedAmountForIntent
    <3> QED BY <1>6, <3>1, <3>9
  <2> QED BY <2>1, <2>2
<1>9. ASSUME NEW i \in DOMAIN is, fulfilled(i)
      PROVE  /\ is[i].status = "in_progress" /\ \E a \in S : as[a].intent = i
             /\ \A a \in DOMAIN as : as[a].intent = i => at[a].status # "in_progress"
  <2>1. PICK a \in S : as[a].intent = i /\ as[a].status = "in_progress"
    BY <1>5, <1>9 DEF KeepsActions
  <2>2. is[i].status = "in_progress"
    BY <2>1 DEF StoreInv, Fits
  <2>3. ASSUME NEW b \in DOMAIN as, as[b].intent = i PROVE at[b].status # "in_progress"
    <3>1. getCompletedAmountForIntent(at, i) >= is[i].amount
      BY <1>9
    <3> HIDE DEF fulfilled
    <3>2. CASE as[b].status = "in_progress"
      BY <1>5, <2>3, <3>1, <3>2, FulfilledRests
    <3>3. CASE as[b].status # "in_progress"
      BY <1>4, <3>3
    <3> QED BY <3>2, <3>3
  <2> QED BY <2>1, <2>2, <2>3
<1> HIDE DEF fulfilled
<1>10. Completes(is, as, S, it, at)
  BY <1>4, <1>6, <1>9 DEF Completes
<1>11. Ends(is, as, it, at)
  <2>1. ASSUME NEW i \in DOMAIN is, it[i].status # is[i].status
        PROVE  /\ is[i].status \in {"not_started", "in_progress"}
               /\ \A a \in DOMAIN as : as[a].intent = i => at[a].status # "in_progress"
    BY <1>6, <1>9, <2>1
  <2>2. ASSUME NEW a \in DOMAIN as, at[a].status # as[a].status
        PROVE  /\ as[a].status = "in_progress"
               /\ as[a].type = "rebalance_message" /\ at[a].status = "complete" =>
                    it[as[a].intent].status = "complete"
               /\ as[a].type = "inventory_deposit" /\ at[a].status = "failed" =>
                    it[as[a].intent].status = "failed"
    BY <1>8, <2>2
  <2> QED BY <1>5, <1>7, <2>1, <2>2 DEF Ends
<1> QED BY <1>3, <1>5, <1>7, <1>10, <1>11

\* syncRebalanceIntents ends intents that are fulfilled, and those that
\* outlived their TTL together with their actions.
LEMMA SyncIntentsDoes ==
  ASSUME NEW s, NEW is, NEW as, is = s.intents, as = s.actions, StoreInv(is, as),
         NEW t, t = syncRebalanceIntents(s)
  PROVE  /\ t.intents \in Seq(IntentSet) /\ t.actions \in Seq(ActionSet)
         /\ Ends(is, as, t.intents, t.actions)
         /\ \A a \in DOMAIN as : t.actions[a].status = "complete" => as[a].status = "complete"
<1>0. is \in Seq(IntentSet) /\ as \in Seq(ActionSet) /\ \A a \in DOMAIN as : as[a].intent \in DOMAIN is
  BY DEF StoreInv, Typed
<1> DEFINE fulfilled(i) == getCompletedAmountForIntent(as, i) >= is[i].amount
           expired(i) == is[i].status = "in_progress" /\ ~fulfilled(i) /\ is[i].old
<1>1. PICK at : at = [a \in DOMAIN as |->
                        IF as[a].status = "in_progress" /\ expired(as[a].intent)
                        THEN [as[a] EXCEPT !.status = "failed"] ELSE as[a]]
  OBVIOUS
<1>2. PICK it : it = [i \in DOMAIN is |->
                        CASE expired(i) -> [is[i] EXCEPT !.status = "failed"]
                          [] is[i].status = "in_progress" /\ fulfilled(i) ->
                               [is[i] EXCEPT !.status = "complete"]
                          [] OTHER -> is[i]]
  OBVIOUS
<1>3. t.actions = at /\ t.intents = it
  BY <1>1, <1>2 DEF syncRebalanceIntents
<1>4. ASSUME NEW a \in DOMAIN as
      PROVE  /\ AsAction(as[a], at[a])
             /\ at[a].status = IF as[a].status = "in_progress" /\ expired(as[a].intent)
                               THEN "failed" ELSE as[a].status
  <2>1. as[a] \in ActionSet
    BY <1>0, ElementOf
  <2> HIDE DEF expired
  <2>2. CASE as[a].status = "in_progress" /\ expired(as[a].intent)
    BY <1>1, <2>1, <2>2, ActionStatus
  <2>3. CASE ~(as[a].status = "in_progress" /\ expired(as[a].intent))
    BY <1>1, <2>1, <2>3 DEF AsAction
  <2> QED BY <2>2, <2>3
<1>5. at \in Seq(ActionSet) /\ DOMAIN at = DOMAIN as /\ KeepsActions(as, at)
  <2> HIDE DEF expired
  <2>1. at = [a \in DOMAIN as |-> at[a]]
    BY <1>1
  <2> QED BY <1>0, <1>4, <2>1, ActionsKept
<1>6. ASSUME NEW i \in DOMAIN is
      PROVE  /\ AsIntent(is[i], it[i])
             /\ expired(i) => it[i].status = "failed"
             /\ it[i].status # is[i].status =>
                  /\ is[i].status = "in_progress"
                  /\ ~expired(i) => fulfilled(i)
  <2>1. is[i] \in IntentSet
    BY <1>0, ElementOf
  <2>2. CASE expired(i)
    <3>1. it[i] = [is[i] EXCEPT !.status = "failed"] /\ is[i].status = "in_progress"
      BY <1>2, <2>2
    <3> HIDE DEF expired, fulfilled
    <3> QED BY <2>1, <2>2, <3>1, IntentStatus DEF Statuses
  <2>3. CASE ~expired(i) /\ is[i].status = "in_progress" /\ fulfilled(i)
    <3>1. it[i] = [is[i] EXCEPT !.status = "complete"]
      BY <1>2, <2>3
    <3> HIDE DEF expired, fulfilled
    <3> QED BY <2>1, <2>3, <3>1, IntentStatus DEF Statuses
  <2>4. CASE ~expired(i) /\ ~(is[i].status = "in_progress" /\ fulfilled(i))
    <3>1. it[i] = is[i]
      BY <1>2, <2>4
    <3> HIDE DEF expired, fulfilled
    <3> QED BY <2>1, <2>4, <3>1 DEF AsIntent
  <2> QED BY <2>2, <2>3, <2>4
<1>7. it \in Seq(IntentSet) /\ DOMAIN it = DOMAIN is /\ KeepsIntents(is, it)
  <2>1. it = [i \in DOMAIN is |-> it[i]]
    BY <1>2
  <2> HIDE DEF fulfilled, expired
  <2> QED BY <1>0, <1>6, <2>1, IntentsKept
<1>8. \A i \in DOMAIN is : fulfilled(i) => getCompletedAmountForIntent(as, i) >= is[i].amount
  OBVIOUS
<1> HIDE DEF fulfilled, expired
<1>9. ASSUME NEW i \in DOMAIN is, it[i].status # is[i].status
      PROVE  /\ is[i].status \in {"not_started", "in_progress"}
             /\ \A a \in DOMAIN as : as[a].intent = i => at[a].status # "in_progress"
  <2>1. is[i].status = "in_progress" /\ (~expired(i) => fulfilled(i))
    BY <1>6, <1>9
  <2>2. ASSUME NEW a \in DOMAIN as, as[a].intent = i PROVE at[a].status # "in_progress"
    <3>1. CASE expired(i)
      BY <1>4, <2>2, <3>1
    <3>2. CASE ~expired(i)
      <4>1. KeepsActions(as, as)
        BY DEF KeepsActions
      <4>2. getCompletedAmountForIntent(as, i) >= is[i].amount
        BY <1>8, <2>1, <3>2
      <4>3. as[a].status # "in_progress"
        BY <1>0, <2>2, <4>1, <4>2, FulfilledRests
      <4> QED BY <1>4, <4>3
    <3> QED BY <3>1, <3>2
  <2> QED BY <2>1, <2>2
<1>10. ASSUME NEW a \in DOMAIN as, at[a].status # as[a].status
       PROVE  /\ as[a].status = "in_progress" /\ at[a].status = "failed"
              /\ it[as[a].intent].status = "failed"
  <2>1. as[a].status = "in_progress" /\ expired(as[a].intent)
    BY <1>4, <1>10
  <2> QED BY <1>0, <1>4, <1>6, <2>1
<1>11. Ends(is, as, it, at)
  BY <1>5, <1>7, <1>9, <1>10 DEF Ends
<1>12. \A a \in DOMAIN as : at[a].status = "complete" => as[a].status = "complete"
  BY <1>10
<1> QED BY <1>3, <1>5, <1>7, <1>11, <1>12

\* The movements in progress of the intents that nothing blocks fail.
FailsStale(is, as, at) ==
  \A a \in DOMAIN as :
    at[a].status = IF \E i \in Unblocked(is, as) : a \in InflightMovements(as, i)
                   THEN "failed" ELSE as[a].status

\* failStaleMovements ends movements.
LEMMA FailStaleDoes ==
  ASSUME NEW is, NEW as, StoreInv(is, as), NEW at, at = failStaleMovements(is, as)
  PROVE  /\ at \in Seq(ActionSet) /\ Ends(is, as, is, at) /\ FailsStale(is, as, at)
<1>0. is \in Seq(IntentSet) /\ as \in Seq(ActionSet) /\ \A a \in DOMAIN as : as[a].intent \in DOMAIN is
  BY DEF StoreInv, Typed
<1> DEFINE stale(a) == \E i \in Unblocked(is, as) : a \in InflightMovements(as, i)
<1>1. at = [a \in DOMAIN as |-> IF stale(a) THEN [as[a] EXCEPT !.status = "failed"] ELSE as[a]]
  BY DEF failStaleMovements
<1>2. \A a \in DOMAIN as : stale(a) => as[a].status = "in_progress"
                                       /\ as[a].type = "inventory_movement"
  BY DEF InflightMovements, ActionsWith
<1> HIDE DEF stale
<1>3. ASSUME NEW a \in DOMAIN as
      PROVE  /\ AsAction(as[a], at[a])
             /\ at[a].status = IF stale(a) THEN "failed" ELSE as[a].status
  <2>1. as[a] \in ActionSet
    BY <1>0, ElementOf
  <2>2. CASE stale(a)
    BY <1>1, <2>1, <2>2, ActionStatus
  <2>3. CASE ~stale(a)
    BY <1>1, <2>1, <2>3 DEF AsAction
  <2> QED BY <2>2, <2>3
<1>4. at \in Seq(ActionSet) /\ DOMAIN at = DOMAIN as /\ KeepsActions(as, at)
  <2>1. at = [a \in DOMAIN as |-> at[a]]
    BY <1>1
  <2> QED BY <1>0, <1>3, <2>1, ActionsKept
<1>5. Ends(is, as, is, at)
  BY <1>2, <1>3, <1>4 DEF Ends, KeepsIntents
<1> QED BY <1>3, <1>4, <1>5 DEF stale, FailsStale

\* syncInventoryMovementActions ends movements; no intent ends with one, since
\* its deposits do not cover it yet.
LEMMA SyncMovementsDoes ==
  ASSUME NEW s, NEW is, NEW as, is = s.intents, as = s.actions, StoreInv(is, as), NEW answer,
         NEW t, t = syncInventoryMovementActions(s, answer)
  PROVE  /\ t.intents \in Seq(IntentSet) /\ t.actions \in Seq(ActionSet)
         /\ Ends(is, as, t.intents, t.actions)
         /\ \A a \in DOMAIN as : t.actions[a].status # as[a].status =>
                                   as[a].type = "inventory_movement"
<1>0. is \in Seq(IntentSet) /\ as \in Seq(ActionSet) /\ \A a \in DOMAIN as : as[a].intent \in DOMAIN is
  BY DEF StoreInv, Typed
<1>1. PICK moving : moving = {a \in DOMAIN as : /\ as[a].type = "inventory_movement"
                                                /\ as[a].status = "in_progress"}
  OBVIOUS
<1> DEFINE says(a) == IF a \in moving THEN answer[as[a].move] ELSE "error"
<1>2. PICK S : S = {a \in moving : says(a) = "complete"}
  OBVIOUS
<1>3. PICK done : done = completeRebalanceActions(s, S)
  OBVIOUS
<1>4. /\ S \subseteq DOMAIN as /\ \A a \in S : as[a].status = "in_progress"
      /\ \A a \in S : as[a].type = "inventory_movement" /\ says(a) = "complete"
  BY <1>1, <1>2
<1>5. /\ done.intents \in Seq(IntentSet) /\ done.actions \in Seq(ActionSet)
      /\ Ends(is, as, done.intents, done.actions)
      /\ Completes(is, as, S, done.intents, done.actions)
  <2>1. S \subseteq DOMAIN as /\ \A a \in S : as[a].status = "in_progress"
    BY <1>4
  <2> QED BY <1>3, <2>1, CompleteDoes
<1> DEFINE new(a) == CASE says(a) = "failed" -> [as[a] EXCEPT !.status = "failed"]
                       [] says(a) = "pending" ->
                            [as[a] EXCEPT !.bridgeStatus = "pending", !.stale = FALSE]
                       [] says(a) = "not_found" ->
                            [as[a] EXCEPT !.bridgeStatus = "not_found",
                                          !.stale = /\ as[a].stale
                                                    /\ as[a].bridgeStatus = "not_found"]
                       [] OTHER -> done.actions[a]
<1>6. PICK at : at = [a \in DOMAIN as |-> new(a)]
  OBVIOUS
<1>7. t = [intents |-> done.intents, actions |-> at]
  BY <1>1, <1>2, <1>3, <1>6 DEF syncInventoryMovementActions
<1>8. \A a \in DOMAIN as : a \notin moving => says(a) = "error"
  OBVIOUS
<1>9. \A a \in DOMAIN as : at[a] = new(a)
  BY <1>6
<1>10. \A a \in DOMAIN as : a \in S <=> a \in moving /\ says(a) = "complete"
  BY <1>2
<1> HIDE DEF says
<1>11. ASSUME NEW a \in DOMAIN as
       PROVE  /\ AsAction(as[a], at[a])
              /\ at[a].status = as[a].status
                 \/ (a \in moving /\ at[a].status = "failed")
                 \/ (a \in moving /\ at[a].status = done.actions[a].status)
              /\ at[a].status = "in_progress" => done.actions[a].status = "in_progress"
  <2>1. as[a] \in ActionSet
    BY <1>0, ElementOf
  <2>2. done.actions[a].status = IF a \in S THEN "complete" ELSE as[a].status
    BY <1>5 DEF Completes
  <2>3. CASE says(a) = "failed"
    <3>1. at[a] = [as[a] EXCEPT !.status = "failed"] /\ a \in moving
      BY <1>8, <1>9, <2>3
    <3> QED BY <2>1, <3>1, ActionStatus
  <2>4. CASE says(a) = "pending"
    <3>1. at[a] = [as[a] EXCEPT !.bridgeStatus = "pending", !.stale = FALSE]
      BY <1>9, <2>4
    <3>2. AsAction(as[a], at[a]) /\ at[a].status = as[a].status
      BY <2>1, <3>1 DEF AsAction, ActionSet
    <3>3. a \notin S
      BY <1>10, <2>4
    <3> QED BY <2>2, <3>2, <3>3
  <2>5. CASE says(a) = "not_found"
    <3>1. PICK st \in BOOLEAN : st = (as[a].stale /\ as[a].bridgeStatus = "not_found")
      OBVIOUS
    <3>2. at[a] = [as[a] EXCEPT !.bridgeStatus = "not_found", !.stale = st]
      BY <1>9, <2>5, <3>1
    <3>3. AsAction(as[a], at[a]) /\ at[a].status = as[a].status
      BY <2>1, <3>2 DEF AsAction, ActionSet
    <3>4. a \notin S
      BY <1>10, <2>5
    <3> QED BY <2>2, <3>3, <3>4
  <2>6. CASE says(a) \notin {"failed", "pending", "not_found"}
    <3>1. at[a] = done.actions[a]
      BY <1>9, <2>6
    <3>2. AsAction(as[a], at[a])
      <4>1. a \in DOMAIN done.actions
        BY <1>5 DEF Ends
      <4>2. done.actions[a] \in ActionSet
        BY <1>5, <4>1, ElementOf
      <4> QED BY <1>5, <3>1, <4>2 DEF Ends, KeepsActions, AsAction
    <3>3. a \in S => a \in moving
      BY <1>10
    <3> QED BY <2>2, <3>1, <3>2, <3>3
  <2> QED BY <2>3, <2>4, <2>5, <2>6
<1> HIDE DEF new
<1>12. at \in Seq(ActionSet) /\ DOMAIN at = DOMAIN as /\ KeepsActions(as, at)
  <2>1. at = [a \in DOMAIN as |-> at[a]]
    BY <1>6
  <2> QED BY <1>0, <1>11, <2>1, ActionsKept
<1>13. ASSUME NEW a \in DOMAIN as, at[a].status # as[a].status
       PROVE  as[a].type = "inventory_movement" /\ as[a].status = "in_progress"
  BY <1>1, <1>11, <1>13
<1>14. Ends(is, as, done.intents, at)
  <2>1. KeepsIntents(is, done.intents) /\ DOMAIN done.intents = DOMAIN is
    BY <1>5 DEF Ends
  <2>2. ASSUME NEW i \in DOMAIN is, done.intents[i].status # is[i].status
        PROVE  /\ is[i].status \in {"not_started", "in_progress"}
               /\ \A a \in DOMAIN as : as[a].intent = i => at[a].status # "in_progress"
    BY <1>5, <1>11, <2>2 DEF Ends
  <2> QED BY <1>12, <1>13, <2>1, <2>2 DEF Ends
<1> QED BY <1>5, <1>7, <1>12, <1>13, <1>14

\* createRebalanceAction creates the action.
LEMMA CreateDoes ==
  ASSUME NEW s, NEW is, NEW as, is = s.intents, as = s.actions, StoreInv(is, as),
         NEW x, CanTake(is, as, x), NEW t, t = createRebalanceAction(s, x)
  PROVE  Creates(is, as, x, t.intents, t.actions)
<1>0. is \in Seq(IntentSet)
  BY DEF StoreInv, Typed
<1>1. PICK j \in DOMAIN is : j = x.intent
  BY DEF CanTake
<1>2. is[j] \in IntentSet /\ is[j].status \in {"not_started", "in_progress"}
  BY <1>0, <1>1, ElementOf DEF CanTake
<1>3. t.actions = Append(as, x)
  BY DEF createRebalanceAction
<1>4. PICK it : it = t.intents
  OBVIOUS
<1>5. CASE is[j].status = "not_started"
  <2>1. PICK y : y = [is[j] EXCEPT !.status = "in_progress"]
    OBVIOUS
  <2>2. AsIntent(is[j], y) /\ y.status = "in_progress"
    BY <1>2, <2>1, IntentStatus DEF Statuses
  <2>3. it = [is EXCEPT ![j] = y]
    BY <1>1, <1>4, <1>5, <2>1 DEF createRebalanceAction
  <2>4. /\ it \in Seq(IntentSet) /\ DOMAIN it = DOMAIN is /\ it[j] = y
        /\ \A i \in DOMAIN is : i # j => it[i] = is[i]
    BY <1>0, <2>2, <2>3 DEF AsIntent
  <2> QED BY <1>1, <1>3, <1>4, <1>5, <2>2, <2>4 DEF Creates, KeepsIntents, AsIntent
<1>6. CASE is[j].status # "not_started"
  <2>1. it = is
    BY <1>1, <1>4, <1>6 DEF createRebalanceAction
  <2> QED BY <1>0, <1>1, <1>2, <1>3, <1>4, <1>6, <2>1 DEF Creates, KeepsIntents
<1> QED BY <1>5, <1>6

\* The sequence of a finite set has its elements, each once.
LEMMA SequenceOf ==
  ASSUME NEW S, IsFiniteSet(S), NEW q, q = SetToSeq(S)
  PROVE  /\ q \in Seq(S) /\ \A j, k \in DOMAIN q : j # k => q[j] # q[k]
<1>1. PICK n \in Nat : n = Cardinality(S)
  BY FS_CardinalityType
<1>2. ExistsBijection(1..n, S)
  BY <1>1, FS_CardinalityType
<1>3. PICK f \in [1..n -> S] : \A j, k \in DOMAIN f : f[j] = f[k] => j = k
  <2>1. PICK f \in Bijection(1..n, S) : TRUE
    BY <1>2 DEF ExistsBijection
  <2> QED BY <2>1 DEF Bijection, Injection, IsInjective
<1>4. q \in [1..n -> S] /\ \A j, k \in DOMAIN q : q[j] = q[k] => j = k
  BY <1>1, <1>3 DEF SetToSeq, IsInjective
<1>5. q \in Seq(S)
  BY <1>4
<1> QED BY <1>4, <1>5

StoreSet == [intents : Seq(IntentSet), actions : Seq(ActionSet)]

\* A pair of stores.
LEMMA StorePair ==
  ASSUME NEW it \in Seq(IntentSet), NEW at \in Seq(ActionSet)
  PROVE  [intents |-> it, actions |-> at] \in StoreSet
BY DEF StoreSet

\* The turns of the loop that recovers the messages the stores do not know.
RecoverLoop(ms, base, q) == FoldLeft(LAMBDA t, m : recoverAction(t, ms, m), base, q)

\* The messages are recovered one after the other.
LEMMA RecoveredInOrder ==
  ASSUME NEW n \in Nat, NEW q, DOMAIN q = 1..n, NEW D, NEW base \in D, NEW ms, NEW step,
         \A k \in 1..n, d \in D : step[k][d] = recoverAction(d, ms, q[k]) /\ step[k][d] \in D
  PROVE  \E r \in [0..n -> D] : Run(r, n, base, step, RecoverLoop(ms, base, q))
<1> DEFINE Loop(h) == [s \in SUBSET (1..n) |-> IF s = {} THEN base
                         ELSE recoverAction(h[s \ {Max(s)}], ms, q[Max(s)])]
<1>1. Closed(n, D, step)
  BY DEF Closed
<1>2. PICK h \in [SUBSET (1..n) -> D] : Loops(h, n, base, step)
  BY <1>1, LoopExists
<1>3. ASSUME NEW s \in SUBSET (1..n), s # {}
      PROVE  Max(s) \in 1..n /\ s \ {Max(s)} \in SUBSET (1..n)
  BY <1>3, LastPosition
<1>4. h = Loop(h)
  <2>1. ASSUME NEW s \in SUBSET (1..n) PROVE h[s] = Loop(h)[s]
    <3>1. CASE s = {}
      BY <1>2, <3>1 DEF Loops
    <3>2. CASE s # {}
      <4>1. h[s] = step[Max(s)][h[s \ {Max(s)}]]
        BY <1>2, <3>2 DEF Loops
      <4>2. h[s \ {Max(s)}] \in D
        BY <1>3, <3>2
      <4>3. h[s] = recoverAction(h[s \ {Max(s)}], ms, q[Max(s)])
        BY <1>3, <3>2, <4>1, <4>2
      <4> QED BY <3>2, <4>3
    <3> QED BY <3>1, <3>2
  <2> QED BY <2>1
<1>5. PICK f : f = Loop(f) /\ RecoverLoop(ms, base, q) = f[1..n]
  BY <1>4, ZenonT(30) DEF RecoverLoop, FoldLeft, MapThenFoldSet
<1>6. Turns(f, n, D, base, step)
  <2>1. f[{}] = base
    BY <1>5
  <2>2. ASSUME NEW s \in SUBSET (1..n), s # {}, f[s \ {Max(s)}] \in D
        PROVE  f[s] = step[Max(s)][f[s \ {Max(s)}]]
    <3>1. f[s] = recoverAction(f[s \ {Max(s)}], ms, q[Max(s)])
      BY <1>5, <2>2
    <3> QED BY <1>3, <2>2, <3>1
  <2> HIDE DEF Loop
  <2> QED BY <2>1, <2>2 DEF Turns
<1>7. \E r \in [0..n -> D] : Run(r, n, base, step, f[1..n])
  <2> HIDE DEF Loop
  <2> QED BY <1>1, <1>6, LoopRuns
<1> QED BY <1>5, <1>7

\* The messages of M, which the stores did not know, are recovered.
Recovers(is, as, M, it, at) ==
  /\ StoreInv(it, at)
  /\ DOMAIN is \subseteq DOMAIN it /\ \A i \in DOMAIN is : it[i] = is[i]
  /\ DOMAIN as \subseteq DOMAIN at /\ \A a \in DOMAIN as : at[a] = as[a]
  /\ \A a \in DOMAIN at \ DOMAIN as :
       /\ at[a].type = "rebalance_message" /\ at[a].status = "in_progress"
       /\ at[a].msg \in M /\ at[a].move = 0 /\ at[a].intent \notin DOMAIN is
       /\ \A b \in DOMAIN at \ DOMAIN as : a # b => at[a].msg # at[b].msg
  /\ \A i : Deposited(at, i) = Deposited(as, i)

\* A message that a rebalance was dispatched with.
Recoverable(ms, m) ==
  m \in Nat \ {0} /\ ms[m] \in MessageSet /\ ms[m].amount > 0

\* A new intent.
LEMMA IntentType ==
  ASSUME NEW o \in Chains, NEW d \in Chains, NEW v \in Nat \ {0},
         NEW method \in {"movable", "inventory"}, NEW bridge \in Bridges, NEW st \in Statuses,
         NEW y, y = Intent(o, d, v, method, bridge, st)
  PROVE  y \in IntentSet /\ y.status = st /\ y.method = method /\ y.amount = v
BY DEF Intent, IntentSet

\* recoverAction's intent and action.
LEMMA RecoverType ==
  ASSUME NEW ms, NEW m, Recoverable(ms, m), NEW n \in Nat,
         NEW y, y = Intent(ms[m].origin, ms[m].destination, ms[m].amount, "movable", "none",
                           "in_progress"),
         NEW x, x = Action("rebalance_message", n, m, 0, ms[m].amount)
  PROVE  /\ y \in IntentSet /\ y.status = "in_progress" /\ y.method = "movable"
         /\ x \in ActionSet /\ x.type = "rebalance_message" /\ x.status = "in_progress"
         /\ x.intent = n /\ x.msg = m /\ x.move = 0 /\ x.amount = y.amount
<1>1. PICK o \in Chains, d \in Chains, v \in Nat \ {0} :
        o = ms[m].origin /\ d = ms[m].destination /\ v = ms[m].amount
  BY DEF Recoverable, MessageSet
<1>2. m \in Nat
  BY DEF Recoverable
<1>3. y = Intent(o, d, v, "movable", "none", "in_progress")
  BY <1>1
<1>4. x = Action("rebalance_message", n, m, 0, v)
  BY <1>1
<1>5. /\ y \in IntentSet /\ y.status = "in_progress" /\ y.method = "movable" /\ y.amount = v
  <2>1. "none" \in Bridges
    BY DEF Bridges
  <2>2. "in_progress" \in Statuses /\ "movable" \in {"movable", "inventory"}
    BY DEF Statuses
  <2> QED BY <1>3, <2>1, <2>2, IntentType
<1>6. /\ x \in ActionSet /\ x.type = "rebalance_message" /\ x.status = "in_progress"
      /\ x.intent = n /\ x.msg = m /\ x.move = 0 /\ x.amount = v
  BY <1>2, <1>4 DEF Action, ActionSet
<1> QED BY <1>5, <1>6

\* recoverAction stays in the set of stores.
LEMMA RecoverInSet ==
  ASSUME NEW s \in StoreSet, NEW ms, NEW m, Recoverable(ms, m)
  PROVE  recoverAction(s, ms, m) \in StoreSet
<1>1. s.intents \in Seq(IntentSet) /\ s.actions \in Seq(ActionSet)
  BY DEF StoreSet
<1>2. PICK n \in Nat : n = Len(s.intents) + 1
  BY <1>1
<1>3. PICK y : y = Intent(ms[m].origin, ms[m].destination, ms[m].amount, "movable", "none",
                          "in_progress")
  OBVIOUS
<1>4. PICK x : x = Action("rebalance_message", n, m, 0, ms[m].amount)
  OBVIOUS
<1>5. y \in IntentSet /\ x \in ActionSet
  BY <1>3, <1>4, RecoverType
<1>6. recoverAction(s, ms, m) = [intents |-> Append(s.intents, y), actions |-> Append(s.actions, x)]
  BY <1>2, <1>3, <1>4 DEF recoverAction
<1> QED BY <1>1, <1>5, <1>6 DEF StoreSet

\* One turn of the loop: a further message is recovered.
LEMMA RecoverOne ==
  ASSUME NEW is, NEW as, StoreInv(is, as), NEW s, NEW M, Recovers(is, as, M, s.intents, s.actions),
         NEW ms, NEW m, Recoverable(ms, m), m \notin M, NEW t, t = recoverAction(s, ms, m)
  PROVE  Recovers(is, as, M \cup {m}, t.intents, t.actions)
<1>1. PICK iu, au : iu = s.intents /\ au = s.actions
  OBVIOUS
<1>2. /\ iu \in Seq(IntentSet) /\ au \in Seq(ActionSet) /\ StoreInv(iu, au)
      /\ Recovers(is, as, M, iu, au) /\ \A a \in DOMAIN au : au[a].intent \in DOMAIN iu
  BY <1>1 DEF Recovers, StoreInv, Typed
<1>3. PICK n \in Nat : n = Len(iu) + 1
  BY <1>2
<1>4. PICK y : y = Intent(ms[m].origin, ms[m].destination, ms[m].amount, "movable", "none",
                          "in_progress")
  OBVIOUS
<1>5. PICK x : x = Action("rebalance_message", n, m, 0, ms[m].amount)
  OBVIOUS
<1>6. /\ y \in IntentSet /\ y.status = "in_progress" /\ y.method = "movable"
      /\ x \in ActionSet /\ x.type = "rebalance_message" /\ x.status = "in_progress"
      /\ x.intent = n /\ x.msg = m /\ x.move = 0 /\ x.amount = y.amount
  BY <1>4, <1>5, RecoverType
<1>7. PICK it, at : it = Append(iu, y) /\ at = Append(au, x)
  OBVIOUS
<1>8. t.intents = it /\ t.actions = at
  BY <1>1, <1>3, <1>4, <1>5, <1>7 DEF recoverAction
<1>9. it \in Seq(IntentSet) /\ Longer(iu, y, it)
  BY <1>2, <1>6, <1>7, Appended, Zenon
<1>10. at \in Seq(ActionSet) /\ Longer(au, x, at)
  BY <1>2, <1>6, <1>7, Appended, Zenon
<1>11. /\ DOMAIN it = DOMAIN iu \cup {n} /\ n \notin DOMAIN iu /\ it[n] = y
       /\ \A i \in DOMAIN iu : it[i] = iu[i]
  BY <1>3, <1>9 DEF Longer
<1>12. /\ StoreInv(it, au) /\ \A i \in DOMAIN it \ DOMAIN iu : Deposited(au, i) = 0
  BY <1>2, <1>9, <1>11, IntentsAdded
<1>13. CanTake(it, au, x)
  BY <1>2, <1>6, <1>11, Zenon DEF CanTake, Recoverable
<1>14. Creates(it, au, x, it, at)
  BY <1>6, <1>7, <1>9, <1>11 DEF Creates, KeepsIntents
<1>15. StoreInv(it, at)
  BY <1>12, <1>13, <1>14, CreatesInv
<1>16. PICK l : l = Len(at)
  OBVIOUS
<1>17. /\ DOMAIN at = DOMAIN au \cup {l} /\ l \notin DOMAIN au /\ at[l] = x
       /\ \A a \in DOMAIN au : at[a] = au[a]
  BY <1>10, <1>16 DEF Longer
<1>18. ASSUME NEW i PROVE Deposited(at, i) = Deposited(as, i)
  <2>1. Grows(au, x, at, i)
    BY <1>2, <1>6, <1>7, DepositedAppended, Zenon
  <2>2. Deposited(au, i) = Deposited(as, i)
    BY <1>2 DEF Recovers
  <2> QED BY <1>6, <2>1, <2>2 DEF Grows
<1>19. ASSUME NEW a \in DOMAIN at \ DOMAIN as
       PROVE  /\ at[a].type = "rebalance_message" /\ at[a].status = "in_progress"
              /\ at[a].msg \in M \cup {m} /\ at[a].move = 0 /\ at[a].intent \notin DOMAIN is
              /\ \A b \in DOMAIN at \ DOMAIN as : a # b => at[a].msg # at[b].msg
  <2>1. DOMAIN is \subseteq DOMAIN iu /\ DOMAIN as \subseteq DOMAIN au
    BY <1>2 DEF Recovers
  <2>2. \A b \in DOMAIN au \ DOMAIN as : au[b].msg \in M
    BY <1>2 DEF Recovers
  <2>3. CASE a = l
    BY <1>6, <1>11, <1>17, <2>1, <2>2, <2>3, ZenonT(40)
  <2>4. CASE a # l
    <3>1. a \in DOMAIN au \ DOMAIN as /\ at[a] = au[a]
      BY <1>17, <2>4
    <3>2. /\ au[a].type = "rebalance_message" /\ au[a].status = "in_progress"
          /\ au[a].msg \in M /\ au[a].move = 0 /\ au[a].intent \notin DOMAIN is
          /\ \A b \in DOMAIN au \ DOMAIN as : a # b => au[a].msg # au[b].msg
      BY <1>2, <3>1 DEF Recovers
    <3> QED BY <1>6, <1>17, <3>1, <3>2
  <2> QED BY <2>3, <2>4
<1>20. /\ DOMAIN is \subseteq DOMAIN it /\ \A i \in DOMAIN is : it[i] = is[i]
       /\ DOMAIN as \subseteq DOMAIN at /\ \A a \in DOMAIN as : at[a] = as[a]
  BY <1>2, <1>11, <1>17 DEF Recovers
<1>21. Recovers(is, as, M \cup {m}, it, at)
  BY <1>15, <1>18, <1>19, <1>20 DEF Recovers
<1> QED BY <1>8, <1>21

\* What syncRebalanceActions does to the stores.  The new actions are those of
\* messages no action had; no action in progress has been delivered; an intent
\* changes with an action in progress only.
Synced(is, as, inflight, delivered, it, at) ==
  /\ StoreInv(it, at) /\ KeepsIntents(is, it) /\ KeepsActions(as, at)
  /\ \A i : Deposited(at, i) = Deposited(as, i)
  /\ \A a \in DOMAIN at \ DOMAIN as :
       /\ at[a].type = "rebalance_message" /\ at[a].msg \in inflight /\ at[a].move = 0
       /\ at[a].intent \notin DOMAIN is
       /\ \A b \in DOMAIN as : as[b].msg # at[a].msg
       /\ \A b \in DOMAIN at \ DOMAIN as : a # b => at[a].msg # at[b].msg
  /\ \A a \in DOMAIN at : at[a].status = "in_progress" => at[a].msg \notin delivered
  /\ \A a \in DOMAIN at : at[a].status = "complete" =>
       at[a].msg \in delivered \/ (a \in DOMAIN as /\ as[a].status = "complete")
  /\ \A a \in DOMAIN as : as[a].status # "in_progress" => at[a].status = as[a].status
  /\ \A i \in DOMAIN is : it[i] # is[i] =>
       \E a \in DOMAIN as : as[a].intent = i /\ as[a].status = "in_progress"

\* The messages that the stores do not know are recovered, each once.
LEMMA RecoverLoopDoes ==
  ASSUME NEW s, NEW is, NEW as, s = [intents |-> is, actions |-> as], StoreInv(is, as),
         NEW ms, NEW U, IsFiniteSet(U), \A m \in U : Recoverable(ms, m),
         NEW t, t = RecoverLoop(ms, s, SetToSeq(U))
  PROVE  Recovers(is, as, U, t.intents, t.actions)
<1>1. PICK q : q = SetToSeq(U)
  OBVIOUS
<1>2. q \in Seq(U) /\ \A j, k \in DOMAIN q : j # k => q[j] # q[k]
  BY <1>1, SequenceOf
<1>3. PICK n \in Nat : n = Len(q) /\ DOMAIN q = 1..n
  BY <1>2
<1>4. \A k \in 1..n : q[k] \in U /\ Recoverable(ms, q[k])
  BY <1>2, <1>3, ElementOf
<1> DEFINE D == StoreSet
           step == [k \in 1..n |-> [d \in D |-> recoverAction(d, ms, q[k])]]
<1>5. s \in D /\ s.intents = is /\ s.actions = as
  BY DEF StoreSet, StoreInv, Typed
<1>6. ASSUME NEW k \in 1..n, NEW d \in D
      PROVE  step[k][d] = recoverAction(d, ms, q[k]) /\ step[k][d] \in D
  <2>1. recoverAction(d, ms, q[k]) \in D
    BY <1>4, RecoverInSet
  <2> HIDE DEF D
  <2> QED BY <2>1
<1>7. PICK r \in [0..n -> D] : Run(r, n, s, step, RecoverLoop(ms, s, q))
  <2> HIDE DEF D, step
  <2> QED BY <1>3, <1>5, <1>6, RecoveredInOrder
<1> HIDE DEF D, step
<1> DEFINE M(k) == {q[j] : j \in 1..k}
<1>8. \A k \in 0..n : M(k) \subseteq U
  BY <1>4
<1>9. \A k \in Nat : k + 1 <= n => q[k + 1] \notin M(k) /\ M(k + 1) = M(k) \cup {q[k + 1]}
  BY <1>2, <1>3, SMTT(30)
<1> HIDE DEF M
<1> DEFINE Done(k) == Recovers(is, as, M(k), r[k].intents, r[k].actions)
           P == {k \in Nat : k <= n => Done(k)}
<1>10. 0 \in P
  <2>1. r[0] = s
    BY <1>7 DEF Run
  <2>2. Recovers(is, as, M(0), is, as)
    BY DEF Recovers
  <2>3. Done(0)
    BY <1>5, <2>1, <2>2
  <2> HIDE DEF Done
  <2> QED BY <2>3
<1>11. ASSUME NEW k \in Nat, k \in P PROVE k + 1 \in P
  <2> HIDE DEF Done
  <2> SUFFICES ASSUME k + 1 <= n PROVE Done(k + 1)
    OBVIOUS
  <2>1. k <= n /\ k + 1 \in 1..n /\ (k + 1) - 1 = k /\ k \in 0..n /\ r[k] \in D
    BY <1>7
  <2>2. Done(k)
    BY <1>11, <2>1
  <2>3. r[k + 1] = step[k + 1][r[k]]
    BY <1>7, <2>1 DEF Run
  <2>4. r[k + 1] = recoverAction(r[k], ms, q[k + 1])
    BY <1>6, <2>1, <2>3
  <2>5. q[k + 1] \notin M(k) /\ M(k + 1) = M(k) \cup {q[k + 1]}
    BY <1>9
  <2>6. Recoverable(ms, q[k + 1])
    BY <1>4, <2>1
  <2>7. Recovers(is, as, M(k) \cup {q[k + 1]}, r[k + 1].intents, r[k + 1].actions)
    BY <2>2, <2>4, <2>5, <2>6, RecoverOne DEF Done
  <2> QED BY <2>5, <2>7 DEF Done
<1>12. n \in P
  <2> HIDE DEF P
  <2> QED BY <1>10, <1>11, NatSetInduction
<1>13. r[n] = t
  BY <1>1, <1>7 DEF Run
<1>14. Done(n)
  <2> HIDE DEF Done
  <2> QED BY <1>12
<1>15. M(n) \subseteq U
  BY <1>8
<1> QED BY <1>13, <1>14, <1>15 DEF Recovers

\* syncRebalanceActions: recovered, then completed.
LEMMA SyncActionsDoes ==
  ASSUME NEW s, NEW is, NEW as, s = [intents |-> is, actions |-> as], StoreInv(is, as),
         NEW ms, NEW inflight, IsFiniteSet(inflight), \A m \in inflight : Recoverable(ms, m),
         NEW delivered, NEW t, t = syncRebalanceActions(s, ms, inflight, delivered)
  PROVE  Synced(is, as, inflight, delivered, t.intents, t.actions)
<1>0. s.intents = is /\ s.actions = as
  OBVIOUS
<1>1. PICK U : U = Unknown(s, inflight)
  OBVIOUS
<1>2. /\ U \subseteq inflight /\ IsFiniteSet(U) /\ \A m \in U : Recoverable(ms, m)
      /\ \A m \in U, b \in DOMAIN as : as[b].msg # m
  BY <1>0, <1>1, FS_Subset DEF Unknown
<1>3. PICK u : u = RecoverLoop(ms, s, SetToSeq(U))
  OBVIOUS
<1>4. Recovers(is, as, U, u.intents, u.actions)
  BY <1>2, <1>3, RecoverLoopDoes
<1>5. PICK iu, au : iu = u.intents /\ au = u.actions
  OBVIOUS
<1>6. Recovers(is, as, U, iu, au) /\ StoreInv(iu, au)
  BY <1>4, <1>5 DEF Recovers
<1>7. PICK S : S = {a \in DOMAIN au : au[a].status = "in_progress" /\ au[a].msg \in delivered}
  OBVIOUS
<1>8. t = completeRebalanceActions(u, S)
  BY <1>1, <1>3, <1>5, <1>7, Zenon DEF syncRebalanceActions, RecoverLoop
<1>9. PICK it, at : it = t.intents /\ at = t.actions
  OBVIOUS
<1>10. /\ it \in Seq(IntentSet) /\ at \in Seq(ActionSet)
       /\ Ends(iu, au, it, at) /\ Completes(iu, au, S, it, at)
  <2>1. S \subseteq DOMAIN au /\ \A a \in S : au[a].status = "in_progress"
    BY <1>7
  <2> QED BY <1>5, <1>6, <1>8, <1>9, <2>1, CompleteDoes
<1>11. StoreInv(it, at) /\ \A i : Deposited(at, i) = Deposited(au, i)
  BY <1>6, <1>10, EndsInv
<1>12. /\ DOMAIN is \subseteq DOMAIN iu /\ \A i \in DOMAIN is : iu[i] = is[i]
       /\ DOMAIN as \subseteq DOMAIN au /\ \A a \in DOMAIN as : au[a] = as[a]
       /\ \A i : Deposited(au, i) = Deposited(as, i)
  BY <1>6 DEF Recovers
<1>13. /\ KeepsIntents(iu, it) /\ DOMAIN it = DOMAIN iu
       /\ KeepsActions(au, at) /\ DOMAIN at = DOMAIN au
  BY <1>10 DEF Ends
<1>14. KeepsIntents(is, it) /\ KeepsActions(as, at)
  BY <1>12, <1>13 DEF KeepsIntents, KeepsActions
<1>15. \A a \in DOMAIN au : at[a].status = IF a \in S THEN "complete" ELSE au[a].status
  BY <1>10 DEF Completes
<1>16. ASSUME NEW a \in DOMAIN at \ DOMAIN as
       PROVE  /\ at[a].type = "rebalance_message" /\ at[a].msg \in inflight /\ at[a].move = 0
              /\ at[a].intent \notin DOMAIN is /\ au[a].status = "in_progress"
              /\ \A b \in DOMAIN as : as[b].msg # at[a].msg
              /\ \A b \in DOMAIN at \ DOMAIN as : a # b => at[a].msg # at[b].msg
  <2>1. \A b \in DOMAIN au : /\ at[b].type = au[b].type /\ at[b].msg = au[b].msg
                             /\ at[b].move = au[b].move /\ at[b].intent = au[b].intent
    BY <1>13 DEF KeepsActions
  <2>2. /\ au[a].type = "rebalance_message" /\ au[a].status = "in_progress"
        /\ au[a].msg \in U /\ au[a].move = 0 /\ au[a].intent \notin DOMAIN is
        /\ \A b \in DOMAIN au \ DOMAIN as : a # b => au[a].msg # au[b].msg
    BY <1>6, <1>13 DEF Recovers
  <2> QED BY <1>2, <1>13, <2>1, <2>2
<1>17. ASSUME NEW a \in DOMAIN at
       PROVE  /\ at[a].status = "in_progress" => at[a].msg \notin delivered
              /\ at[a].status = "complete" =>
                   at[a].msg \in delivered \/ (a \in DOMAIN as /\ as[a].status = "complete")
  <2>1. at[a].msg = au[a].msg
    BY <1>13 DEF KeepsActions
  <2>2. CASE a \in S
    BY <1>7, <1>13, <1>15, <2>1, <2>2
  <2>3. CASE a \notin S
    <3>1. at[a].status = au[a].status /\ ~(au[a].status = "in_progress" /\ au[a].msg \in delivered)
      BY <1>7, <1>13, <1>15, <2>3
    <3>2. au[a].status = "complete" => a \in DOMAIN as
      BY <1>16
    <3> QED BY <1>12, <2>1, <3>1, <3>2
  <2> QED BY <2>2, <2>3
<1>18. \A a \in DOMAIN as : as[a].status # "in_progress" => at[a].status = as[a].status
  BY <1>7, <1>12, <1>15
<1>19. ASSUME NEW i \in DOMAIN is, it[i] # is[i]
       PROVE  \E a \in DOMAIN as : as[a].intent = i /\ as[a].status = "in_progress"
  <2>1. PICK a \in S : au[a].intent = i
    BY <1>10, <1>12, <1>19 DEF Completes
  <2>2. a \in DOMAIN au /\ au[a].status = "in_progress" /\ at[a].intent = au[a].intent
    BY <1>7, <1>13 DEF KeepsActions
  <2>3. a \in DOMAIN as
    BY <1>13, <1>16, <2>1, <2>2
  <2> QED BY <1>12, <2>1, <2>2, <2>3
<1>20. \A i : Deposited(at, i) = Deposited(as, i)
  BY <1>11, <1>12
<1>21. Synced(is, as, inflight, delivered, it, at)
  BY <1>11, <1>14, <1>16, <1>17, <1>18, <1>19, <1>20 DEF Synced
<1> QED BY <1>9, <1>21

\* createRebalanceAction stays in the set of stores.
LEMMA CreateInSet ==
  ASSUME NEW s \in StoreSet, NEW x \in ActionSet
  PROVE  createRebalanceAction(s, x) \in StoreSet
<1>1. PICK is, as : is = s.intents /\ as = s.actions
  OBVIOUS
<1>2. is \in Seq(IntentSet) /\ as \in Seq(ActionSet)
  BY <1>1 DEF StoreSet
<1>3. PICK it : it = IF is[x.intent].status = "not_started"
                    THEN [is EXCEPT ![x.intent].status = "in_progress"] ELSE is
  OBVIOUS
<1>4. PICK at : at = Append(as, x)
  OBVIOUS
<1>7. createRebalanceAction(s, x) = [actions |-> at, intents |-> it]
  BY <1>1, <1>3, <1>4 DEF createRebalanceAction
<1>5. it \in Seq(IntentSet)
  <2>1. CASE x.intent \in DOMAIN is
    <3>1. is[x.intent] \in IntentSet
      BY <1>2, <2>1, ElementOf
    <3>2. PICK y : y = [is[x.intent] EXCEPT !.status = "in_progress"]
      OBVIOUS
    <3>3. y \in IntentSet
      BY <3>1, <3>2, IntentStatus DEF AsIntent, Statuses
    <3>4. it = [is EXCEPT ![x.intent] = y] \/ it = is
      BY <1>3, <3>2
    <3> QED BY <1>2, <2>1, <3>3, <3>4
  <2>2. CASE x.intent \notin DOMAIN is
    <3>1. it = is
      BY <1>2, <1>3, <2>2
    <3> QED BY <1>2, <3>1
  <2> QED BY <2>1, <2>2
<1>6. at \in Seq(ActionSet)
  BY <1>2, <1>4, Appended, Zenon
<1> QED BY <1>5, <1>6, <1>7 DEF StoreSet

\* Actions are created one after the other.
LEMMA CreatedInOrder ==
  ASSUME NEW n \in Nat, NEW q, DOMAIN q = 1..n, NEW D, NEW base \in D, NEW step,
         \A k \in 1..n, d \in D : step[k][d] = createRebalanceAction(d, q[k]) /\ step[k][d] \in D
  PROVE  \E r \in [0..n -> D] : Run(r, n, base, step, FoldLeft(createRebalanceAction, base, q))
<1> DEFINE Loop(h) == [s \in SUBSET (1..n) |-> IF s = {} THEN base
                         ELSE createRebalanceAction(h[s \ {Max(s)}], q[Max(s)])]
<1>1. Closed(n, D, step)
  BY DEF Closed
<1>2. PICK h \in [SUBSET (1..n) -> D] : Loops(h, n, base, step)
  BY <1>1, LoopExists
<1>3. ASSUME NEW s \in SUBSET (1..n), s # {}
      PROVE  Max(s) \in 1..n /\ s \ {Max(s)} \in SUBSET (1..n)
  BY <1>3, LastPosition
<1>4. h = Loop(h)
  <2>1. ASSUME NEW s \in SUBSET (1..n) PROVE h[s] = Loop(h)[s]
    <3>1. CASE s = {}
      BY <1>2, <3>1 DEF Loops
    <3>2. CASE s # {}
      <4>1. h[s] = step[Max(s)][h[s \ {Max(s)}]]
        BY <1>2, <3>2 DEF Loops
      <4>2. h[s \ {Max(s)}] \in D
        BY <1>3, <3>2
      <4>3. h[s] = createRebalanceAction(h[s \ {Max(s)}], q[Max(s)])
        BY <1>3, <3>2, <4>1, <4>2
      <4> QED BY <3>2, <4>3
    <3> QED BY <3>1, <3>2
  <2> QED BY <2>1
<1>5. PICK f : f = Loop(f) /\ FoldLeft(createRebalanceAction, base, q) = f[1..n]
  BY <1>4, ZenonT(30) DEF FoldLeft, MapThenFoldSet
<1>6. Turns(f, n, D, base, step)
  <2>1. f[{}] = base
    BY <1>5
  <2>2. ASSUME NEW s \in SUBSET (1..n), s # {}, f[s \ {Max(s)}] \in D
        PROVE  f[s] = step[Max(s)][f[s \ {Max(s)}]]
    <3>1. f[s] = createRebalanceAction(f[s \ {Max(s)}], q[Max(s)])
      BY <1>5, <2>2
    <3> QED BY <1>3, <2>2, <3>1
  <2> HIDE DEF Loop
  <2> QED BY <2>1, <2>2 DEF Turns
<1>7. \E r \in [0..n -> D] : Run(r, n, base, step, f[1..n])
  <2> HIDE DEF Loop
  <2> QED BY <1>1, <1>6, LoopRuns
<1> QED BY <1>5, <1>7

\* The results are recorded one after the other.
LEMMA ProcessedInOrder ==
  ASSUME NEW n \in Nat, NEW q, DOMAIN q = 1..n, NEW D, NEW base \in D, NEW step,
         \A k \in 1..n, d \in D : step[k][d] = ProcessResult(d, q[k]) /\ step[k][d] \in D
  PROVE  \E r \in [0..n -> D] : Run(r, n, base, step, FoldLeft(ProcessResult, base, q))
<1> DEFINE Loop(h) == [s \in SUBSET (1..n) |-> IF s = {} THEN base
                         ELSE ProcessResult(h[s \ {Max(s)}], q[Max(s)])]
<1>1. Closed(n, D, step)
  BY DEF Closed
<1>2. PICK h \in [SUBSET (1..n) -> D] : Loops(h, n, base, step)
  BY <1>1, LoopExists
<1>3. ASSUME NEW s \in SUBSET (1..n), s # {}
      PROVE  Max(s) \in 1..n /\ s \ {Max(s)} \in SUBSET (1..n)
  BY <1>3, LastPosition
<1>4. h = Loop(h)
  <2>1. ASSUME NEW s \in SUBSET (1..n) PROVE h[s] = Loop(h)[s]
    <3>1. CASE s = {}
      BY <1>2, <3>1 DEF Loops
    <3>2. CASE s # {}
      <4>1. h[s] = step[Max(s)][h[s \ {Max(s)}]]
        BY <1>2, <3>2 DEF Loops
      <4>2. h[s \ {Max(s)}] \in D
        BY <1>3, <3>2
      <4>3. h[s] = ProcessResult(h[s \ {Max(s)}], q[Max(s)])
        BY <1>3, <3>2, <4>1, <4>2
      <4> QED BY <3>2, <4>3
    <3> QED BY <3>1, <3>2
  <2> QED BY <2>1
<1>5. PICK f : f = Loop(f) /\ FoldLeft(ProcessResult, base, q) = f[1..n]
  BY <1>4, ZenonT(30) DEF FoldLeft, MapThenFoldSet
<1>6. Turns(f, n, D, base, step)
  <2>1. f[{}] = base
    BY <1>5
  <2>2. ASSUME NEW s \in SUBSET (1..n), s # {}, f[s \ {Max(s)}] \in D
        PROVE  f[s] = step[Max(s)][f[s \ {Max(s)}]]
    <3>1. f[s] = ProcessResult(f[s \ {Max(s)}], q[Max(s)])
      BY <1>5, <2>2
    <3> QED BY <1>3, <2>2, <3>1
  <2> HIDE DEF Loop
  <2> QED BY <2>1, <2>2 DEF Turns
<1>7. \E r \in [0..n -> D] : Run(r, n, base, step, f[1..n])
  <2> HIDE DEF Loop
  <2> QED BY <1>1, <1>6, LoopRuns
<1> QED BY <1>5, <1>7

\* Movements are recorded for intent j, over the bridge's first l movements.
Moves(is, as, j, l, it, at) ==
  /\ StoreInv(it, at) /\ KeepsIntents(is, it) /\ DOMAIN it = DOMAIN is
  /\ it[j].status \in {"not_started", "in_progress"}
  /\ KeepsActions(as, at) /\ \A a \in DOMAIN as : at[a] = as[a]
  /\ \A a \in DOMAIN at \ DOMAIN as : at[a].type = "inventory_movement" /\ at[a].move <= l
  /\ \A i : Deposited(at, i) = Deposited(as, i)

\* A movement for intent j.
MovementOf(x, j, l) ==
  /\ x \in ActionSet /\ x.type = "inventory_movement" /\ x.status = "in_progress"
  /\ x.intent = j /\ x.msg = 0 /\ x.move <= l

\* Intent j waits for inventory.
Waits(is, as, j) ==
  /\ j \in DOMAIN is /\ is[j].method = "inventory" /\ Deposited(as, j) < is[j].amount

\* One further movement.
LEMMA MoveOne ==
  ASSUME NEW is, NEW as, StoreInv(is, as), NEW j, Waits(is, as, j), NEW l,
         NEW s, Moves(is, as, j, l, s.intents, s.actions),
         NEW x, MovementOf(x, j, l), NEW t, t = createRebalanceAction(s, x)
  PROVE  Moves(is, as, j, l, t.intents, t.actions)
<1>1. PICK iu, au : iu = s.intents /\ au = s.actions
  OBVIOUS
<1>2. PICK it, at : it = t.intents /\ at = t.actions
  OBVIOUS
<1>3. /\ Moves(is, as, j, l, iu, au) /\ StoreInv(iu, au) /\ j \in DOMAIN iu /\ x \in ActionSet
      /\ au \in Seq(ActionSet)
  BY <1>1 DEF Moves, Waits, MovementOf, StoreInv, Typed
<1>4. CanTake(iu, au, x)
  <2>1. iu[j].method = "inventory" /\ iu[j].amount = is[j].amount
    BY <1>3 DEF Moves, Waits, KeepsIntents
  <2>2. Deposited(au, j) = Deposited(as, j)
    BY <1>3 DEF Moves
  <2>3. Deposited(au, j) < iu[j].amount
    BY <2>1, <2>2 DEF Waits
  <2> QED BY <1>3, <2>1, <2>3, Zenon DEF CanTake, Moves, MovementOf
<1>5. Creates(iu, au, x, it, at)
  BY <1>1, <1>2, <1>3, <1>4, CreateDoes
<1>6. StoreInv(it, at)
  BY <1>3, <1>4, <1>5, CreatesInv
<1>7. at = Append(au, x)
  BY <1>5 DEF Creates
<1>8. PICK n : n = Len(at)
  OBVIOUS
<1>9. /\ DOMAIN at = DOMAIN au \cup {n} /\ n \notin DOMAIN au /\ at[n] = x
      /\ \A a \in DOMAIN au : at[a] = au[a]
  <2>1. Longer(au, x, at)
    BY <1>3, <1>7, Appended, Zenon
  <2> QED BY <1>8, <2>1 DEF Longer
<1>10. ASSUME NEW i PROVE Deposited(at, i) = Deposited(as, i)
  <2>1. Grows(au, x, at, i)
    BY <1>3, <1>7, DepositedAppended, Zenon
  <2>2. Deposited(au, i) = Deposited(as, i)
    BY <1>3 DEF Moves
  <2> QED BY <2>1, <2>2 DEF Grows, MovementOf
<1>11. KeepsIntents(is, it) /\ DOMAIN it = DOMAIN is
  BY <1>3, <1>5 DEF Moves, Creates, KeepsIntents
<1>12. it[j].status = "in_progress"
  BY <1>5 DEF Creates, MovementOf
<1>13. KeepsActions(as, at) /\ \A a \in DOMAIN as : at[a] = as[a]
  BY <1>3, <1>9, ZenonT(40) DEF Moves, KeepsActions
<1>14. \A a \in DOMAIN at \ DOMAIN as : at[a].type = "inventory_movement" /\ at[a].move <= l
  BY <1>3, <1>9, ZenonT(40) DEF Moves, MovementOf
<1>15. Moves(is, as, j, l, it, at)
  BY <1>6, <1>10, <1>11, <1>12, <1>13, <1>14 DEF Moves
<1> QED BY <1>2, <1>15

\* The movements of a task are recorded.
LEMMA MoveLoopDoes ==
  ASSUME NEW s, NEW is, NEW as, s = [intents |-> is, actions |-> as], StoreInv(is, as),
         NEW j, Waits(is, as, j), is[j].status \in {"not_started", "in_progress"},
         NEW l, NEW q \in Seq(ActionSet), \A k \in DOMAIN q : MovementOf(q[k], j, l),
         NEW t, t = FoldLeft(createRebalanceAction, s, q)
  PROVE  Moves(is, as, j, l, t.intents, t.actions)
<1>1. PICK n \in Nat : n = Len(q) /\ DOMAIN q = 1..n
  OBVIOUS
<1> DEFINE D == StoreSet
           step == [k \in 1..n |-> [d \in D |-> createRebalanceAction(d, q[k])]]
<1>2. s \in D /\ s.intents = is /\ s.actions = as
  BY DEF StoreSet, StoreInv, Typed
<1>3. ASSUME NEW k \in 1..n, NEW d \in D
      PROVE  step[k][d] = createRebalanceAction(d, q[k]) /\ step[k][d] \in D
  <2>1. q[k] \in ActionSet
    BY <1>1, ElementOf
  <2>2. createRebalanceAction(d, q[k]) \in D
    BY <2>1, CreateInSet
  <2> HIDE DEF D
  <2> QED BY <2>2
<1>4. PICK r \in [0..n -> D] : Run(r, n, s, step, FoldLeft(createRebalanceAction, s, q))
  <2> HIDE DEF D, step
  <2> QED BY <1>1, <1>2, <1>3, CreatedInOrder
<1> HIDE DEF D, step
<1> DEFINE Done(k) == Moves(is, as, j, l, r[k].intents, r[k].actions)
           P == {k \in Nat : k <= n => Done(k)}
<1>5. 0 \in P
  <2>1. r[0] = s
    BY <1>4 DEF Run
  <2>2. Moves(is, as, j, l, is, as)
    BY DEF Moves, KeepsIntents, KeepsActions
  <2>3. Done(0)
    BY <1>2, <2>1, <2>2
  <2> HIDE DEF Done
  <2> QED BY <2>3
<1>6. ASSUME NEW k \in Nat, k \in P PROVE k + 1 \in P
  <2> HIDE DEF Done
  <2> SUFFICES ASSUME k + 1 <= n PROVE Done(k + 1)
    OBVIOUS
  <2>1. k <= n /\ k + 1 \in 1..n /\ (k + 1) - 1 = k /\ k \in 0..n /\ r[k] \in D
    BY <1>4
  <2>2. Done(k)
    BY <1>6, <2>1
  <2>3. r[k + 1] = step[k + 1][r[k]]
    BY <1>4, <2>1 DEF Run
  <2>4. r[k + 1] = createRebalanceAction(r[k], q[k + 1])
    BY <1>3, <2>1, <2>3
  <2>5. MovementOf(q[k + 1], j, l)
    BY <1>1, <2>1
  <2> QED BY <2>2, <2>4, <2>5, MoveOne DEF Done
<1>7. n \in P
  <2> HIDE DEF P
  <2> QED BY <1>5, <1>6, NatSetInduction
<1>8. r[n] = t
  BY <1>4 DEF Run
<1>9. Done(n)
  <2> HIDE DEF Done
  <2> QED BY <1>7
<1> QED BY <1>8, <1>9

\* The results of the first k jobs are recorded.
Processes(is, as, js, k, it, at) ==
  /\ StoreInv(it, at) /\ KeepsIntents(is, it) /\ DOMAIN it = DOMAIN is
  /\ KeepsActions(as, at) /\ \A a \in DOMAIN as : at[a] = as[a]
  /\ \A a \in DOMAIN at \ DOMAIN as :
       /\ at[a].type = "rebalance_message" /\ at[a].status = "in_progress" /\ at[a].move = 0
       /\ \E j \in 1..k : /\ js[j].state = "sent" /\ at[a].msg = js[j].msg
                          /\ at[a].intent = js[j].intent
  /\ \A j \in DOMAIN js : j > k => it[js[j].intent] = is[js[j].intent]
  /\ \A i : Deposited(at, i) = Deposited(as, i)

\* The jobs of a cycle.
JobsFit(is, as, js) ==
  /\ js \in Seq(JobSet) /\ \A j \in DOMAIN js : JobFits(is, as, js[j])
  /\ \A j, k \in DOMAIN js : j # k => js[j].intent # js[k].intent

\* The action of a job.
LEMMA JobAction ==
  ASSUME NEW job \in JobSet, NEW x,
         x = Action("rebalance_message", job.intent, job.msg, 0, job.route.amount)
  PROVE  /\ x \in ActionSet /\ x.type = "rebalance_message" /\ x.status = "in_progress"
         /\ x.intent = job.intent /\ x.msg = job.msg /\ x.move = 0 /\ x.amount = job.route.amount
<1>1. PICK i \in Nat, m \in Nat, r \in Route : i = job.intent /\ m = job.msg /\ r = job.route
  BY DEF JobSet
<1>2. PICK v \in Nat \ {0} : v = r.amount
  BY DEF Route
<1>3. x = Action("rebalance_message", i, m, 0, v)
  BY <1>1, <1>2
<1>4. /\ x \in ActionSet /\ x.type = "rebalance_message" /\ x.status = "in_progress"
      /\ x.intent = i /\ x.msg = m /\ x.move = 0 /\ x.amount = v
  BY <1>3 DEF Action, ActionSet
<1> QED BY <1>1, <1>2, <1>4

\* Recording a result stays in the set of stores.
LEMMA ProcessInSet ==
  ASSUME NEW s \in StoreSet, NEW job \in JobSet
  PROVE  ProcessResult(s, job) \in StoreSet
<1>1. CASE job.state = "sent"
  <2>1. PICK x : x = Action("rebalance_message", job.intent, job.msg, 0, job.route.amount)
    OBVIOUS
  <2>2. x \in ActionSet
    BY <2>1, JobAction
  <2>3. ProcessResult(s, job) = createRebalanceAction(s, x)
    BY <1>1, <2>1 DEF ProcessResult
  <2> QED BY <2>2, <2>3, CreateInSet
<1>2. CASE job.state # "sent"
  <2>1. PICK is, as : is = s.intents /\ as = s.actions
    OBVIOUS
  <2>2. is \in Seq(IntentSet) /\ as \in Seq(ActionSet)
    BY <2>1 DEF StoreSet
  <2>3. PICK it : it = [is EXCEPT ![job.intent].status = "failed"]
    OBVIOUS
  <2>4. ProcessResult(s, job) = [intents |-> it, actions |-> as]
    BY <1>2, <2>1, <2>3 DEF ProcessResult, StoreSet
  <2>5. it \in Seq(IntentSet)
    <3>1. CASE job.intent \in DOMAIN is
      <4>1. is[job.intent] \in IntentSet
        BY <2>2, <3>1, ElementOf
      <4>2. PICK y : y = [is[job.intent] EXCEPT !.status = "failed"]
        OBVIOUS
      <4>3. y \in IntentSet
        BY <4>1, <4>2, IntentStatus DEF AsIntent, Statuses
      <4> QED BY <2>2, <2>3, <3>1, <4>2, <4>3
    <3>2. CASE job.intent \notin DOMAIN is
      <4>1. it = is
        BY <2>2, <2>3, <3>2
      <4> QED BY <2>2, <4>1
    <3> QED BY <3>1, <3>2
  <2>6. [intents |-> it, actions |-> as] \in StoreSet
    BY <2>2, <2>5, StorePair
  <2> QED BY <2>4, <2>6
<1> QED BY <1>1, <1>2

\* The result of one further job.
LEMMA ProcessOne ==
  ASSUME NEW is, NEW as, StoreInv(is, as), NEW js, JobsFit(is, as, js), NEW k \in Nat,
         k + 1 \in DOMAIN js, NEW s \in StoreSet, Processes(is, as, js, k, s.intents, s.actions),
         NEW t, t = ProcessResult(s, js[k + 1])
  PROVE  Processes(is, as, js, k + 1, t.intents, t.actions)
<1>1. PICK iu, au : iu = s.intents /\ au = s.actions
  OBVIOUS
<1>2. PICK it, at : it = t.intents /\ at = t.actions
  OBVIOUS
<1>3. PICK job \in JobSet : job = js[k + 1]
  BY DEF JobsFit
<1>4. PICK i : i = job.intent
  OBVIOUS
<1>5. DOMAIN js = 1..Len(js) /\ Len(js) \in Nat
  BY DEF JobsFit
<1>6. /\ i \in DOMAIN is /\ is[i].status = "not_started" /\ is[i].method = "movable"
      /\ is[i].amount = job.route.amount /\ \A a \in DOMAIN as : as[a].intent # i
      /\ job.state = "sent" => job.msg # 0
  BY <1>3, <1>4 DEF JobsFit, JobFits
<1>7. \A j \in DOMAIN js : j # k + 1 => js[j].intent # i
  BY <1>3, <1>4 DEF JobsFit
<1>8. /\ Processes(is, as, js, k, iu, au) /\ StoreInv(iu, au)
      /\ iu \in Seq(IntentSet) /\ au \in Seq(ActionSet)
      /\ KeepsIntents(is, iu) /\ DOMAIN iu = DOMAIN is
      /\ KeepsActions(as, au) /\ \A a \in DOMAIN as : au[a] = as[a]
      /\ \A x : Deposited(au, x) = Deposited(as, x)
  BY <1>1 DEF Processes, StoreInv, Typed
<1>9. ASSUME NEW a \in DOMAIN au \ DOMAIN as
      PROVE  /\ au[a].type = "rebalance_message" /\ au[a].status = "in_progress" /\ au[a].move = 0
             /\ \E j \in 1..k : /\ js[j].state = "sent" /\ au[a].msg = js[j].msg
                                /\ au[a].intent = js[j].intent
  BY <1>8 DEF Processes
<1>10. \A j \in 1..k : j \in DOMAIN js /\ j # k + 1 /\ j \in 1..(k + 1)
  BY <1>5
<1>11. \A a \in DOMAIN au : au[a].intent # i
  <2>1. \A a \in DOMAIN au \ DOMAIN as : au[a].intent # i
    BY <1>7, <1>9, <1>10
  <2> QED BY <1>6, <1>8, <2>1
<1>12. \A j \in DOMAIN js : j > k => iu[js[j].intent] = is[js[j].intent]
  BY <1>8 DEF Processes
<1>13. iu[i] = is[i]
  BY <1>3, <1>4, <1>12
<1>14. \A j \in DOMAIN js : j > k + 1 => /\ iu[js[j].intent] = is[js[j].intent]
                                         /\ js[j].intent # i /\ js[j].intent \in DOMAIN iu
  <2>1. \A j \in DOMAIN js : j > k + 1 => j > k /\ j # k + 1
    BY <1>5
  <2> QED BY <1>7, <1>8, <1>12, <2>1 DEF JobsFit, JobFits
<1>15. CASE job.state = "sent"
  <2>1. PICK x : x = Action("rebalance_message", job.intent, job.msg, 0, job.route.amount)
    OBVIOUS
  <2>2. /\ x \in ActionSet /\ x.type = "rebalance_message" /\ x.status = "in_progress"
        /\ x.intent = i /\ x.msg = job.msg /\ x.move = 0 /\ x.amount = job.route.amount
    BY <1>4, <2>1, JobAction
  <2>3. t = createRebalanceAction(s, x)
    BY <1>3, <1>15, <2>1 DEF ProcessResult
  <2>4. CanTake(iu, au, x)
    BY <1>6, <1>8, <1>11, <1>13, <1>15, <2>2, Zenon DEF CanTake
  <2>5. Creates(iu, au, x, it, at)
    BY <1>1, <1>2, <1>8, <2>3, <2>4, CreateDoes
  <2>6. StoreInv(it, at)
    BY <1>8, <2>4, <2>5, CreatesInv
  <2>7. at = Append(au, x)
    BY <2>5 DEF Creates
  <2>8. PICK n : n = Len(at)
    OBVIOUS
  <2>9. /\ DOMAIN at = DOMAIN au \cup {n} /\ n \notin DOMAIN au /\ at[n] = x
        /\ \A a \in DOMAIN au : at[a] = au[a]
    <3>1. Longer(au, x, at)
      BY <1>8, <2>2, <2>7, Appended, Zenon
    <3> QED BY <2>8, <3>1 DEF Longer
  <2>10. ASSUME NEW y PROVE Deposited(at, y) = Deposited(as, y)
    <3>1. Grows(au, x, at, y)
      BY <1>8, <2>2, <2>7, DepositedAppended, Zenon
    <3> QED BY <1>8, <2>2, <3>1 DEF Grows
  <2>11. KeepsIntents(is, it) /\ DOMAIN it = DOMAIN is
    BY <1>8, <2>5 DEF Creates, KeepsIntents
  <2>12. KeepsActions(as, at) /\ \A a \in DOMAIN as : at[a] = as[a]
    BY <1>8, <2>9 DEF KeepsActions
  <2>13. ASSUME NEW a \in DOMAIN at \ DOMAIN as
         PROVE  /\ at[a].type = "rebalance_message" /\ at[a].status = "in_progress"
                /\ at[a].move = 0
                /\ \E j \in 1..(k + 1) : /\ js[j].state = "sent" /\ at[a].msg = js[j].msg
                                         /\ at[a].intent = js[j].intent
    <3>1. CASE a = n
      <4>1. k + 1 \in 1..(k + 1)
        OBVIOUS
      <4> QED BY <1>3, <1>4, <1>15, <2>2, <2>9, <3>1, <4>1
    <3>2. CASE a # n
      <4>1. a \in DOMAIN au \ DOMAIN as /\ at[a] = au[a]
        BY <2>9, <3>2
      <4> QED BY <1>9, <1>10, <4>1
    <3> QED BY <3>1, <3>2
  <2>14. \A j \in DOMAIN js : j > k + 1 => it[js[j].intent] = is[js[j].intent]
    BY <1>8, <1>14, <2>2, <2>5 DEF Creates
  <2> QED BY <1>2, <2>6, <2>10, <2>11, <2>12, <2>13, <2>14, ZenonT(40) DEF Processes
<1>16. CASE job.state # "sent"
  <2>1. PICK y : y = [iu[i] EXCEPT !.status = "failed"]
    OBVIOUS
  <2>2. AsIntent(iu[i], y) /\ y.status = "failed"
    <3>1. iu[i] \in IntentSet
      BY <1>6, <1>8, ElementOf
    <3> QED BY <2>1, <3>1, IntentStatus DEF Statuses
  <2>3. at = au /\ it = [iu EXCEPT ![i] = y]
    BY <1>1, <1>2, <1>3, <1>4, <1>16, <2>1 DEF ProcessResult, StoreSet
  <2>4. /\ it \in Seq(IntentSet) /\ DOMAIN it = DOMAIN iu /\ it[i] = y
        /\ \A j \in DOMAIN iu : j # i => it[j] = iu[j]
    BY <1>6, <1>8, <2>2, <2>3 DEF AsIntent
  <2>5. KeepsIntents(iu, it)
    BY <2>2, <2>4 DEF KeepsIntents, AsIntent
  <2>6. Ends(iu, au, it, at)
    BY <1>6, <1>11, <1>13, <2>3, <2>4, <2>5 DEF Ends, KeepsActions
  <2>7. StoreInv(it, at)
    BY <1>8, <2>3, <2>4, <2>6, EndsInv
  <2>8. KeepsIntents(is, it) /\ DOMAIN it = DOMAIN is
    BY <1>8, <2>4, <2>5 DEF KeepsIntents
  <2>9. \A j \in DOMAIN js : j > k + 1 => it[js[j].intent] = is[js[j].intent]
    BY <1>14, <2>4
  <2>10. ASSUME NEW a \in DOMAIN at \ DOMAIN as
         PROVE  /\ at[a].type = "rebalance_message" /\ at[a].status = "in_progress"
                /\ at[a].move = 0
                /\ \E j \in 1..(k + 1) : /\ js[j].state = "sent" /\ at[a].msg = js[j].msg
                                         /\ at[a].intent = js[j].intent
    BY <1>9, <1>10, <2>3
  <2>11. /\ KeepsActions(as, at) /\ \A a \in DOMAIN as : at[a] = as[a]
         /\ \A x : Deposited(at, x) = Deposited(as, x)
    BY <1>8, <2>3
  <2>12. Processes(is, as, js, k + 1, it, at)
    BY <2>7, <2>8, <2>9, <2>10, <2>11 DEF Processes
  <2> QED BY <1>2, <2>12
<1> QED BY <1>15, <1>16

\* The results of all jobs are recorded.
LEMMA ProcessLoopDoes ==
  ASSUME NEW s, NEW is, NEW as, s = [intents |-> is, actions |-> as], StoreInv(is, as),
         NEW js, JobsFit(is, as, js), NEW t, t = FoldLeft(ProcessResult, s, js)
  PROVE  \E n \in Nat : DOMAIN js = 1..n /\ Processes(is, as, js, n, t.intents, t.actions)
<1>1. PICK n \in Nat : n = Len(js) /\ DOMAIN js = 1..n
  BY DEF JobsFit
<1> DEFINE D == StoreSet
           step == [k \in 1..n |-> [d \in D |-> ProcessResult(d, js[k])]]
<1>2. s \in D /\ s.intents = is /\ s.actions = as
  BY DEF StoreSet, StoreInv, Typed
<1>3. ASSUME NEW k \in 1..n, NEW d \in D
      PROVE  step[k][d] = ProcessResult(d, js[k]) /\ step[k][d] \in D
  <2>1. js[k] \in JobSet
    BY <1>1, ElementOf DEF JobsFit
  <2>2. ProcessResult(d, js[k]) \in D
    BY <2>1, ProcessInSet
  <2> HIDE DEF D
  <2> QED BY <2>2
<1>4. PICK r \in [0..n -> D] : Run(r, n, s, step, FoldLeft(ProcessResult, s, js))
  <2> HIDE DEF D, step
  <2> QED BY <1>1, <1>2, <1>3, ProcessedInOrder
<1> HIDE DEF step
<1> DEFINE Done(k) == Processes(is, as, js, k, r[k].intents, r[k].actions)
           P == {k \in Nat : k <= n => Done(k)}
<1>5. 0 \in P
  <2>1. r[0] = s
    BY <1>4 DEF Run
  <2>2. Processes(is, as, js, 0, is, as)
    BY DEF Processes, KeepsIntents, KeepsActions
  <2>3. Done(0)
    BY <1>2, <2>1, <2>2
  <2> HIDE DEF Done
  <2> QED BY <2>3
<1>6. ASSUME NEW k \in Nat, k \in P PROVE k + 1 \in P
  <2> HIDE DEF Done
  <2> SUFFICES ASSUME k + 1 <= n PROVE Done(k + 1)
    OBVIOUS
  <2>1. k <= n /\ k + 1 \in 1..n /\ (k + 1) - 1 = k /\ k \in 0..n /\ r[k] \in D
    BY <1>4
  <2>2. Done(k)
    BY <1>6, <2>1
  <2>3. r[k + 1] = step[k + 1][r[k]]
    BY <1>4, <2>1 DEF Run
  <2>4. r[k + 1] = ProcessResult(r[k], js[k + 1])
    BY <1>3, <2>1, <2>3
  <2>5. k + 1 \in DOMAIN js /\ r[k] \in StoreSet
    BY <1>1, <2>1
  <2> QED BY <2>2, <2>4, <2>5, ProcessOne DEF Done
<1>7. n \in P
  <2> HIDE DEF P
  <2> QED BY <1>5, <1>6, NatSetInduction
<1>8. r[n] = t
  BY <1>4 DEF Run
<1>9. Done(n)
  <2> HIDE DEF Done
  <2> QED BY <1>7
<1> QED BY <1>1, <1>8, <1>9

-----------------------------------------------------------------------------
(* The steps of the environment *)

\* Messages are only added, and delivered.
MessagesKeep(ms, mt) ==
  /\ DOMAIN ms \subseteq DOMAIN mt
  /\ \A m \in DOMAIN ms : /\ mt[m].kind = ms[m].kind /\ mt[m].amount = ms[m].amount
                          /\ mt[m].intent = ms[m].intent
                          /\ ms[m].delivered => mt[m].delivered

\* Amounts of messages.
LEMMA MessageAmounts ==
  ASSUME NEW ms \in Seq(MessageSet), NEW S, S \subseteq DOMAIN ms
  PROVE  IsFiniteSet(S) /\ \A x \in S : ms[x].amount \in Nat
<1>1. IsFiniteSet(S) /\ \A x \in S : ms[x] \in MessageSet
  BY Positions
<1>2. \A x \in MessageSet : x.amount \in Nat
  BY DEF MessageSet
<1> QED BY <1>1, <1>2

\* Where no deposit is dispatched for an intent, what was sent for it stays.
LEMMA SameSent ==
  ASSUME NEW ms \in Seq(MessageSet), NEW mt, MessagesKeep(ms, mt), NEW i,
         \A m \in DOMAIN mt \ DOMAIN ms : ~(mt[m].kind = "deposit" /\ mt[m].intent = i)
  PROVE  Sent(mt, i) = Sent(ms, i)
<1>1. PICK S : S = MessagesOf(ms, i)
  OBVIOUS
<1>2. MessagesOf(mt, i) = S /\ S \subseteq DOMAIN ms
  BY <1>1 DEF MessagesOf, MessagesKeep
<1>3. IsFiniteSet(S) /\ \A m \in S : ms[m].amount \in Nat
  BY <1>2, MessageAmounts
<1>4. \A m \in S : ms[m].amount \in Nat /\ mt[m].amount = ms[m].amount
  BY <1>2, <1>3 DEF MessagesKeep
<1>5. AmountOf(mt, S) = AmountOf(ms, S)
  BY <1>3, <1>4, AmountEq
<1> QED BY <1>1, <1>2, <1>5 DEF Sent

\* A deposit that is dispatched adds its amount to what was sent.
LEMMA SentGrows ==
  ASSUME NEW ms \in Seq(MessageSet), NEW x \in MessageSet, NEW mt, mt = Append(ms, x),
         NEW i, x.kind = "deposit", x.intent = i
  PROVE  Sent(mt, i) = Sent(ms, i) + x.amount
<1>1. mt \in Seq(MessageSet) /\ Longer(ms, x, mt)
  BY Appended, Zenon
<1>2. PICK n : n = Len(mt)
  OBVIOUS
<1>3. /\ DOMAIN mt = DOMAIN ms \cup {n} /\ n \notin DOMAIN ms
      /\ mt[n] = x /\ \A m \in DOMAIN ms : mt[m] = ms[m]
  BY <1>1, <1>2 DEF Longer
<1>4. PICK S : S = MessagesOf(ms, i)
  OBVIOUS
<1>5. PICK T : T = MessagesOf(mt, i)
  OBVIOUS
<1>6. T = S \cup {n} /\ n \in T /\ T \ {n} = S /\ T \subseteq DOMAIN mt /\ S \subseteq DOMAIN ms
  BY <1>3, <1>4, <1>5 DEF MessagesOf
<1>7. IsFiniteSet(S) /\ \A m \in S : ms[m].amount \in Nat
  BY <1>6, MessageAmounts
<1>8. IsFiniteSet(T) /\ \A m \in T : mt[m].amount \in Nat
  BY <1>1, <1>6, MessageAmounts
<1>9. AmountOf(mt, S) = AmountOf(ms, S)
  <2>1. \A m \in S : ms[m].amount \in Nat /\ mt[m].amount = ms[m].amount
    BY <1>3, <1>6, <1>7
  <2> QED BY <1>7, <2>1, AmountEq
<1>10. AmountOf(mt, T) = mt[n].amount + AmountOf(mt, T \ {n})
  <2>1. \A m \in T : AmountOf(mt, T) = mt[m].amount + AmountOf(mt, T \ {m})
    BY <1>8, AmountFacts, ZenonT(40)
  <2> QED BY <1>6, <2>1, Zenon
<1>11. PICK v \in Nat : v = mt[n].amount /\ v = x.amount
  BY <1>3, <1>6, <1>8
<1>12. PICK w \in Nat : w = AmountOf(ms, S)
  BY <1>7, AmountFacts
<1>13. Sent(mt, i) = v + w
  BY <1>5, <1>6, <1>9, <1>10, <1>11, <1>12 DEF Sent
<1>14. v + w = w + v
  OBVIOUS
<1>15. Sent(ms, i) = w
  BY <1>4, <1>12 DEF Sent
<1> QED BY <1>11, <1>13, <1>14, <1>15, Zenon

\* Nothing but the chains, the explorer and the bridge changes.
LEMMA ChainsMove ==
  ASSUME IInv, UNCHANGED <<setting, stores, cycle>>, WorldInv', DepositInv',
         Len(msgs) \in Nat, Len(moves) \in Nat, Len(msgs') \in Nat, Len(moves') \in Nat,
         Len(msgs) <= Len(msgs'), Len(moves) <= Len(moves'), Delivered \subseteq Delivered',
         \A m \in DOMAIN msgs' : msgs'[m].intent <= Len(intents)
  PROVE  IInv'
<1>0. /\ setting' = setting /\ intents' = intents /\ actions' = actions /\ pc' = pc
      /\ event' = event /\ asked' = asked /\ orphans' = orphans /\ jobs' = jobs
      /\ wanted' = wanted /\ task' = task
  BY DEF stores, cycle
<1>1. StoreInv(intents, actions)'
  BY <1>0 DEF IInv
<1>2. NamesInv'
  <2>1. ASSUME NEW a \in DOMAIN actions
        PROVE  actions[a].msg <= Len(msgs') /\ actions[a].move <= Len(moves')
    <3>1. actions[a].msg <= Len(msgs) /\ actions[a].move <= Len(moves)
      BY DEF IInv, NamesInv
    <3>2. actions[a] \in ActionSet
      BY ElementOf DEF IInv, StoreInv, Typed
    <3>3. actions[a].msg \in Nat /\ actions[a].move \in Nat
      BY <3>2 DEF ActionSet
    <3> QED BY <3>1, <3>3
  <2> QED BY <1>0, <2>1 DEF NamesInv
<1>3. JobsInv'
  <2>1. ASSUME NEW j \in DOMAIN jobs PROVE jobs[j].msg <= Len(msgs')
    <3>1. jobs[j].msg <= Len(msgs)
      BY DEF IInv, JobsInv
    <3>2. jobs[j] \in JobSet
      BY ElementOf DEF IInv, JobsInv
    <3>3. jobs[j].msg \in Nat
      BY <3>2 DEF JobSet
    <3> QED BY <3>1, <3>3
  <2> QED BY <1>0, <2>1 DEF IInv, JobsInv
<1>4. TaskInv'
  BY <1>0 DEF IInv, TaskInv
<1>5. OnceInv'
  BY <1>0 DEF IInv, OnceInv, OneActionPerMessage, Fault
<1>6. SyncInv'
  BY <1>0 DEF IInv, SyncInv, Fault
<1> QED BY <1>1, <1>2, <1>3, <1>4, <1>5, <1>6 DEF IInv

\* The chains stay what they are.
LEMMA WorldKept ==
  ASSUME WorldInv, setting' = setting,
         collateral' \in [Chains -> Nat], inventory' \in [Chains -> Nat],
         msgs' \in Seq(MessageSet), moves' \in Seq(MoveSet), MessagesKeep(msgs, msgs'),
         \A m \in DOMAIN msgs' \ DOMAIN msgs :
           msgs'[m].kind = "rebalance" => msgs'[m].amount > 0,
         \A m \in DOMAIN transfers' : m \in Kind("transfer"),
         event' \in EventSet, event'.delivered \subseteq Delivered,
         \A o \in orphans' : o.delivered \subseteq Delivered
  PROVE  WorldInv' /\ Delivered \subseteq Delivered'
<1>1. Delivered \subseteq Delivered'
  BY DEF Delivered, MessagesKeep
<1>2. Kind("transfer") \subseteq Kind("transfer")'
  BY DEF Kind, MessagesKeep
<1>3. \A m \in DOMAIN msgs' : msgs'[m].kind = "rebalance" => msgs'[m].amount > 0
  BY DEF WorldInv, MessagesKeep
<1>4. setting' \in Settings
  BY DEF WorldInv
<1> QED BY <1>1, <1>2, <1>3, <1>4 DEF WorldInv

\* The chains, the explorer and the bridge do something on their own.
LEMMA WorldMoves ==
  ASSUME IInv, UNCHANGED <<setting, stores, cycle>>,
         collateral' \in [Chains -> Nat], inventory' \in [Chains -> Nat],
         msgs' \in Seq(MessageSet), moves' \in Seq(MoveSet), Len(moves) <= Len(moves'),
         MessagesKeep(msgs, msgs'),
         \A m \in DOMAIN msgs' \ DOMAIN msgs :
           msgs'[m].kind = "transfer" /\ msgs'[m].intent = 0
  PROVE  IInv'
<1>0. /\ setting' = setting /\ intents' = intents /\ actions' = actions
      /\ event' = event /\ orphans' = orphans /\ transfers' = transfers
  BY DEF stores, cycle
<1>1. WorldInv' /\ Delivered \subseteq Delivered'
  <2>1. WorldInv /\ \A m \in DOMAIN msgs' \ DOMAIN msgs :
                      msgs'[m].kind = "rebalance" => msgs'[m].amount > 0
    BY DEF IInv
  <2>2. /\ \A m \in DOMAIN transfers' : m \in Kind("transfer")
        /\ event' \in EventSet /\ event'.delivered \subseteq Delivered
        /\ \A o \in orphans' : o.delivered \subseteq Delivered
    BY <1>0 DEF IInv, WorldInv
  <2> QED BY <1>0, <2>1, <2>2, WorldKept
<1>2. msgs \in Seq(MessageSet) /\ moves \in Seq(MoveSet)
  BY DEF IInv, WorldInv
<1>3. /\ Len(msgs) \in Nat /\ Len(moves) \in Nat /\ Len(msgs') \in Nat /\ Len(moves') \in Nat
      /\ Len(msgs) <= Len(msgs')
  BY <1>2 DEF MessagesKeep
<1>4. DepositInv'
  <2>1. \A i \in Nat \ {0} : Sent(msgs', i) = Sent(msgs, i)
    BY <1>2, SameSent
  <2>2. DOMAIN intents \subseteq Nat \ {0}
    BY DEF IInv, StoreInv, Typed
  <2>3. \A i \in DOMAIN intents : Sent(msgs', i) = Sent(msgs, i)
    BY <2>1, <2>2
  <2> QED BY <1>0, <2>3 DEF IInv, DepositInv, Fault
<1>5. \A m \in DOMAIN msgs' : msgs'[m].intent <= Len(intents)
  <2>1. \A m \in DOMAIN msgs : msgs[m].intent <= Len(intents)
    BY DEF IInv, NamesInv
  <2>2. 0 <= Len(intents)
    BY DEF IInv, StoreInv, Typed
  <2> QED BY <2>1, <2>2 DEF MessagesKeep
<1> QED BY <1>1, <1>3, <1>4, <1>5, ChainsMove

\* A message that is dispatched.
LEMMA MessageType ==
  ASSUME NEW k \in {"transfer", "rebalance", "deposit"}, NEW o \in Chains, NEW d \in Chains,
         NEW v \in Nat, NEW i \in Nat, NEW x, x = Message(k, o, d, v, i)
  PROVE  /\ x \in MessageSet /\ x.kind = k /\ x.amount = v /\ x.intent = i
         /\ x.origin = o /\ x.destination = d
BY DEF Message, MessageSet

\* Messages with one more.
LEMMA MessageAppended ==
  ASSUME NEW ms \in Seq(MessageSet), NEW x \in MessageSet, NEW mt, mt = Append(ms, x)
  PROVE  /\ mt \in Seq(MessageSet) /\ MessagesKeep(ms, mt) /\ Longer(ms, x, mt)
         /\ \A m \in DOMAIN mt \ DOMAIN ms : mt[m] = x
<1>1. mt \in Seq(MessageSet) /\ Longer(ms, x, mt)
  BY Appended, Zenon
<1> QED BY <1>1 DEF Longer, MessagesKeep

\* A user transfers.
LEMMA UserTransferStep ==
  ASSUME IInv, NEW o \in Chains, NEW d \in Chains, UserTransfer(o, d)
  PROVE  IInv'
<1>1. /\ collateral \in [Chains -> Nat] /\ inventory \in [Chains -> Nat]
      /\ msgs \in Seq(MessageSet) /\ moves \in Seq(MoveSet)
  BY DEF IInv, WorldInv
<1>2. TransferAmount \in Nat
  BY AmountsAssumption
<1>3. collateral' \in [Chains -> Nat]
  BY <1>1, <1>2 DEF UserTransfer
<1>4. PICK x : x = Message("transfer", o, d, TransferAmount, 0)
  OBVIOUS
<1>5. x \in MessageSet /\ x.kind = "transfer" /\ x.intent = 0
  BY <1>2, <1>4, MessageType
<1>6. msgs' = Append(msgs, x)
  BY <1>4 DEF UserTransfer
<1>7. /\ msgs' \in Seq(MessageSet) /\ MessagesKeep(msgs, msgs')
      /\ \A m \in DOMAIN msgs' \ DOMAIN msgs : msgs'[m] = x
  BY <1>1, <1>5, <1>6, MessageAppended, Zenon
<1>8. \A m \in DOMAIN msgs' \ DOMAIN msgs : msgs'[m].kind = "transfer" /\ msgs'[m].intent = 0
  BY <1>5, <1>7
<1>9. UNCHANGED <<setting, stores, cycle>> /\ inventory' = inventory /\ moves' = moves
  BY DEF UserTransfer
<1>10. Len(moves) <= Len(moves') /\ inventory' \in [Chains -> Nat] /\ moves' \in Seq(MoveSet)
  BY <1>1, <1>9
<1> QED BY <1>3, <1>7, <1>8, <1>9, <1>10, WorldMoves

\* Messages of which one is delivered, or indexed.
LEMMA MessageMarked ==
  ASSUME NEW ms \in Seq(MessageSet), NEW m \in DOMAIN ms, NEW mt,
         \/ mt = [ms EXCEPT ![m].delivered = TRUE]
         \/ mt = [ms EXCEPT ![m].explorer = "inflight"]
         \/ mt = [ms EXCEPT ![m].explorer = "delivered"]
  PROVE  mt \in Seq(MessageSet) /\ DOMAIN mt = DOMAIN ms /\ MessagesKeep(ms, mt)
<1>1. ms[m] \in MessageSet
  BY ElementOf
<1>2. PICK x \in MessageSet : /\ mt = [ms EXCEPT ![m] = x]
                              /\ x.kind = ms[m].kind /\ x.amount = ms[m].amount
                              /\ x.intent = ms[m].intent /\ (ms[m].delivered => x.delivered)
  <2>1. CASE mt = [ms EXCEPT ![m].delivered = TRUE]
    <3>1. PICK x : x = [ms[m] EXCEPT !.delivered = TRUE]
      OBVIOUS
    <3>2. /\ x \in MessageSet /\ x.kind = ms[m].kind /\ x.amount = ms[m].amount
          /\ x.intent = ms[m].intent /\ x.delivered
      BY <1>1, <3>1 DEF MessageSet
    <3>3. mt = [ms EXCEPT ![m] = x]
      BY <2>1, <3>1
    <3> QED BY <3>2, <3>3
  <2>2. CASE mt = [ms EXCEPT ![m].explorer = "inflight"]
    <3>1. PICK x : x = [ms[m] EXCEPT !.explorer = "inflight"]
      OBVIOUS
    <3>2. /\ x \in MessageSet /\ x.kind = ms[m].kind /\ x.amount = ms[m].amount
          /\ x.intent = ms[m].intent /\ x.delivered = ms[m].delivered
      BY <1>1, <3>1 DEF MessageSet
    <3>3. mt = [ms EXCEPT ![m] = x]
      BY <2>2, <3>1
    <3> QED BY <3>2, <3>3
  <2>3. CASE mt = [ms EXCEPT ![m].explorer = "delivered"]
    <3>1. PICK x : x = [ms[m] EXCEPT !.explorer = "delivered"]
      OBVIOUS
    <3>2. /\ x \in MessageSet /\ x.kind = ms[m].kind /\ x.amount = ms[m].amount
          /\ x.intent = ms[m].intent /\ x.delivered = ms[m].delivered
      BY <1>1, <3>1 DEF MessageSet
    <3>3. mt = [ms EXCEPT ![m] = x]
      BY <2>3, <3>1
    <3> QED BY <3>2, <3>3
  <2> QED BY <2>1, <2>2, <2>3
<1> QED BY <1>2 DEF MessagesKeep

\* A message is delivered.
LEMMA DeliverStep ==
  ASSUME IInv, NEW m \in DOMAIN msgs, Deliver(m)
  PROVE  IInv'
<1>1. /\ collateral \in [Chains -> Nat] /\ inventory \in [Chains -> Nat]
      /\ msgs \in Seq(MessageSet) /\ moves \in Seq(MoveSet)
  BY DEF IInv, WorldInv
<1>2. msgs[m] \in MessageSet
  BY <1>1, ElementOf
<1>3. msgs[m].destination \in Chains /\ msgs[m].amount \in Nat
  BY <1>2 DEF MessageSet
<1>4. PICK d \in Chains, v \in Nat : d = msgs[m].destination /\ v = msgs[m].amount
  BY <1>3
<1>5. collateral' \in [Chains -> Nat]
  <2>1. CASE msgs[m].kind = "rebalance"
    <3>1. collateral' = [collateral EXCEPT ![d] = @ + v]
      BY <1>4, <2>1 DEF Deliver
    <3> QED BY <1>1, <3>1
  <2>2. CASE msgs[m].kind # "rebalance"
    <3>1. collateral' = [collateral EXCEPT ![d] = @ - v] /\ collateral[d] >= v
      BY <1>4, <2>2 DEF Deliver
    <3>2. collateral[d] - v \in Nat
      BY <1>1, <3>1
    <3> QED BY <1>1, <3>1, <3>2
  <2> QED BY <2>1, <2>2
<1>6. inventory' \in [Chains -> Nat]
  <2>1. inventory' = inventory \/ inventory' = [inventory EXCEPT ![d] = @ + v]
    BY <1>4 DEF Deliver
  <2> QED BY <1>1, <2>1
<1>7. msgs' \in Seq(MessageSet) /\ DOMAIN msgs' = DOMAIN msgs /\ MessagesKeep(msgs, msgs')
  <2>1. msgs' = [msgs EXCEPT ![m].delivered = TRUE]
    BY DEF Deliver
  <2> QED BY <1>1, <2>1, MessageMarked
<1>8. UNCHANGED <<setting, stores, cycle>> /\ moves' = moves
  BY DEF Deliver
<1>9. Len(moves) <= Len(moves') /\ moves' \in Seq(MoveSet)
  BY <1>1, <1>8
<1> QED BY <1>5, <1>6, <1>7, <1>8, <1>9, WorldMoves

\* The explorer indexes a message.
LEMMA ExplorerIndexesStep ==
  ASSUME IInv, NEW m \in DOMAIN msgs, ExplorerIndexes(m)
  PROVE  IInv'
<1>1. /\ collateral \in [Chains -> Nat] /\ inventory \in [Chains -> Nat]
      /\ msgs \in Seq(MessageSet) /\ moves \in Seq(MoveSet)
  BY DEF IInv, WorldInv
<1>2. msgs' \in Seq(MessageSet) /\ DOMAIN msgs' = DOMAIN msgs /\ MessagesKeep(msgs, msgs')
  <2>1. \/ msgs' = [msgs EXCEPT ![m].explorer = "inflight"]
        \/ msgs' = [msgs EXCEPT ![m].explorer = "delivered"]
    BY DEF ExplorerIndexes
  <2> QED BY <1>1, <2>1, MessageMarked
<1>3. /\ UNCHANGED <<setting, stores, cycle>>
      /\ moves' = moves /\ collateral' = collateral /\ inventory' = inventory
  BY DEF ExplorerIndexes
<1>4. /\ Len(moves) <= Len(moves') /\ moves' \in Seq(MoveSet)
      /\ collateral' \in [Chains -> Nat] /\ inventory' \in [Chains -> Nat]
  BY <1>1, <1>3
<1> QED BY <1>2, <1>3, <1>4, WorldMoves

\* A movement over the external bridge ends.
LEMMA MoveEndsStep ==
  ASSUME IInv, NEW v \in DOMAIN moves, MoveEnds(v)
  PROVE  IInv'
<1>1. /\ collateral \in [Chains -> Nat] /\ inventory \in [Chains -> Nat]
      /\ msgs \in Seq(MessageSet) /\ moves \in Seq(MoveSet)
  BY DEF IInv, WorldInv
<1>2. moves[v] \in MoveSet
  BY <1>1, ElementOf
<1>3. moves[v].origin \in Chains /\ moves[v].destination \in Chains /\ moves[v].amount \in Nat
  BY <1>2 DEF MoveSet
<1>4. PICK c \in Chains, st \in {"complete", "failed"} :
        /\ moves' = [moves EXCEPT ![v].status = st]
        /\ inventory' = [inventory EXCEPT ![c] = @ + moves[v].amount]
  BY <1>3 DEF MoveEnds
<1>5. inventory' \in [Chains -> Nat]
  BY <1>1, <1>3, <1>4
<1>6. moves' \in Seq(MoveSet) /\ Len(moves) <= Len(moves')
  <2>1. PICK x : x = [moves[v] EXCEPT !.status = st]
    OBVIOUS
  <2>2. x \in MoveSet
    BY <1>2, <2>1 DEF MoveSet
  <2>3. moves' = [moves EXCEPT ![v] = x]
    BY <1>4, <2>1
  <2> QED BY <1>1, <2>2, <2>3
<1>7. UNCHANGED <<setting, stores, cycle>> /\ msgs' = msgs /\ collateral' = collateral
  BY DEF MoveEnds
<1>8. /\ msgs' \in Seq(MessageSet) /\ MessagesKeep(msgs, msgs') /\ DOMAIN msgs' = DOMAIN msgs
      /\ collateral' \in [Chains -> Nat]
  BY <1>1, <1>7 DEF MessagesKeep
<1> QED BY <1>5, <1>6, <1>7, <1>8, WorldMoves

-----------------------------------------------------------------------------
(* The steps that change the stores alone *)

\* What such a step leaves to be shown.
LEMMA StoresMove ==
  ASSUME IInv, UNCHANGED world, StoreInv(intents', actions'), KeepsIntents(intents, intents'),
         KeepsActions(actions, actions'),
         \A a \in DOMAIN actions' \ DOMAIN actions :
           actions'[a].msg <= Len(msgs) /\ actions'[a].move <= Len(moves),
         \A i : Deposited(actions', i) = Deposited(actions, i),
         \A m \in DOMAIN transfers' : m \in Kind("transfer"),
         event' \in EventSet, event'.delivered \subseteq Delivered,
         \A o \in orphans' : o.delivered \subseteq Delivered,
         JobsInv', TaskInv', OnceInv', SyncInv'
  PROVE  IInv'
<1>0. /\ setting' = setting /\ msgs' = msgs /\ moves' = moves
      /\ collateral' = collateral /\ inventory' = inventory
  BY DEF world
<1>1. WorldInv'
  <2>1. /\ collateral' \in [Chains -> Nat] /\ inventory' \in [Chains -> Nat]
        /\ msgs' \in Seq(MessageSet) /\ moves' \in Seq(MoveSet) /\ WorldInv
    BY <1>0 DEF IInv, WorldInv
  <2>2. MessagesKeep(msgs, msgs') /\ DOMAIN msgs' = DOMAIN msgs
    BY <1>0 DEF MessagesKeep
  <2> QED BY <1>0, <2>1, <2>2, WorldKept
<1>2. /\ intents \in Seq(IntentSet) /\ intents' \in Seq(IntentSet)
      /\ actions \in Seq(ActionSet) /\ actions' \in Seq(ActionSet)
  BY DEF IInv, StoreInv, Typed
<1>3. Len(intents) \in Nat /\ Len(intents') \in Nat /\ Len(intents) <= Len(intents')
  BY <1>2 DEF KeepsIntents
<1>4. NamesInv'
  <2>1. ASSUME NEW a \in DOMAIN actions'
        PROVE  actions'[a].msg <= Len(msgs) /\ actions'[a].move <= Len(moves)
    BY DEF IInv, NamesInv, KeepsActions
  <2>2. ASSUME NEW m \in DOMAIN msgs PROVE msgs[m].intent <= Len(intents')
    <3>1. msgs[m] \in MessageSet
      BY ElementOf DEF IInv, WorldInv
    <3>2. msgs[m].intent \in Nat /\ msgs[m].intent <= Len(intents)
      BY <3>1 DEF IInv, NamesInv, MessageSet
    <3> QED BY <1>3, <3>2
  <2> QED BY <1>0, <2>1, <2>2 DEF NamesInv
<1>5. DepositInv'
  <2>1. SUFFICES ASSUME ~Fault("lost"), NEW i \in DOMAIN intents'
                 PROVE  Sent(msgs, i) = Deposited(actions', i)
    BY <1>0 DEF DepositInv, Fault
  <2>2. CASE i \in DOMAIN intents
    BY <2>1, <2>2 DEF IInv, DepositInv
  <2>3. CASE i \notin DOMAIN intents
    <3>1. ~(i <= Len(intents)) /\ i \in Nat
      BY <1>2, <2>3
    <3>2. MessagesOf(msgs, i) = {}
      BY <3>1 DEF MessagesOf, IInv, NamesInv
    <3>3. Sent(msgs, i) = 0
      <4>1. IsFiniteSet({})
        BY FS_EmptySet
      <4>2. AmountOf(msgs, {}) = 0
        BY <4>1, AmountFacts
      <4> QED BY <3>2, <4>2 DEF Sent
    <3>4. DepositsOf(actions, i) = {}
      BY <2>3 DEF DepositsOf, IInv, StoreInv, Typed
    <3>5. Deposited(actions, i) = 0
      BY <1>2, <3>4, DepositedType
    <3> QED BY <3>3, <3>5
  <2> QED BY <2>2, <2>3
<1> QED BY <1>1, <1>4, <1>5 DEF IInv

\* The intent of a job still waits.
LEMMA JobStays ==
  ASSUME NEW is, NEW as, NEW job, JobFits(is, as, job), NEW it, NEW at, KeepsIntents(is, it),
         KeepsActions(as, at), it[job.intent].status = is[job.intent].status,
         \A a \in DOMAIN at \ DOMAIN as : at[a].intent # job.intent
  PROVE  JobFits(it, at, job)
BY DEF JobFits, KeepsIntents, KeepsActions

\* The intent of a task still awaits nothing.
LEMMA TaskStays ==
  ASSUME NEW is, NEW as, NEW i, NEW n, TaskFits(is, as, i, n), NEW it, NEW at,
         KeepsIntents(is, it), KeepsActions(as, at),
         it[i].status \in {"not_started", "in_progress"},
         \A a \in DOMAIN at \ DOMAIN as : at[a].intent # i,
         \A a \in DOMAIN as : at[a].status = "in_progress" => as[a].status = "in_progress",
         Deposited(at, i) = Deposited(as, i)
  PROVE  TaskFits(it, at, i, n)
BY DEF TaskFits, KeepsIntents, KeepsActions

\* Time passes for intents and movements.
LEMMA TimePasses ==
  ASSUME IInv, UNCHANGED <<world, transfers, cycle>>,
         intents' \in Seq(IntentSet), actions' \in Seq(ActionSet),
         KeepsIntents(intents, intents'), DOMAIN intents' = DOMAIN intents,
         KeepsActions(actions, actions'), DOMAIN actions' = DOMAIN actions,
         \A i \in DOMAIN intents : intents'[i].status = intents[i].status,
         \A a \in DOMAIN actions : actions'[a].status = actions[a].status
  PROVE  IInv'
<1>0. /\ setting' = setting /\ msgs' = msgs /\ transfers' = transfers
      /\ pc' = pc /\ event' = event /\ asked' = asked /\ orphans' = orphans /\ jobs' = jobs
      /\ wanted' = wanted /\ task' = task
  BY DEF world, cycle
<1>1. StoreInv(intents, actions)
  BY DEF IInv
<1>2. Ends(intents, actions, intents', actions')
  BY DEF Ends
<1>3. StoreInv(intents', actions') /\ \A i : Deposited(actions', i) = Deposited(actions, i)
  BY <1>1, <1>2, EndsInv
<1>4. JobsInv'
  <2>1. ASSUME NEW j \in DOMAIN jobs PROVE JobFits(intents', actions', jobs[j])
    <3>1. JobFits(intents, actions, jobs[j])
      BY DEF IInv, JobsInv
    <3>2. intents'[jobs[j].intent].status = intents[jobs[j].intent].status
      BY <3>1 DEF JobFits
    <3> QED BY <3>1, <3>2, JobStays
  <2> QED BY <1>0, <2>1 DEF IInv, JobsInv
<1>5. TaskInv'
  <2>1. ASSUME pc = "execute" PROVE TaskFits(intents', actions', task.intent, task.amount)
    <3>1. TaskFits(intents, actions, task.intent, task.amount)
      BY <2>1 DEF IInv, TaskInv
    <3>2. intents'[task.intent].status \in {"not_started", "in_progress"}
      BY <3>1 DEF TaskFits
    <3>3. PICK i, n : i = task.intent /\ n = task.amount
      OBVIOUS
    <3> QED BY <1>3, <3>1, <3>2, TaskStays
  <2> QED BY <1>0, <2>1 DEF IInv, TaskInv
<1>6. OnceInv'
  BY <1>0 DEF IInv, OnceInv, OneActionPerMessage, Fault, KeepsActions
<1>7. SyncInv'
  BY <1>0 DEF IInv, SyncInv, Fault, Delivered, KeepsActions
<1>8. /\ \A m \in DOMAIN transfers' : m \in Kind("transfer")
      /\ event' \in EventSet /\ event'.delivered \subseteq Delivered
      /\ \A o \in orphans' : o.delivered \subseteq Delivered
  BY <1>0 DEF IInv, WorldInv
<1> QED BY <1>3, <1>4, <1>5, <1>6, <1>7, <1>8, StoresMove

\* An intent outlives its TTL.
LEMMA IntentGrowsOldStep ==
  ASSUME IInv, NEW i \in DOMAIN intents, IntentGrowsOld(i)
  PROVE  IInv'
<1>1. intents \in Seq(IntentSet) /\ actions \in Seq(ActionSet)
  BY DEF IInv, StoreInv, Typed
<1>2. intents' = [intents EXCEPT ![i].old = TRUE] /\ actions' = actions
  BY DEF IntentGrowsOld
<1>3. PICK x : x = [intents[i] EXCEPT !.old = TRUE]
  OBVIOUS
<1>4. intents[i] \in IntentSet
  BY <1>1, ElementOf
<1>5. /\ x \in IntentSet /\ x.amount = intents[i].amount /\ x.method = intents[i].method
      /\ x.status = intents[i].status
  BY <1>3, <1>4 DEF IntentSet
<1>6. intents' = [intents EXCEPT ![i] = x]
  BY <1>2, <1>3
<1>7. /\ intents' \in Seq(IntentSet) /\ DOMAIN intents' = DOMAIN intents
      /\ KeepsIntents(intents, intents')
      /\ \A k \in DOMAIN intents : intents'[k].status = intents[k].status
  BY <1>1, <1>5, <1>6 DEF KeepsIntents
<1>8. /\ actions' \in Seq(ActionSet) /\ DOMAIN actions' = DOMAIN actions
      /\ KeepsActions(actions, actions')
      /\ \A a \in DOMAIN actions : actions'[a].status = actions[a].status
  BY <1>1, <1>2 DEF KeepsActions
<1>9. UNCHANGED <<world, transfers, cycle>>
  BY DEF IntentGrowsOld
<1> QED BY <1>7, <1>8, <1>9, TimePasses

\* A movement outlives the staleness window.
LEMMA MovementGrowsStaleStep ==
  ASSUME IInv, NEW a \in DOMAIN actions, MovementGrowsStale(a)
  PROVE  IInv'
<1>1. intents \in Seq(IntentSet) /\ actions \in Seq(ActionSet)
  BY DEF IInv, StoreInv, Typed
<1>2. actions' = [actions EXCEPT ![a].stale = TRUE] /\ intents' = intents
  BY DEF MovementGrowsStale
<1>3. PICK x : x = [actions[a] EXCEPT !.stale = TRUE]
  OBVIOUS
<1>4. actions[a] \in ActionSet
  BY <1>1, ElementOf
<1>5. /\ x \in ActionSet /\ x.type = actions[a].type /\ x.intent = actions[a].intent
      /\ x.msg = actions[a].msg /\ x.move = actions[a].move /\ x.amount = actions[a].amount
      /\ x.status = actions[a].status
  BY <1>3, <1>4 DEF ActionSet
<1>6. actions' = [actions EXCEPT ![a] = x]
  BY <1>2, <1>3
<1>7. /\ actions' \in Seq(ActionSet) /\ DOMAIN actions' = DOMAIN actions
      /\ KeepsActions(actions, actions')
      /\ \A b \in DOMAIN actions : actions'[b].status = actions[b].status
  BY <1>1, <1>5, <1>6 DEF KeepsActions
<1>8. /\ intents' \in Seq(IntentSet) /\ DOMAIN intents' = DOMAIN intents
      /\ KeepsIntents(intents, intents')
      /\ \A k \in DOMAIN intents : intents'[k].status = intents[k].status
  BY <1>1, <1>2 DEF KeepsIntents
<1>9. UNCHANGED <<world, transfers, cycle>>
  BY DEF MovementGrowsStale
<1> QED BY <1>7, <1>8, <1>9, TimePasses

\* Stores that do not change.
LEMMA StoresRest ==
  ASSUME IInv, UNCHANGED <<world, intents, actions>>,
         \A m \in DOMAIN transfers' : m \in Kind("transfer"),
         event' \in EventSet, event'.delivered \subseteq Delivered,
         \A o \in orphans' : o.delivered \subseteq Delivered,
         JobsInv', TaskInv', OnceInv', SyncInv'
  PROVE  IInv'
<1>0. intents' = intents /\ actions' = actions /\ UNCHANGED world
  OBVIOUS
<1>1. /\ StoreInv(intents', actions') /\ KeepsIntents(intents, intents')
      /\ KeepsActions(actions, actions') /\ DOMAIN actions' \ DOMAIN actions = {}
      /\ \A i : Deposited(actions', i) = Deposited(actions, i)
  BY <1>0 DEF IInv, KeepsIntents, KeepsActions
<1> QED BY <1>0, <1>1, StoresMove

\* The event of no cycle.
LEMMA NoEventType == NoEvent \in EventSet /\ NoEvent.delivered = {}
BY DEF NoEvent, EventSet

\* The polling event is read, and intents that have ended are closed.
LEMMA PollStep ==
  ASSUME IInv, Poll
  PROVE  IInv'
<1>0. /\ pc = "idle" /\ pc' = "sync" /\ asked' = {"transfers", "actions"}
      /\ event' = [raw |-> collateral, delivered |-> Delivered, inventory |-> inventory]
      /\ UNCHANGED <<world, transfers, orphans, jobs, wanted, task>>
      /\ SetStore(syncRebalanceIntents(Store))
  BY DEF Poll
<1>1. PICK t : t = syncRebalanceIntents(Store)
  OBVIOUS
<1>2. intents' = t.intents /\ actions' = t.actions
  BY <1>0, <1>1 DEF SetStore
<1>3. Store.intents = intents /\ Store.actions = actions /\ StoreInv(intents, actions)
  BY DEF Store, IInv
<1>4. /\ t.intents \in Seq(IntentSet) /\ t.actions \in Seq(ActionSet)
      /\ Ends(intents, actions, t.intents, t.actions)
      /\ \A a \in DOMAIN actions : t.actions[a].status = "complete" => actions[a].status = "complete"
  BY <1>1, <1>3, SyncIntentsDoes
<1>5. /\ KeepsIntents(intents, intents') /\ DOMAIN intents' = DOMAIN intents
      /\ KeepsActions(actions, actions') /\ DOMAIN actions' = DOMAIN actions
  BY <1>2, <1>4 DEF Ends
<1>6. StoreInv(intents', actions') /\ \A i : Deposited(actions', i) = Deposited(actions, i)
  BY <1>2, <1>3, <1>4, EndsInv
<1>7. event' \in EventSet /\ event'.delivered = Delivered
  <2>1. DOMAIN msgs \subseteq Nat
    BY DEF IInv, WorldInv
  <2>2. Delivered \subseteq Nat
    BY <2>1 DEF Delivered
  <2> QED BY <1>0, <2>2 DEF EventSet, IInv, WorldInv
<1>8. JobsInv'
  BY <1>0 DEF IInv, JobsInv
<1>9. TaskInv'
  BY <1>0, <1>5 DEF IInv, TaskInv
<1>10. OnceInv'
  BY <1>0, <1>5 DEF IInv, OnceInv, JobsInv, OneActionPerMessage, Fault, KeepsActions, world
<1>11. SyncInv'
  <2>0. setting' = setting /\ Delivered' = Delivered
    BY <1>0 DEF world, Delivered
  <2>1. ASSUME ~Fault("explorer"), NEW a \in DOMAIN actions', actions'[a].type = "rebalance_message",
               actions'[a].status = "complete"
        PROVE  actions'[a].msg \in Delivered
    BY <1>2, <1>4, <1>5, <2>1 DEF IInv, SyncInv, KeepsActions
  <2> QED BY <1>0, <1>7, <2>0, <2>1 DEF SyncInv, Fault
<1>12. /\ \A m \in DOMAIN transfers' : m \in Kind("transfer")
       /\ \A o \in orphans' : o.delivered \subseteq Delivered
  BY <1>0 DEF IInv, WorldInv
<1> QED BY <1>0, <1>5, <1>6, <1>7, <1>8, <1>9, <1>10, <1>11, <1>12, StoresMove

\* The movements are synced.
LEMMA SyncMovementsStep ==
  ASSUME IInv, SyncMovements
  PROVE  IInv'
<1>0. /\ pc = "sync" /\ pc' = "plan" /\ asked = {}
      /\ UNCHANGED <<world, transfers, event, asked, orphans, jobs, wanted, task>>
  BY DEF SyncMovements
<1>1. PICK answer \in BridgeAnswers : SetStore(syncInventoryMovementActions(Store, answer))
  BY DEF SyncMovements
<1>2. PICK t : t = syncInventoryMovementActions(Store, answer)
  OBVIOUS
<1>3. intents' = t.intents /\ actions' = t.actions
  BY <1>1, <1>2 DEF SetStore
<1>4. Store.intents = intents /\ Store.actions = actions /\ StoreInv(intents, actions)
  BY DEF Store, IInv
<1>5. /\ t.intents \in Seq(IntentSet) /\ t.actions \in Seq(ActionSet)
      /\ Ends(intents, actions, t.intents, t.actions)
      /\ \A a \in DOMAIN actions :
           t.actions[a].status # actions[a].status => actions[a].type = "inventory_movement"
  BY <1>2, <1>4, SyncMovementsDoes
<1>6. /\ KeepsIntents(intents, intents') /\ DOMAIN intents' = DOMAIN intents
      /\ KeepsActions(actions, actions') /\ DOMAIN actions' = DOMAIN actions
  BY <1>3, <1>5 DEF Ends
<1>7. StoreInv(intents', actions') /\ \A i : Deposited(actions', i) = Deposited(actions, i)
  BY <1>3, <1>4, <1>5, EndsInv
<1>8. JobsInv'
  BY <1>0 DEF IInv, JobsInv
<1>9. TaskInv'
  BY <1>0, <1>6 DEF IInv, TaskInv
<1>10. OnceInv'
  BY <1>0, <1>6 DEF IInv, OnceInv, JobsInv, OneActionPerMessage, Fault, KeepsActions, world
<1>11. SyncInv'
  <2>0. setting' = setting /\ Delivered' = Delivered
    BY <1>0 DEF world, Delivered
  <2>1. ASSUME NEW a \in DOMAIN actions', actions'[a].type = "rebalance_message"
        PROVE  /\ actions[a].type = "rebalance_message" /\ actions'[a].status = actions[a].status
               /\ actions'[a].msg = actions[a].msg
    BY <1>3, <1>5, <1>6, <2>1 DEF KeepsActions
  <2> QED BY <1>0, <1>6, <2>0, <2>1 DEF IInv, SyncInv, Fault
<1>12. /\ \A m \in DOMAIN transfers' : m \in Kind("transfer")
       /\ event' \in EventSet /\ event'.delivered \subseteq Delivered
       /\ \A o \in orphans' : o.delivered \subseteq Delivered
  BY <1>0 DEF IInv, WorldInv
<1> QED BY <1>0, <1>6, <1>7, <1>8, <1>9, <1>10, <1>11, <1>12, StoresMove

\* An explorer query fails.
LEMMA ExplorerFailsStep ==
  ASSUME IInv, NEW q, ExplorerFails(q)
  PROVE  IInv'
<1>0. /\ Fault("explorer") /\ pc = "sync" /\ pc' = "plan"
      /\ UNCHANGED <<world, stores, event, jobs, wanted, task>>
      /\ \A o \in orphans' : o.delivered = event.delivered
  BY DEF ExplorerFails
<1>1. /\ \A m \in DOMAIN transfers' : m \in Kind("transfer")
      /\ event' \in EventSet /\ event'.delivered \subseteq Delivered
      /\ \A o \in orphans' : o.delivered \subseteq Delivered
  BY <1>0 DEF IInv, WorldInv, stores
<1>2. OnceInv' /\ SyncInv'
  BY <1>0 DEF OnceInv, SyncInv, Fault, world
<1>3. JobsInv'
  BY <1>0 DEF IInv, JobsInv
<1>4. TaskInv'
  BY <1>0 DEF IInv, TaskInv, stores
<1>5. UNCHANGED <<world, intents, actions>>
  BY <1>0 DEF stores
<1> QED BY <1>1, <1>2, <1>3, <1>4, <1>5, StoresRest

\* A route is not sent.
LEMMA RebalanceFailsStep ==
  ASSUME IInv, NEW j \in DOMAIN jobs, RebalanceFails(j)
  PROVE  IInv'
<1>0. /\ pc = "send" /\ jobs' = [jobs EXCEPT ![j].state = "failed"]
      /\ UNCHANGED <<world, stores, pc, event, asked, orphans, wanted, task>>
  BY DEF RebalanceFails
<1>1. /\ \A m \in DOMAIN transfers' : m \in Kind("transfer")
      /\ event' \in EventSet /\ event'.delivered \subseteq Delivered
      /\ \A o \in orphans' : o.delivered \subseteq Delivered
  BY <1>0 DEF IInv, WorldInv, stores
<1>2. jobs \in Seq(JobSet)
  BY DEF IInv, JobsInv
<1>3. PICK x : x = [jobs[j] EXCEPT !.state = "failed"]
  OBVIOUS
<1>4. jobs[j] \in JobSet
  BY <1>2, ElementOf
<1>5. /\ x \in JobSet /\ x.intent = jobs[j].intent /\ x.route = jobs[j].route
      /\ x.msg = jobs[j].msg /\ x.state = "failed"
  BY <1>3, <1>4 DEF JobSet
<1>6. jobs' = [jobs EXCEPT ![j] = x]
  BY <1>0, <1>3
<1>7. /\ jobs' \in Seq(JobSet) /\ DOMAIN jobs' = DOMAIN jobs /\ jobs'[j] = x
      /\ \A k \in DOMAIN jobs : k # j => jobs'[k] = jobs[k]
  BY <1>2, <1>5, <1>6
<1>8. JobsInv'
  <2>1. JobFits(intents, actions, x)
    BY <1>5 DEF IInv, JobsInv, JobFits
  <2>2. \A k \in DOMAIN jobs' : /\ JobFits(intents, actions, jobs'[k]) /\ jobs'[k].msg <= Len(msgs)
                                /\ jobs'[k].intent = jobs[k].intent
    BY <1>5, <1>7, <2>1 DEF IInv, JobsInv
  <2>3. \A k, l \in DOMAIN jobs' : k # l => jobs'[k].intent # jobs'[l].intent
    BY <1>7, <2>2 DEF IInv, JobsInv
  <2> QED BY <1>0, <1>7, <2>2, <2>3 DEF JobsInv, stores, world
<1>9. TaskInv'
  BY <1>0 DEF IInv, TaskInv, stores
<1>10. OnceInv'
  BY <1>0, <1>5, <1>7 DEF IInv, OnceInv, OneActionPerMessage, Fault, world, stores
<1>11. SyncInv'
  BY <1>0 DEF IInv, SyncInv, Fault, Delivered, world, stores
<1>12. UNCHANGED <<world, intents, actions>>
  BY <1>0 DEF stores
<1> QED BY <1>1, <1>8, <1>9, <1>10, <1>11, <1>12, StoresRest

\* A task ends without a change of the stores.
LEMMA DepositFailsStep ==
  ASSUME IInv, DepositFails
  PROVE  IInv'
<1>0. /\ pc = "execute" /\ pc' = "idle" /\ event' = NoEvent /\ task' = NoTask
      /\ UNCHANGED <<world, stores, asked, orphans, jobs, wanted>>
  BY DEF DepositFails, EndTask, EndCycle
<1>1. /\ \A m \in DOMAIN transfers' : m \in Kind("transfer")
      /\ event' \in EventSet /\ event'.delivered \subseteq Delivered
      /\ \A o \in orphans' : o.delivered \subseteq Delivered
  BY <1>0, NoEventType DEF IInv, WorldInv, stores
<1>2. JobsInv'
  BY <1>0 DEF IInv, JobsInv
<1>3. TaskInv'
  BY <1>0 DEF IInv, TaskInv, NoTask
<1>4. OnceInv'
  BY <1>0 DEF IInv, OnceInv, OneActionPerMessage, Fault, world, stores
<1>5. SyncInv'
  BY <1>0 DEF IInv, SyncInv, Fault, Delivered, world, stores
<1>6. UNCHANGED <<world, intents, actions>>
  BY <1>0 DEF stores
<1> QED BY <1>1, <1>2, <1>3, <1>4, <1>5, <1>6, StoresRest

\* A remainder below the cost of a deposit is accepted as a loss.
LEMMA AcceptLossStep ==
  ASSUME IInv, AcceptLoss
  PROVE  IInv'
<1>0. /\ pc = "execute" /\ pc' = "idle" /\ event' = NoEvent /\ task' = NoTask
      /\ intents' = [intents EXCEPT ![task.intent].status = "complete"]
      /\ UNCHANGED <<world, transfers, actions, asked, orphans, jobs, wanted>>
  BY DEF AcceptLoss, EndTask, EndCycle
<1>1. intents \in Seq(IntentSet) /\ actions \in Seq(ActionSet) /\ StoreInv(intents, actions)
  BY DEF IInv, StoreInv, Typed
<1>2. PICK i : i = task.intent
  OBVIOUS
<1>3. /\ i \in DOMAIN intents /\ intents[i].status \in {"not_started", "in_progress"}
      /\ \A a \in DOMAIN actions : actions[a].intent = i => actions[a].status # "in_progress"
  BY <1>0, <1>2 DEF IInv, TaskInv, TaskFits
<1>4. PICK x : x = [intents[i] EXCEPT !.status = "complete"]
  OBVIOUS
<1>5. x \in IntentSet /\ x.amount = intents[i].amount /\ x.method = intents[i].method
  <2>1. intents[i] \in IntentSet /\ "complete" \in Statuses
    BY <1>1, <1>3, ElementOf DEF Statuses
  <2> QED BY <1>4, <2>1, IntentStatus DEF AsIntent
<1>6. intents' = [intents EXCEPT ![i] = x]
  BY <1>0, <1>2, <1>4
<1>7. /\ intents' \in Seq(IntentSet) /\ DOMAIN intents' = DOMAIN intents
      /\ KeepsIntents(intents, intents') /\ \A k \in DOMAIN intents : k # i => intents'[k] = intents[k]
  BY <1>1, <1>3, <1>5, <1>6 DEF KeepsIntents
<1>8. actions' = actions /\ KeepsActions(actions, actions')
  BY <1>0 DEF KeepsActions
<1>9. Ends(intents, actions, intents', actions')
  BY <1>3, <1>7, <1>8 DEF Ends
<1>10. StoreInv(intents', actions') /\ \A k : Deposited(actions', k) = Deposited(actions, k)
  <2>1. actions' \in Seq(ActionSet)
    BY <1>1, <1>8
  <2> QED BY <1>1, <1>7, <1>9, <2>1, EndsInv
<1>11. /\ \A m \in DOMAIN transfers' : m \in Kind("transfer")
       /\ event' \in EventSet /\ event'.delivered \subseteq Delivered
       /\ \A o \in orphans' : o.delivered \subseteq Delivered
  BY <1>0, NoEventType DEF IInv, WorldInv
<1>12. JobsInv'
  BY <1>0 DEF IInv, JobsInv
<1>13. TaskInv'
  BY <1>0 DEF IInv, TaskInv, NoTask
<1>14. OnceInv'
  BY <1>0 DEF IInv, OnceInv, JobsInv, OneActionPerMessage, Fault, world
<1>15. SyncInv'
  BY <1>0 DEF IInv, SyncInv, Fault, Delivered, world
<1> QED BY <1>0, <1>7, <1>8, <1>10, <1>11, <1>12, <1>13, <1>14, <1>15, StoresMove

-----------------------------------------------------------------------------
(* The explorer answers *)

\* The rebalances that the explorer reports can be recovered.
LEMMA ExplorerReports ==
  ASSUME IInv, NEW M, M = Explorer("rebalance")
  PROVE  IsFiniteSet(M) /\ \A m \in M : Recoverable(msgs, m) /\ m <= Len(msgs)
<1>1. msgs \in Seq(MessageSet) /\ M \subseteq DOMAIN msgs
  BY DEF IInv, WorldInv, Explorer, Kind
<1>2. IsFiniteSet(M) /\ DOMAIN msgs = 1..Len(msgs) /\ \A m \in M : msgs[m] \in MessageSet
  BY <1>1, Positions
<1>3. \A m \in M : msgs[m].amount > 0
  BY <1>1 DEF IInv, WorldInv, Explorer, Kind
<1>4. \A m \in M : m \in Nat \ {0} /\ m <= Len(msgs)
  BY <1>1, <1>2
<1> QED BY <1>2, <1>3, <1>4 DEF Recoverable

\* Transfers that are synced are transfers.
LEMMA TransfersSynced ==
  ASSUME NEW ts, \A m \in DOMAIN ts : m \in Kind("transfer"), NEW D,
         NEW tt, tt = syncTransfers(ts, Explorer("transfer"), D)
  PROVE  \A m \in DOMAIN tt : m \in Kind("transfer")
BY DEF syncTransfers, Explorer

\* What an answer changes: intents with an action in progress, and the stores
\* grow by what was not known.
Answers ==
  /\ StoreInv(intents', actions') /\ KeepsIntents(intents, intents')
  /\ KeepsActions(actions, actions')
  /\ \A i : Deposited(actions', i) = Deposited(actions, i)
  /\ \A a \in DOMAIN actions' \ DOMAIN actions :
       /\ actions'[a].msg <= Len(msgs) /\ actions'[a].move <= Len(moves)
       /\ actions'[a].intent \notin DOMAIN intents
  /\ \A a \in DOMAIN actions : actions[a].status # "in_progress" => actions'[a].status # "in_progress"
  /\ \A i \in DOMAIN intents : intents'[i] # intents[i] =>
       \E a \in DOMAIN actions : actions[a].intent = i /\ actions[a].status = "in_progress"

\* syncRebalanceActions is such a change.
LEMMA SyncedAnswers ==
  ASSUME IInv, NEW D, SetStore(syncRebalanceActions(Store, msgs, Explorer("rebalance"), D))
  PROVE  Answers /\ Synced(intents, actions, Explorer("rebalance"), D, intents', actions')
<1>1. PICK M : M = Explorer("rebalance")
  OBVIOUS
<1>2. PICK t : t = syncRebalanceActions(Store, msgs, M, D)
  OBVIOUS
<1>3. intents' = t.intents /\ actions' = t.actions
  BY <1>1, <1>2 DEF SetStore
<1>4. IsFiniteSet(M) /\ \A m \in M : Recoverable(msgs, m) /\ m <= Len(msgs)
  BY <1>1, ExplorerReports
<1>5. Store = [intents |-> intents, actions |-> actions] /\ StoreInv(intents, actions)
  BY DEF Store, IInv
<1>6. Synced(intents, actions, M, D, t.intents, t.actions)
  BY <1>2, <1>4, <1>5, SyncActionsDoes
<1>7. Synced(intents, actions, M, D, intents', actions')
  BY <1>3, <1>6
<1>8. 0 <= Len(moves)
  BY DEF IInv, WorldInv
<1>9. \A a \in DOMAIN actions' \ DOMAIN actions :
        /\ actions'[a].msg <= Len(msgs) /\ actions'[a].move <= Len(moves)
        /\ actions'[a].intent \notin DOMAIN intents
  BY <1>4, <1>7, <1>8 DEF Synced
<1> QED BY <1>1, <1>7, <1>9 DEF Answers, Synced

\* Nothing is such a change too.
LEMMA UnchangedAnswers ==
  ASSUME IInv, UNCHANGED <<intents, actions>>
  PROVE  Answers
<1>0. intents' = intents /\ actions' = actions
  OBVIOUS
<1> QED BY <1>0 DEF IInv, Answers, KeepsIntents, KeepsActions

\* An answer that comes in, of whichever query.
LEMMA AnswersKeep ==
  ASSUME IInv, Answers, UNCHANGED <<world, pc, event, jobs, wanted, task>>,
         \A m \in DOMAIN transfers' : m \in Kind("transfer"), orphans' \subseteq orphans,
         OnceInv', SyncInv'
  PROVE  IInv'
<1>0. pc' = pc /\ event' = event /\ jobs' = jobs /\ wanted' = wanted /\ task' = task /\ msgs' = msgs
  BY DEF world
<1>1. JobsInv'
  <2>1. ASSUME NEW j \in DOMAIN jobs PROVE JobFits(intents', actions', jobs[j])
    <3>1. PICK job : job = jobs[j]
      OBVIOUS
    <3>2. JobFits(intents, actions, job)
      BY <3>1 DEF IInv, JobsInv
    <3>3. intents'[job.intent] = intents[job.intent]
      BY <3>2 DEF Answers, JobFits
    <3>4. \A a \in DOMAIN actions' \ DOMAIN actions : actions'[a].intent # job.intent
      BY <3>2 DEF Answers, JobFits
    <3> QED BY <3>1, <3>2, <3>3, <3>4, JobStays DEF Answers
  <2> QED BY <1>0, <2>1 DEF IInv, JobsInv
<1>2. TaskInv'
  <2>1. ASSUME pc = "execute" PROVE TaskFits(intents', actions', task.intent, task.amount)
    <3>1. PICK i, n : i = task.intent /\ n = task.amount
      OBVIOUS
    <3>2. TaskFits(intents, actions, i, n)
      BY <2>1, <3>1 DEF IInv, TaskInv
    <3>3. intents'[i] = intents[i]
      BY <3>2 DEF Answers, TaskFits
    <3>4. intents'[i].status \in {"not_started", "in_progress"}
      BY <3>2, <3>3 DEF TaskFits
    <3>5. \A a \in DOMAIN actions' \ DOMAIN actions : actions'[a].intent # i
      BY <3>2 DEF Answers, TaskFits
    <3>6. /\ KeepsIntents(intents, intents') /\ KeepsActions(actions, actions')
          /\ Deposited(actions', i) = Deposited(actions, i)
          /\ \A a \in DOMAIN actions : actions'[a].status = "in_progress" =>
                                         actions[a].status = "in_progress"
      BY DEF Answers
    <3>7. TaskFits(intents', actions', i, n)
      BY <3>2, <3>4, <3>5, <3>6, TaskStays
    <3> QED BY <3>1, <3>7
  <2> QED BY <1>0, <2>1 DEF IInv, TaskInv, Answers, KeepsIntents
<1>3. /\ event' \in EventSet /\ event'.delivered \subseteq Delivered
      /\ \A o \in orphans' : o.delivered \subseteq Delivered
  BY <1>0 DEF IInv, WorldInv
<1>4. /\ StoreInv(intents', actions') /\ KeepsIntents(intents, intents')
      /\ KeepsActions(actions, actions')
      /\ \A i : Deposited(actions', i) = Deposited(actions, i)
      /\ \A a \in DOMAIN actions' \ DOMAIN actions :
           actions'[a].msg <= Len(msgs) /\ actions'[a].move <= Len(moves)
  BY DEF Answers
<1> QED BY <1>1, <1>2, <1>3, <1>4, StoresMove

\* The messages that are completed are the ones that were found delivered.
LEMMA AnsweredDoes ==
  ASSUME IInv, NEW query, NEW D, Answered(query, D)
  PROVE  /\ Answers /\ \A m \in DOMAIN transfers' : m \in Kind("transfer")
         /\ \/ UNCHANGED <<intents, actions>> /\ query = "transfers"
            \/ /\ query = "actions"
               /\ \E confirmed \in SUBSET D :
                    /\ ~Fault("check") => confirmed = D
                    /\ Synced(intents, actions, Explorer("rebalance"), confirmed,
                              intents', actions')
<1>1. PICK confirmed \in (IF Fault("check") THEN SUBSET D ELSE {D}) :
        \/ /\ query = "transfers"
           /\ transfers' = syncTransfers(transfers, Explorer("transfer"),
                                         confirmed \cap Kind("transfer"))
           /\ UNCHANGED <<intents, actions>>
        \/ /\ query = "actions"
           /\ SetStore(syncRebalanceActions(Store, msgs, Explorer("rebalance"), confirmed))
           /\ UNCHANGED transfers
  BY DEF Answered
<1>2. confirmed \in SUBSET D /\ (~Fault("check") => confirmed = D)
  BY <1>1
<1>3. \A m \in DOMAIN transfers : m \in Kind("transfer")
  BY DEF IInv, WorldInv
<1>4. CASE /\ query = "transfers"
           /\ transfers' = syncTransfers(transfers, Explorer("transfer"),
                                         confirmed \cap Kind("transfer"))
           /\ UNCHANGED <<intents, actions>>
  <2>1. \A m \in DOMAIN transfers' : m \in Kind("transfer")
    BY <1>3, <1>4, TransfersSynced
  <2> QED BY <1>4, <2>1, UnchangedAnswers
<1>5. CASE /\ query = "actions"
           /\ SetStore(syncRebalanceActions(Store, msgs, Explorer("rebalance"), confirmed))
           /\ UNCHANGED transfers
  <2>1. Answers /\ Synced(intents, actions, Explorer("rebalance"), confirmed, intents', actions')
    BY <1>5, SyncedAnswers
  <2> QED BY <1>2, <1>3, <1>5, <2>1
<1> QED BY <1>1, <1>4, <1>5

\* Messages are recorded once.
LEMMA SyncedOnce ==
  ASSUME OneActionPerMessage, UNCHANGED setting, NEW M, NEW D,
         Synced(intents, actions, M, D, intents', actions')
  PROVE  OneActionPerMessage'
<1> SUFFICES ASSUME ~Fault("explorer"), NEW a \in DOMAIN actions', NEW b \in DOMAIN actions',
                    a # b, actions'[a].msg # 0
             PROVE  actions'[a].msg # actions'[b].msg
  BY DEF OneActionPerMessage, Fault
<1>1. CASE a \in DOMAIN actions /\ b \in DOMAIN actions
  BY <1>1 DEF OneActionPerMessage, Synced, KeepsActions
<1>2. CASE a \notin DOMAIN actions /\ b \in DOMAIN actions
  BY <1>2 DEF Synced, KeepsActions
<1>3. CASE a \in DOMAIN actions /\ b \notin DOMAIN actions
  BY <1>3 DEF Synced, KeepsActions
<1>4. CASE a \notin DOMAIN actions /\ b \notin DOMAIN actions
  BY <1>4 DEF Synced
<1> QED BY <1>1, <1>2, <1>3, <1>4

\* A query of the cycle is answered.
LEMMA ExplorerAnswersStep ==
  ASSUME IInv, NEW q \in asked, ExplorerAnswers(q)
  PROVE  IInv'
<1>0. /\ pc = "sync" /\ asked' = asked \ {q} /\ Answered(q, event.delivered)
      /\ UNCHANGED <<world, pc, event, orphans, jobs, wanted, task>>
  BY DEF ExplorerAnswers
<1>1. /\ Answers /\ \A m \in DOMAIN transfers' : m \in Kind("transfer")
      /\ \/ UNCHANGED <<intents, actions>> /\ q = "transfers"
         \/ /\ q = "actions"
            /\ \E confirmed \in SUBSET event.delivered :
                 /\ ~Fault("check") => confirmed = event.delivered
                 /\ Synced(intents, actions, Explorer("rebalance"), confirmed,
                           intents', actions')
  BY <1>0, AnsweredDoes
<1>2. jobs' = <<>> /\ setting' = setting /\ orphans' = orphans /\ Delivered' = Delivered
  BY <1>0 DEF IInv, JobsInv, world, Delivered
<1>3. OnceInv' /\ SyncInv'
  <2>1. CASE UNCHANGED <<intents, actions>> /\ q = "transfers"
    <3>1. OnceInv'
      BY <1>2, <2>1 DEF IInv, OnceInv, OneActionPerMessage, Fault
    <3>2. SyncInv'
      BY <1>0, <1>2, <2>1 DEF IInv, SyncInv, Fault
    <3> QED BY <3>1, <3>2
  <2>2. CASE q = "actions" /\ \E confirmed \in SUBSET event.delivered :
                                /\ ~Fault("check") => confirmed = event.delivered
                                /\ Synced(intents, actions, Explorer("rebalance"), confirmed,
                                          intents', actions')
    <3>1. PICK D \in SUBSET event.delivered :
                 /\ ~Fault("check") => D = event.delivered
                 /\ Synced(intents, actions, Explorer("rebalance"), D, intents', actions')
      BY <2>2
    <3>2. OnceInv'
      <4>1. ~Fault("explorer") => OneActionPerMessage'
        BY <1>2, <3>1, SyncedOnce DEF IInv, OnceInv
      <4> QED BY <1>2, <4>1 DEF IInv, OnceInv, Fault
    <3>3. SyncInv'
      <4>1. event.delivered \subseteq Delivered
        BY DEF IInv, WorldInv
      <4>2. ASSUME ~Fault("explorer"), NEW a \in DOMAIN actions',
                   actions'[a].type = "rebalance_message", actions'[a].status = "complete"
            PROVE  actions'[a].msg \in event.delivered
        <5>1. \/ actions'[a].msg \in D
              \/ a \in DOMAIN actions /\ actions[a].status = "complete"
          BY <3>1, <4>2 DEF Synced
        <5>2. CASE a \in DOMAIN actions /\ actions[a].status = "complete"
          BY <1>0, <3>1, <4>2, <5>2 DEF IInv, SyncInv, Synced, KeepsActions
        <5> QED BY <5>1, <5>2
      <4>3. ASSUME ~Fault("check"), NEW a \in DOMAIN actions', actions'[a].status = "in_progress"
            PROVE  actions'[a].msg \notin event.delivered
        BY <3>1, <4>3 DEF Synced
      <4> QED BY <1>0, <1>2, <4>1, <4>2, <4>3 DEF SyncInv, Fault
    <3> QED BY <3>2, <3>3
  <2> QED BY <1>1, <2>1, <2>2
<1> QED BY <1>0, <1>1, <1>2, <1>3, AnswersKeep

\* A query of a sync that had failed is answered.
LEMMA OrphanAnsweredStep ==
  ASSUME IInv, NEW o \in orphans, OrphanAnswered(o)
  PROVE  IInv'
<1>0. /\ Answered(o.query, o.delivered) /\ orphans' \subseteq orphans
      /\ UNCHANGED <<world, pc, event, jobs, wanted, task>>
  BY DEF OrphanAnswered
<1>1. Answers /\ \A m \in DOMAIN transfers' : m \in Kind("transfer")
  BY <1>0, AnsweredDoes
<1>2. Fault("explorer")
  BY DEF IInv, OnceInv
<1>3. OnceInv' /\ SyncInv'
  BY <1>0, <1>2 DEF OnceInv, SyncInv, Fault, world
<1> QED BY <1>0, <1>1, <1>3, AnswersKeep

\* ActionTracker.initialize.
LEMMA RestartStep ==
  ASSUME IInv, Restart
  PROVE  IInv'
<1>0. /\ pc = "down" /\ pc' = "idle"
      /\ transfers' = syncTransfers(<<>>, Explorer("transfer"), Delivered \cap Kind("transfer"))
      /\ SetStore(syncRebalanceActions(Store, msgs, Explorer("rebalance"), Delivered))
      /\ UNCHANGED <<world, event, asked, orphans, jobs, wanted, task>>
  BY DEF Restart
<1>1. Answers /\ Synced(intents, actions, Explorer("rebalance"), Delivered, intents', actions')
  BY <1>0, SyncedAnswers
<1>2. \A m \in DOMAIN transfers' : m \in Kind("transfer")
  <2>1. \A m \in DOMAIN <<>> : m \in Kind("transfer")
    OBVIOUS
  <2> QED BY <1>0, <2>1, TransfersSynced
<1>3. jobs' = <<>> /\ setting' = setting /\ orphans' = orphans /\ Delivered' = Delivered
  BY <1>0 DEF IInv, JobsInv, world, Delivered
<1>4. OnceInv'
  <2>1. ~Fault("explorer") => OneActionPerMessage'
    BY <1>1, <1>3, SyncedOnce DEF IInv, OnceInv
  <2> QED BY <1>3, <2>1 DEF IInv, OnceInv, Fault
<1>5. SyncInv'
  <2>1. ASSUME ~Fault("explorer"), NEW a \in DOMAIN actions',
               actions'[a].type = "rebalance_message", actions'[a].status = "complete"
        PROVE  actions'[a].msg \in Delivered
    <3>1. \/ actions'[a].msg \in Delivered
          \/ a \in DOMAIN actions /\ actions[a].status = "complete"
      BY <1>1, <2>1 DEF Synced
    <3>2. CASE a \in DOMAIN actions /\ actions[a].status = "complete"
      BY <1>1, <2>1, <3>2 DEF IInv, SyncInv, Synced, KeepsActions
    <3> QED BY <3>1, <3>2
  <2> QED BY <1>0, <1>3, <2>1 DEF SyncInv, Fault
<1>6. JobsInv'
  BY <1>0, <1>3 DEF JobsInv
<1>7. TaskInv'
  BY <1>0, <1>1 DEF IInv, TaskInv, Answers, KeepsIntents
<1>8. /\ event' \in EventSet /\ event'.delivered \subseteq Delivered
      /\ \A o \in orphans' : o.delivered \subseteq Delivered
  BY <1>0 DEF IInv, WorldInv
<1>9. /\ StoreInv(intents', actions') /\ KeepsIntents(intents, intents')
      /\ KeepsActions(actions, actions')
      /\ \A i : Deposited(actions', i) = Deposited(actions, i)
      /\ \A a \in DOMAIN actions' \ DOMAIN actions :
           actions'[a].msg <= Len(msgs) /\ actions'[a].move <= Len(moves)
  BY <1>1 DEF Answers
<1> QED BY <1>0, <1>2, <1>4, <1>5, <1>6, <1>7, <1>8, <1>9, StoresMove

-----------------------------------------------------------------------------
(* Start, crash and the routes of a cycle *)

\* Empty stores.
LEMMA EmptyStores == StoreInv(<<>>, <<>>)
BY DEF StoreInv, Typed

\* The process starts.
LEMMA Starts ==
  ASSUME Init
  PROVE  IInv
<1>1. /\ setting \in Settings /\ collateral \in [Chains -> Nat] /\ inventory \in [Chains -> Nat]
  BY SettingsAssumption, AmountsAssumption DEF Init
<1>2. WorldInv
  BY <1>1, NoEventType DEF Init, WorldInv
<1>3. StoreInv(intents, actions)
  BY EmptyStores DEF Init
<1>4. NamesInv /\ JobsInv /\ DepositInv
  BY DEF Init, NamesInv, JobsInv, DepositInv
<1>5. TaskInv
  BY DEF Init, TaskInv, NoTask
<1>6. OnceInv /\ SyncInv
  BY DEF Init, OnceInv, OneActionPerMessage, SyncInv
<1> QED BY <1>2, <1>3, <1>4, <1>5, <1>6 DEF IInv

\* The process crashes: its stores are lost.
LEMMA CrashStep ==
  ASSUME IInv, Crash
  PROVE  IInv'
<1>0. /\ msgs' = [m \in DOMAIN msgs |-> [msgs[m] EXCEPT !.intent = 0]]
      /\ transfers' = <<>> /\ intents' = <<>> /\ actions' = <<>>
      /\ pc' = "down" /\ event' = NoEvent /\ asked' = {} /\ orphans' = {}
      /\ jobs' = <<>> /\ wanted' = <<>> /\ task' = NoTask
      /\ UNCHANGED <<setting, collateral, inventory, moves>>
  BY DEF Crash
<1>1. msgs \in Seq(MessageSet)
  BY DEF IInv, WorldInv
<1>2. ASSUME NEW m \in DOMAIN msgs
      PROVE  /\ msgs'[m] \in MessageSet /\ msgs'[m].kind = msgs[m].kind
             /\ msgs'[m].amount = msgs[m].amount /\ msgs'[m].intent = 0
  <2>1. msgs[m] \in MessageSet
    BY <1>1, ElementOf
  <2>2. msgs'[m] = [msgs[m] EXCEPT !.intent = 0]
    BY <1>0
  <2> QED BY <2>1, <2>2 DEF MessageSet
<1>3. msgs' \in Seq(MessageSet) /\ DOMAIN msgs' = DOMAIN msgs
  <2>1. PICK q : q = msgs'
    OBVIOUS
  <2>2. PICK n \in Nat : DOMAIN msgs = 1..n
    BY <1>1
  <2>3. DOMAIN q = 1..n /\ q = [k \in DOMAIN q |-> q[k]] /\ \A k \in 1..n : q[k] \in MessageSet
    BY <1>0, <1>2, <2>1, <2>2
  <2>4. q \in Seq(MessageSet)
    BY <2>3, Mapped
  <2> QED BY <2>1, <2>2, <2>3, <2>4
<1>4. WorldInv'
  <2>1. \A m \in DOMAIN msgs' : msgs'[m].kind = "rebalance" => msgs'[m].amount > 0
    BY <1>2, <1>3 DEF IInv, WorldInv
  <2>2. \A m \in DOMAIN transfers' : m \in Kind("transfer")'
    BY <1>0
  <2>3. event' \in EventSet /\ event'.delivered \subseteq Delivered'
    BY <1>0, NoEventType
  <2>4. /\ setting' \in Settings /\ collateral' \in [Chains -> Nat]
        /\ inventory' \in [Chains -> Nat] /\ moves' \in Seq(MoveSet)
    BY <1>0 DEF IInv, WorldInv
  <2>5. \A o \in orphans' : o.delivered \subseteq Delivered'
    BY <1>0
  <2> QED BY <1>3, <2>1, <2>2, <2>3, <2>4, <2>5 DEF WorldInv
<1>5. StoreInv(intents', actions')
  BY <1>0, EmptyStores
<1>6. NamesInv'
  BY <1>0, <1>2, <1>3 DEF NamesInv
<1>7. JobsInv' /\ DepositInv'
  BY <1>0 DEF JobsInv, DepositInv
<1>8. TaskInv'
  BY <1>0 DEF TaskInv, NoTask
<1>9. OnceInv' /\ SyncInv'
  BY <1>0 DEF OnceInv, OneActionPerMessage, SyncInv
<1> QED BY <1>4, <1>5, <1>6, <1>7, <1>8, <1>9 DEF IInv

\* A route is sent: its message is new.
LEMMA SendRebalanceStep ==
  ASSUME IInv, NEW j \in DOMAIN jobs, NEW st \in {"sent", "failed"}, SendRebalance(j, st)
  PROVE  IInv'
<1>0. /\ pc = "send" /\ collateral[jobs[j].route.origin] >= jobs[j].route.amount
      /\ collateral' = [collateral EXCEPT ![jobs[j].route.origin] = @ - jobs[j].route.amount]
      /\ msgs' = Append(msgs, Message("rebalance", jobs[j].route.origin,
                                      jobs[j].route.destination, jobs[j].route.amount,
                                      jobs[j].intent))
      /\ jobs' = [jobs EXCEPT ![j] = [jobs[j] EXCEPT !.state = st, !.msg = Len(msgs) + 1]]
      /\ UNCHANGED <<setting, inventory, moves, stores, pc, event, asked, orphans, wanted, task>>
  BY DEF SendRebalance
<1>1. /\ collateral \in [Chains -> Nat] /\ inventory \in [Chains -> Nat]
      /\ msgs \in Seq(MessageSet) /\ moves \in Seq(MoveSet) /\ jobs \in Seq(JobSet)
      /\ intents \in Seq(IntentSet) /\ actions \in Seq(ActionSet)
  BY DEF IInv, WorldInv, JobsInv, StoreInv, Typed
<1>2. jobs[j] \in JobSet
  BY <1>1, ElementOf
<1>3. jobs[j].route \in Route /\ jobs[j].intent \in Nat
  BY <1>2 DEF JobSet
<1>4. PICK o \in Chains, d \in Chains, v \in Nat \ {0} :
        o = jobs[j].route.origin /\ d = jobs[j].route.destination /\ v = jobs[j].route.amount
  BY <1>3 DEF Route
<1>5. collateral' \in [Chains -> Nat]
  <2>1. collateral' = [collateral EXCEPT ![o] = @ - v] /\ collateral[o] >= v
    BY <1>0, <1>4
  <2>2. collateral[o] - v \in Nat
    BY <1>1, <2>1
  <2> QED BY <1>1, <2>1, <2>2
<1>6. PICK x : x = Message("rebalance", o, d, v, jobs[j].intent)
  OBVIOUS
<1>7. x \in MessageSet /\ x.kind = "rebalance" /\ x.amount = v /\ x.intent = jobs[j].intent
  BY <1>3, <1>6, MessageType
<1>8. msgs' = Append(msgs, x)
  BY <1>0, <1>4, <1>6
<1>9. /\ msgs' \in Seq(MessageSet) /\ MessagesKeep(msgs, msgs') /\ Longer(msgs, x, msgs')
      /\ \A m \in DOMAIN msgs' \ DOMAIN msgs : msgs'[m] = x
  <2>1. msgs \in Seq(MessageSet) /\ x \in MessageSet /\ msgs' = Append(msgs, x)
    BY <1>1, <1>7, <1>8
  <2> QED BY <2>1, MessageAppended, Zenon
<1>10. Len(msgs) \in Nat /\ Len(msgs') = Len(msgs) + 1
  BY <1>9 DEF Longer
<1>11. /\ setting' = setting /\ inventory' = inventory /\ moves' = moves
       /\ intents' = intents /\ actions' = actions /\ transfers' = transfers /\ pc' = pc
       /\ event' = event /\ asked' = asked /\ orphans' = orphans /\ wanted' = wanted
       /\ task' = task
  BY <1>0 DEF stores
<1>12. WorldInv' /\ Delivered \subseteq Delivered'
  <2>1. \A m \in DOMAIN msgs' \ DOMAIN msgs : msgs'[m].kind = "rebalance" => msgs'[m].amount > 0
    BY <1>7, <1>9
  <2>2. /\ \A m \in DOMAIN transfers' : m \in Kind("transfer")
        /\ event' \in EventSet /\ event'.delivered \subseteq Delivered
        /\ \A i \in orphans' : i.delivered \subseteq Delivered
        /\ inventory' \in [Chains -> Nat] /\ moves' \in Seq(MoveSet)
    BY <1>1, <1>11 DEF IInv, WorldInv
  <2>3. WorldInv
    BY DEF IInv
  <2> QED BY <1>5, <1>9, <1>11, <2>1, <2>2, <2>3, WorldKept
<1>13. \A a \in DOMAIN actions : actions[a].msg <= Len(msgs) /\ actions[a].msg \in Nat
  <2>1. \A a \in DOMAIN actions : actions[a] \in ActionSet
    BY <1>1, ElementOf
  <2>2. \A y \in ActionSet : y.msg \in Nat
    BY DEF ActionSet
  <2> QED BY <2>1, <2>2 DEF IInv, NamesInv
<1>14. \A k \in DOMAIN jobs : jobs[k].msg <= Len(msgs) /\ jobs[k].msg \in Nat
  <2>1. \A k \in DOMAIN jobs : jobs[k] \in JobSet
    BY <1>1, ElementOf
  <2>2. \A y \in JobSet : y.msg \in Nat
    BY DEF JobSet
  <2> QED BY <2>1, <2>2 DEF IInv, JobsInv
<1>15. jobs[j].intent <= Len(intents)
  BY <1>1 DEF IInv, JobsInv, JobFits
<1>16. NamesInv'
  <2>1. \A a \in DOMAIN actions : actions[a].msg <= Len(msgs')
    BY <1>10, <1>13
  <2>2. \A m \in DOMAIN msgs' : msgs'[m].intent <= Len(intents)
    BY <1>7, <1>9, <1>15 DEF IInv, NamesInv, MessagesKeep
  <2> QED BY <1>11, <2>1, <2>2 DEF IInv, NamesInv
<1>17. PICK n \in Nat : n = Len(msgs) + 1
  BY <1>10
<1>18. PICK y : y = [jobs[j] EXCEPT !.state = st, !.msg = n]
  OBVIOUS
<1>19. /\ y \in JobSet /\ y.intent = jobs[j].intent /\ y.route = jobs[j].route
       /\ y.state = st /\ y.msg = n
  BY <1>2, <1>18 DEF JobSet
<1>20. jobs' = [jobs EXCEPT ![j] = y]
  BY <1>0, <1>17, <1>18
<1>21. /\ jobs' \in Seq(JobSet) /\ DOMAIN jobs' = DOMAIN jobs /\ jobs'[j] = y
       /\ \A k \in DOMAIN jobs : k # j => jobs'[k] = jobs[k]
  BY <1>1, <1>19, <1>20
<1>22. JobsInv'
  <2>1. JobFits(intents, actions, y)
    <3>1. n # 0
      BY <1>10, <1>17
    <3> QED BY <1>19, <3>1 DEF IInv, JobsInv, JobFits
  <2>2. \A k \in DOMAIN jobs' : /\ JobFits(intents, actions, jobs'[k])
                                /\ jobs'[k].intent = jobs[k].intent
    BY <1>19, <1>21, <2>1 DEF IInv, JobsInv
  <2>3. \A k \in DOMAIN jobs' : jobs'[k].msg <= Len(msgs')
    BY <1>10, <1>14, <1>17, <1>19, <1>21
  <2>4. \A k, l \in DOMAIN jobs' : k # l => jobs'[k].intent # jobs'[l].intent
    BY <1>21, <2>2 DEF IInv, JobsInv
  <2> QED BY <1>0, <1>11, <1>21, <2>2, <2>3, <2>4 DEF JobsInv
<1>23. TaskInv'
  BY <1>11 DEF IInv, TaskInv
<1>24. OnceInv'
  <2>1. \A a \in DOMAIN actions : actions[a].msg # n
    BY <1>10, <1>13, <1>17
  <2>2. \A k \in DOMAIN jobs : jobs[k].msg # n
    BY <1>10, <1>14, <1>17
  <2> QED BY <1>11, <1>19, <1>21, <2>1, <2>2 DEF IInv, OnceInv, OneActionPerMessage, Fault
<1>25. SyncInv'
  BY <1>11, <1>12 DEF IInv, SyncInv, Fault
<1>26. DepositInv'
  <2>1. ASSUME NEW i \in DOMAIN intents PROVE Sent(msgs', i) = Sent(msgs, i)
    <3>1. \A m \in DOMAIN msgs' \ DOMAIN msgs : ~(msgs'[m].kind = "deposit" /\ msgs'[m].intent = i)
      BY <1>7, <1>9
    <3> QED BY <1>1, <1>9, <3>1, SameSent
  <2> QED BY <1>11, <2>1 DEF IInv, DepositInv, Fault
<1>27. StoreInv(intents', actions')
  BY <1>11 DEF IInv
<1> QED BY <1>12, <1>16, <1>22, <1>23, <1>24, <1>25, <1>26, <1>27 DEF IInv

\* The results of the routes are recorded.
LEMMA ProcessResultsStep ==
  ASSUME IInv, ProcessResults
  PROVE  IInv'
<1>0. /\ pc = "send" /\ jobs' = <<>> /\ SetStore(FoldLeft(ProcessResult, Store, jobs))
      /\ \/ pc' = "idle" /\ event' = NoEvent
         \/ pc' = "inventory" /\ event' = event
      /\ UNCHANGED <<world, transfers, asked, orphans, wanted, task>>
  BY DEF ProcessResults, EndCycle
<1>1. PICK t : t = FoldLeft(ProcessResult, Store, jobs)
  OBVIOUS
<1>2. intents' = t.intents /\ actions' = t.actions
  BY <1>0, <1>1 DEF SetStore
<1>3. Store = [intents |-> intents, actions |-> actions] /\ StoreInv(intents, actions)
  BY DEF Store, IInv
<1>4. JobsFit(intents, actions, jobs)
  BY DEF IInv, JobsInv, JobsFit
<1>5. PICK n \in Nat : DOMAIN jobs = 1..n /\ Processes(intents, actions, jobs, n, t.intents, t.actions)
  BY <1>1, <1>3, <1>4, ProcessLoopDoes
<1>6. /\ StoreInv(intents', actions') /\ KeepsIntents(intents, intents')
      /\ DOMAIN intents' = DOMAIN intents /\ KeepsActions(actions, actions')
      /\ \A a \in DOMAIN actions : actions'[a] = actions[a]
      /\ \A a \in DOMAIN actions' \ DOMAIN actions :
           /\ actions'[a].type = "rebalance_message" /\ actions'[a].status = "in_progress"
           /\ actions'[a].move = 0
           /\ \E j \in DOMAIN jobs : /\ jobs[j].state = "sent" /\ actions'[a].msg = jobs[j].msg
                                     /\ actions'[a].intent = jobs[j].intent
      /\ \A i : Deposited(actions', i) = Deposited(actions, i)
  BY <1>2, <1>5 DEF Processes
<1>7. \A a \in DOMAIN actions' \ DOMAIN actions :
        actions'[a].msg <= Len(msgs) /\ actions'[a].move <= Len(moves)
  <2>1. 0 <= Len(moves)
    BY DEF IInv, WorldInv
  <2> QED BY <1>6, <2>1 DEF IInv, JobsInv
<1>8. setting' = setting /\ Delivered' = Delivered /\ orphans' = orphans
  BY <1>0 DEF world, Delivered
<1>9. OnceInv'
  <2>1. ASSUME ~Fault("explorer"), NEW a \in DOMAIN actions', NEW b \in DOMAIN actions',
               a # b, actions'[a].msg # 0
        PROVE  actions'[a].msg # actions'[b].msg
    <3>0. /\ \A j \in DOMAIN jobs : jobs[j].state = "sent" =>
               /\ \A c \in DOMAIN actions : actions[c].msg # jobs[j].msg
               /\ \A k \in DOMAIN jobs : k # j /\ jobs[k].state = "sent" => jobs[k].msg # jobs[j].msg
          /\ OneActionPerMessage
      BY <2>1 DEF IInv, OnceInv
    <3>1. CASE a \in DOMAIN actions /\ b \in DOMAIN actions
      BY <1>6, <2>1, <3>0, <3>1 DEF OneActionPerMessage
    <3>2. CASE a \notin DOMAIN actions /\ b \in DOMAIN actions
      BY <1>6, <3>0, <3>2
    <3>3. CASE a \in DOMAIN actions /\ b \notin DOMAIN actions
      BY <1>6, <3>0, <3>3
    <3>4. CASE a \notin DOMAIN actions /\ b \notin DOMAIN actions
      <4>1. PICK j \in DOMAIN jobs : /\ jobs[j].state = "sent" /\ actions'[a].msg = jobs[j].msg
                                     /\ actions'[a].intent = jobs[j].intent
        BY <1>6, <3>4
      <4>2. PICK k \in DOMAIN jobs : /\ jobs[k].state = "sent" /\ actions'[b].msg = jobs[k].msg
                                     /\ actions'[b].intent = jobs[k].intent
        BY <1>6, <3>4
      <4>3. j # k
        <5>1. Fits(intents', actions', a) /\ actions'[a].type = "rebalance_message"
          BY <1>6, <3>4 DEF StoreInv
        <5>2. actions'[b].intent = actions'[a].intent => b = a
          BY <5>1 DEF Fits, MessageFits
        <5> QED BY <2>1, <4>1, <4>2, <5>2
      <4> QED BY <3>0, <4>1, <4>2, <4>3
    <3> QED BY <3>1, <3>2, <3>3, <3>4
  <2>2. ~Fault("explorer") => OneActionPerMessage'
    BY <1>8, <2>1 DEF OneActionPerMessage, Fault
  <2> QED BY <1>0, <1>8, <2>2 DEF IInv, OnceInv, Fault
<1>10. SyncInv'
  <2>1. ASSUME ~Fault("explorer"), NEW a \in DOMAIN actions',
               actions'[a].type = "rebalance_message", actions'[a].status = "complete"
        PROVE  actions'[a].msg \in Delivered
    BY <1>6, <2>1 DEF IInv, SyncInv
  <2> QED BY <1>0, <1>8, <2>1 DEF SyncInv, Fault
<1>11. JobsInv'
  BY <1>0 DEF JobsInv
<1>12. TaskInv'
  BY <1>0, <1>6 DEF IInv, TaskInv
<1>13. /\ \A m \in DOMAIN transfers' : m \in Kind("transfer")
       /\ event' \in EventSet /\ event'.delivered \subseteq Delivered
       /\ \A o \in orphans' : o.delivered \subseteq Delivered
  BY <1>0, NoEventType DEF IInv, WorldInv
<1> QED BY <1>0, <1>6, <1>7, <1>9, <1>10, <1>11, <1>12, <1>13, StoresMove

\* Amounts of the deposits of an intent.
LEMMA DepositsType ==
  ASSUME NEW as \in Seq(ActionSet), NEW i, NEW st
  PROVE  /\ Deposits(as, i, st) \in Nat
         /\ Deposits(as, i, st) = 0 => ActionsWith(as, i, {"inventory_deposit"}, st) = {}
<1>1. PICK S : S = ActionsWith(as, i, {"inventory_deposit"}, st)
  OBVIOUS
<1>2. S \subseteq DOMAIN as
  BY <1>1 DEF ActionsWith
<1>3. IsFiniteSet(S) /\ \A a \in S : as[a].amount \in Nat /\ as[a].amount > 0
  BY <1>2, ActionAmounts
<1>4. AmountOf(as, S) \in Nat /\ \A a \in S : AmountOf(as, S) = as[a].amount + AmountOf(as, S \ {a})
  BY <1>3, AmountFacts
<1>5. ASSUME NEW a \in S PROVE AmountOf(as, S) # 0
  <2>1. IsFiniteSet(S \ {a}) /\ \A b \in S \ {a} : as[b].amount \in Nat
    BY <1>3, FS_Subset
  <2>2. AmountOf(as, S \ {a}) \in Nat
    BY <2>1, AmountFacts
  <2>3. PICK v \in Nat, w \in Nat : v = as[a].amount /\ w = AmountOf(as, S \ {a})
    BY <1>3, <2>2
  <2>4. v > 0 /\ AmountOf(as, S) = v + w
    BY <1>3, <1>4, <2>3
  <2> QED BY <2>4
<1> QED BY <1>1, <1>4, <1>5 DEF Deposits

\* A rebalance in progress, as getInflightContext reports it.
LEMMA RebalancesReportable ==
  ASSUME IInv
  PROVE  Reportable(Context.rebalances)
<1>0. intents \in Seq(IntentSet) /\ actions \in Seq(ActionSet)
  BY DEF IInv, StoreInv, Typed
<1>1. PICK A : A = {i \in DOMAIN intents : intents[i].status = "in_progress"}
  OBVIOUS
<1>2. IsFiniteSet(A) /\ A \subseteq DOMAIN intents
  BY <1>0, <1>1, Positions
<1>3. PICK active : active = SetToSeq(A)
  OBVIOUS
<1>4. active \in Seq(A)
  BY <1>2, <1>3, SequenceOf
<1>5. PICK n \in Nat : DOMAIN active = 1..n
  BY <1>4
<1> DEFINE D(i, st) == IF intents[i].method = "inventory" THEN Deposits(actions, i, st) ELSE 0
           R(i) == [origin |-> intents[i].origin, destination |-> intents[i].destination,
                    amount |-> intents[i].amount, method |-> intents[i].method,
                    bridge |-> intents[i].bridge,
                    delivered |-> D(i, "complete"), awaiting |-> D(i, "in_progress")]
<1>6. PICK q : q = Context.rebalances
  OBVIOUS
<1>7. q = [k \in DOMAIN active |-> R(active[k])]
  BY <1>1, <1>3, <1>6 DEF Context, getInflightContext
<1>8. ASSUME NEW i \in A PROVE Pendable(R(i))
  <2>1. intents[i] \in IntentSet
    BY <1>0, <1>2, ElementOf
  <2>2. intents[i].origin \in Chains /\ intents[i].destination \in Chains /\ intents[i].amount \in Int
    BY <2>1 DEF IntentSet
  <2>3. Deposits(actions, i, "complete") \in Int /\ Deposits(actions, i, "in_progress") \in Int
    BY <1>0, DepositsType
  <2>4. D(i, "complete") \in Int /\ D(i, "in_progress") \in Int
    BY <2>3
  <2> HIDE DEF D
  <2> QED BY <2>2, <2>4 DEF Pendable
<1>9. \A k \in DOMAIN active : active[k] \in A
  BY <1>4
<1> HIDE DEF R, D
<1>10. \A k \in DOMAIN q : Pendable(q[k])
  BY <1>7, <1>8, <1>9
<1>11. q \in Seq({q[k] : k \in DOMAIN q})
  <2>1. PICK U : U = {q[k] : k \in DOMAIN q}
    OBVIOUS
  <2>2. DOMAIN q = 1..n /\ q = [k \in DOMAIN q |-> q[k]] /\ \A k \in 1..n : q[k] \in U
    BY <1>5, <1>7, <2>1
  <2>3. q \in Seq(U)
    BY <2>2, Mapped
  <2> QED BY <2>1, <2>3
<1> QED BY <1>6, <1>10, <1>11 DEF Reportable

\* The transfers in progress, as getInflightContext reports them.
LEMMA TransfersReported ==
  ASSUME IInv
  PROVE  Context.transfers \in Seq(PendingTransfer)
<1>0. msgs \in Seq(MessageSet)
  BY DEF IInv, WorldInv
<1>1. PICK A : A = {m \in DOMAIN transfers : transfers[m] = "in_progress"}
  OBVIOUS
<1>2. A \subseteq DOMAIN msgs
  BY <1>1 DEF IInv, WorldInv, Kind
<1>3. IsFiniteSet(A)
  BY <1>0, <1>2, Positions
<1>4. PICK open : open = SetToSeq(A)
  OBVIOUS
<1>5. open \in Seq(A)
  BY <1>3, <1>4, SequenceOf
<1>6. PICK n \in Nat : DOMAIN open = 1..n
  BY <1>5
<1> DEFINE T(m) == [origin |-> msgs[m].origin, destination |-> msgs[m].destination,
                    amount |-> msgs[m].amount]
<1>7. PICK q : q = Context.transfers
  OBVIOUS
<1>8. q = [k \in DOMAIN open |-> T(open[k])]
  BY <1>1, <1>4, <1>7 DEF Context, getInflightContext
<1>9. ASSUME NEW m \in A PROVE T(m) \in PendingTransfer
  <2>1. msgs[m] \in MessageSet
    BY <1>0, <1>2, ElementOf
  <2>2. msgs[m].origin \in Chains /\ msgs[m].destination \in Chains /\ msgs[m].amount \in Int
    BY <2>1 DEF MessageSet
  <2> QED BY <2>2 DEF PendingTransfer
<1>10. \A k \in DOMAIN open : open[k] \in A
  BY <1>5
<1> HIDE DEF T
<1>11. DOMAIN q = 1..n /\ q = [k \in DOMAIN q |-> q[k]] /\ \A k \in 1..n : q[k] \in PendingTransfer
  BY <1>6, <1>8, <1>9, <1>10
<1>12. q \in Seq(PendingTransfer)
  BY <1>11, Mapped
<1> QED BY <1>7, <1>12

\* The strategies return routes.
LEMMA RoutesOfCycle ==
  ASSUME IInv
  PROVE  Routes \in Seq(Route)
<1>1. ContextOK(Context)
  BY RebalancesReportable, TransfersReported DEF ContextOK
<1>2. ValidStrategies(setting.strategies)
  BY SettingsAssumption DEF IInv, WorldInv
<1>3. event.raw \in [Chains -> Int]
  <2>1. event \in EventSet
    BY DEF IInv, WorldInv
  <2>2. event.raw \in [Chains -> Nat]
    BY <2>1 DEF EventSet
  <2> QED BY <2>2
<1> QED BY <1>1, <1>2, <1>3, CompositeType DEF Routes

\* The intents and the jobs of the movable routes.
Plans(is, p, it, js) ==
  /\ it = is \o [k \in DOMAIN p |-> Intent(p[k].origin, p[k].destination, p[k].amount,
                                           "movable", p[k].bridge, "not_started")]
  /\ js = [k \in DOMAIN p |-> [intent |-> Len(is) + k, route |-> p[k], state |-> "todo", msg |-> 0]]

\* A sequence after another.
LEMMA Concatenated ==
  ASSUME NEW U, NEW q \in Seq(U), NEW p \in Seq(U), NEW t, t = q \o p,
         NEW l \in Nat, l = Len(q), NEW n \in Nat, n = Len(p)
  PROVE  /\ t \in Seq(U) /\ Len(t) = l + n /\ DOMAIN t = 1..(l + n)
         /\ \A i \in 1..l : t[i] = q[i]
         /\ \A k \in 1..n : t[l + k] = p[k]
<1>1. t \in Seq(U) /\ Len(t) = l + n /\ DOMAIN t = 1..(l + n)
  OBVIOUS
<1>2. ASSUME NEW i \in 1..l PROVE t[i] = q[i]
  OBVIOUS
<1>3. ASSUME NEW k \in 1..n PROVE t[l + k] = p[k]
  OBVIOUS
<1> QED BY <1>1, <1>2, <1>3

\* The job of a route.
LEMMA JobType ==
  ASSUME NEW i \in Nat, NEW route \in Route, NEW y,
         y = [intent |-> i, route |-> route, state |-> "todo", msg |-> 0]
  PROVE  /\ y \in JobSet /\ y.intent = i /\ y.route = route
         /\ y.state = "todo" /\ y.msg = 0
BY DEF JobSet

\* Every movable route has an intent of its own, which waits.
LEMMA JobsPlanned ==
  ASSUME NEW is \in Seq(IntentSet), NEW p \in Seq(Route), NEW it, NEW js, Plans(is, p, it, js)
  PROVE  /\ it \in Seq(IntentSet) /\ DOMAIN is \subseteq DOMAIN it
         /\ \A i \in DOMAIN is : it[i] = is[i]
         /\ js \in Seq(JobSet) /\ (p = <<>> => js = <<>>)
         /\ \A k \in DOMAIN js :
              /\ js[k].intent \in DOMAIN it \ DOMAIN is /\ it[js[k].intent].status = "not_started"
              /\ it[js[k].intent].method = "movable"
              /\ it[js[k].intent].amount = js[k].route.amount
              /\ js[k].state = "todo" /\ js[k].msg = 0
         /\ \A j, k \in DOMAIN js : j # k => js[j].intent # js[k].intent
<1>1. PICK n \in Nat : n = Len(p) /\ DOMAIN p = 1..n
  OBVIOUS
<1>2. PICK l \in Nat : l = Len(is) /\ DOMAIN is = 1..l
  OBVIOUS
<1>3. PICK e : e = [k \in DOMAIN p |-> Intent(p[k].origin, p[k].destination, p[k].amount,
                                              "movable", p[k].bridge, "not_started")]
  OBVIOUS
<1>4. ASSUME NEW k \in 1..n
      PROVE  /\ p[k] \in Route /\ e[k] \in IntentSet /\ e[k].status = "not_started"
             /\ e[k].method = "movable" /\ e[k].amount = p[k].amount
  <2>1. p[k] \in Route
    BY <1>1, ElementOf
  <2>2. /\ p[k].origin \in Chains /\ p[k].destination \in Chains /\ p[k].amount \in Nat \ {0}
        /\ p[k].bridge \in Bridges
    BY <2>1 DEF Route, Bridges
  <2>3. e[k] = Intent(p[k].origin, p[k].destination, p[k].amount, "movable", p[k].bridge, "not_started")
    BY <1>1, <1>3
  <2>4. "not_started" \in Statuses
    BY DEF Statuses
  <2> QED BY <2>1, <2>2, <2>3, <2>4, IntentType
<1>5. e \in Seq(IntentSet) /\ Len(e) = n /\ DOMAIN e = 1..n
  <2>1. DOMAIN e = 1..n /\ e = [k \in DOMAIN e |-> e[k]] /\ \A k \in 1..n : e[k] \in IntentSet
    BY <1>1, <1>3, <1>4
  <2>2. e \in Seq(IntentSet)
    BY <2>1, Mapped
  <2> QED BY <2>1, <2>2
<1>6. it = is \o e
  BY <1>3 DEF Plans
<1>7. /\ it \in Seq(IntentSet) /\ DOMAIN it = 1..(l + n)
      /\ \A i \in 1..l : it[i] = is[i]
      /\ \A k \in 1..n : it[l + k] = e[k]
  BY <1>2, <1>5, <1>6, Concatenated
<1>8. DOMAIN js = 1..n /\ js = [k \in DOMAIN js |-> js[k]]
  BY <1>1 DEF Plans
<1>9. ASSUME NEW k \in 1..n
      PROVE  /\ js[k] \in JobSet /\ js[k].intent = l + k /\ js[k].route = p[k]
             /\ js[k].state = "todo" /\ js[k].msg = 0
  <2>1. js[k] = [intent |-> l + k, route |-> p[k], state |-> "todo", msg |-> 0]
    BY <1>1, <1>2 DEF Plans
  <2>2. l + k \in Nat /\ p[k] \in Route
    BY <1>4
  <2> QED BY <2>1, <2>2, JobType
<1>10. js \in Seq(JobSet)
  BY <1>8, <1>9, Mapped
<1>11. p = <<>> => js = <<>>
  <2>1. p = <<>> => n = 0
    BY <1>1
  <2>2. Len(js) = n
    BY <1>8, <1>10
  <2> QED BY <1>10, <2>1, <2>2
<1>12. \A k \in 1..n : l + k \in DOMAIN it \ DOMAIN is
  BY <1>2, <1>7
<1>13. DOMAIN is \subseteq DOMAIN it /\ \A i \in DOMAIN is : it[i] = is[i]
  BY <1>2, <1>7
<1>14. ASSUME NEW k \in 1..n
       PROVE  /\ js[k].intent \in DOMAIN it \ DOMAIN is
              /\ it[js[k].intent].status = "not_started" /\ it[js[k].intent].method = "movable"
              /\ it[js[k].intent].amount = js[k].route.amount
              /\ js[k].state = "todo" /\ js[k].msg = 0
  <2>1. it[js[k].intent] = e[k]
    BY <1>7, <1>9
  <2> QED BY <1>4, <1>9, <1>12, <2>1
<1>15. \A j, k \in 1..n : j # k => js[j].intent # js[k].intent
  BY <1>9
<1> QED BY <1>7, <1>8, <1>10, <1>11, <1>13, <1>14, <1>15

\* The routes of a cycle are planned.
LEMMA PlanStep ==
  ASSUME IInv, Plan
  PROVE  IInv'
<1>0. pc = "plan" /\ UNCHANGED <<world, transfers, actions, event, asked, orphans, task>>
  BY DEF Plan
<1>1. PICK routes \in {IF Len(intents) < setting.intents THEN Routes ELSE <<>>} :
        LET movable == Selected(routes, {r \in Range(routes) : r.bridge # "none"})
        IN  /\ wanted' = Selected(routes, {r \in Range(routes) : r.bridge = "none"})
            /\ intents' = intents \o [k \in DOMAIN movable |->
                 Intent(movable[k].origin, movable[k].destination, movable[k].amount,
                        "movable", movable[k].bridge, "not_started")]
            /\ jobs' = [k \in DOMAIN movable |->
                 [intent |-> Len(intents) + k, route |-> movable[k], state |-> "todo", msg |-> 0]]
            /\ pc' = CASE movable # <<>> -> "send"
                       [] movable = <<>> -> "inventory"
  BY DEF Plan
<1>2. routes \in Seq(Route)
  <2>1. routes = Routes \/ routes = <<>>
    OBVIOUS
  <2>2. <<>> \in Seq(Route)
    OBVIOUS
  <2> QED BY <2>1, <2>2, RoutesOfCycle
<1>3. PICK p : p = Selected(routes, {r \in Range(routes) : r.bridge # "none"})
  OBVIOUS
<1>4. p \in Seq(Route)
  <2>1. PICK S : S = {r \in Range(routes) : r.bridge # "none"}
    OBVIOUS
  <2>2. p \in Seq(Route \cap S)
    BY <1>2, <1>3, <2>1, SelectedType
  <2> QED BY <2>2
<1>5. wanted' \in Seq(Route)
  <2>1. PICK S : S = {r \in Range(routes) : r.bridge = "none"}
    OBVIOUS
  <2>2. wanted' \in Seq(Route \cap S)
    BY <1>1, <1>2, <2>1, SelectedType
  <2> QED BY <2>2
<1>6. Plans(intents, p, intents', jobs')
  BY <1>1, <1>3 DEF Plans
<1>7. (p # <<>> => pc' = "send") /\ (p = <<>> => pc' = "inventory")
  BY <1>1, <1>3
<1>8. intents \in Seq(IntentSet) /\ StoreInv(intents, actions)
  BY DEF IInv, StoreInv, Typed
<1>9. /\ intents' \in Seq(IntentSet) /\ DOMAIN intents \subseteq DOMAIN intents'
      /\ \A i \in DOMAIN intents : intents'[i] = intents[i]
      /\ jobs' \in Seq(JobSet) /\ (p = <<>> => jobs' = <<>>)
      /\ \A k \in DOMAIN jobs' :
           /\ jobs'[k].intent \in DOMAIN intents' \ DOMAIN intents
           /\ intents'[jobs'[k].intent].status = "not_started"
           /\ intents'[jobs'[k].intent].method = "movable"
           /\ intents'[jobs'[k].intent].amount = jobs'[k].route.amount
           /\ jobs'[k].state = "todo" /\ jobs'[k].msg = 0
      /\ \A j, k \in DOMAIN jobs' : j # k => jobs'[j].intent # jobs'[k].intent
  BY <1>4, <1>6, <1>8, JobsPlanned
<1>10. actions' = actions /\ KeepsActions(actions, actions')
  BY <1>0 DEF KeepsActions
<1>11. StoreInv(intents', actions) /\ KeepsIntents(intents, intents')
  BY <1>8, <1>9, IntentsAdded
<1>12. StoreInv(intents', actions')
  BY <1>10, <1>11
<1>13. JobsInv'
  <2>1. ASSUME NEW k \in DOMAIN jobs' PROVE JobFits(intents', actions', jobs'[k])
    <3>1. \A a \in DOMAIN actions' : actions'[a].intent # jobs'[k].intent
      BY <1>8, <1>9, <1>10 DEF StoreInv, Typed
    <3> QED BY <1>9, <3>1 DEF JobFits
  <2>2. \A k \in DOMAIN jobs' : jobs'[k].msg <= Len(msgs')
    <3>1. 0 <= Len(msgs) /\ msgs' = msgs
      BY <1>0 DEF IInv, WorldInv, world
    <3> QED BY <1>9, <3>1
  <2> QED BY <1>7, <1>9, <2>1, <2>2 DEF JobsInv
<1>14. TaskInv'
  BY <1>0, <1>5, <1>7, <1>9 DEF IInv, TaskInv
<1>15. OnceInv'
  BY <1>0, <1>9, <1>10 DEF IInv, OnceInv, OneActionPerMessage, Fault, world
<1>16. SyncInv'
  BY <1>0, <1>7, <1>10 DEF IInv, SyncInv, Fault, Delivered, world
<1>17. /\ \A m \in DOMAIN transfers' : m \in Kind("transfer")
       /\ event' \in EventSet /\ event'.delivered \subseteq Delivered
       /\ \A o \in orphans' : o.delivered \subseteq Delivered
  BY <1>0 DEF IInv, WorldInv
<1>18. DOMAIN actions' \ DOMAIN actions = {} /\ \A i : Deposited(actions', i) = Deposited(actions, i)
  BY <1>10
<1> QED BY <1>0, <1>10, <1>11, <1>12, <1>13, <1>14, <1>15, <1>16, <1>17, <1>18, StoresMove

-----------------------------------------------------------------------------
(* Execution with inventory *)

\* The least of a set of numbers is one of them.
LEMMA MinIn ==
  ASSUME NEW T, T \subseteq Nat, T # {}
  PROVE  Min(T) \in T
<1>1. \E x \in T : \A y \in T : x <= y
  BY LeastOf
<1> QED BY <1>1 DEF Min

\* The intent that is continued awaits nothing once its stale movements have
\* failed, and what remains of it is what its deposits leave.
LEMMA ContinuedFits ==
  ASSUME NEW is, NEW as, StoreInv(is, as),
         NEW i \in getPartiallyFulfilledInventoryIntents(is, as),
         Deposits(as, i, "in_progress") = 0, NEW at, at = failStaleMovements(is, as)
  PROVE  TaskFits(is, at, i, Remaining(is, as, i))
<1>0. is \in Seq(IntentSet) /\ as \in Seq(ActionSet)
  BY DEF StoreInv, Typed
<1>1. /\ i \in Unblocked(is, as)
      /\ Remaining(is, as, i) > 0 \/ Deposits(as, i, "in_progress") > 0
  BY DEF getPartiallyFulfilledInventoryIntents
<1>2. /\ i \in DOMAIN is /\ is[i].method = "inventory"
      /\ is[i].status \in {"not_started", "in_progress"}
  BY <1>1 DEF Unblocked, ActiveInventoryIntents
<1>3. at \in Seq(ActionSet) /\ Ends(is, as, is, at) /\ FailsStale(is, as, at)
  BY FailStaleDoes
<1>4. KeepsActions(as, at) /\ DOMAIN at = DOMAIN as
  BY <1>3 DEF Ends
<1>5. ActionsWith(as, i, {"inventory_deposit"}, "in_progress") = {}
  BY <1>0, DepositsType
<1>6. ASSUME NEW a \in DOMAIN at, at[a].intent = i PROVE at[a].status # "in_progress"
  <2>1. SUFFICES ASSUME at[a].status = "in_progress" PROVE FALSE
    OBVIOUS
  <2>2. a \in DOMAIN as /\ as[a].intent = i /\ as[a].status = "in_progress"
    BY <1>3, <1>4, <1>6, <2>1 DEF KeepsActions, FailsStale
  <2>3. Fits(is, as, a)
    BY <2>2 DEF StoreInv
  <2>4. as[a].type # "rebalance_message"
    BY <1>2, <2>2, <2>3 DEF Fits, MessageFits
  <2>5. as[a].type # "inventory_deposit"
    BY <1>5, <2>2 DEF ActionsWith
  <2>6. as[a].type = "inventory_movement"
    <3>1. as[a] \in ActionSet
      BY <1>0, <2>2, ElementOf
    <3> QED BY <2>4, <2>5, <3>1 DEF ActionSet
  <2>7. a \in InflightMovements(as, i)
    BY <2>2, <2>6 DEF InflightMovements, ActionsWith
  <2> QED BY <1>1, <1>3, <2>1, <2>2, <2>7 DEF FailsStale
<1>7. DepositsOf(as, i) = ActionsWith(as, i, {"inventory_deposit"}, "complete")
  <2>1. ASSUME NEW a \in DepositsOf(as, i) PROVE as[a].status = "complete"
    <3>1. a \in DOMAIN as /\ as[a].type = "inventory_deposit" /\ as[a].intent = i
      BY DEF DepositsOf
    <3>2. as[a].status # "in_progress"
      BY <1>5, <3>1 DEF ActionsWith
    <3>3. Fits(is, as, a)
      BY <3>1 DEF StoreInv
    <3>4. as[a].status # "failed"
      BY <1>2, <3>1, <3>3 DEF Fits, DepositFits
    <3>5. as[a] \in ActionSet
      BY <1>0, <3>1, ElementOf
    <3> QED BY <3>2, <3>4, <3>5 DEF ActionSet
  <2>2. DepositsOf(as, i) \subseteq ActionsWith(as, i, {"inventory_deposit"}, "complete")
    BY <2>1 DEF DepositsOf, ActionsWith
  <2>3. ActionsWith(as, i, {"inventory_deposit"}, "complete") \subseteq DepositsOf(as, i)
    BY DEF DepositsOf, ActionsWith
  <2> QED BY <2>2, <2>3
<1>8. Deposited(as, i) = Deposits(as, i, "complete")
  BY <1>7 DEF Deposited, Deposits
<1>9. Deposited(at, i) = Deposited(as, i)
  BY <1>0, <1>4, SameDeposits
<1>10. PICK w \in Nat : w = Deposited(as, i)
  BY <1>0, DepositedType
<1>11. PICK v \in Nat : v = is[i].amount
  <2>1. is[i] \in IntentSet
    BY <1>0, <1>2, ElementOf
  <2> QED BY <2>1 DEF IntentSet
<1>12. PICK n : n = Remaining(is, as, i)
  OBVIOUS
<1>13. n = v - w - 0
  BY <1>8, <1>10, <1>11, <1>12 DEF Remaining
<1>14. n > 0
  <2>1. ~(Deposits(as, i, "in_progress") > 0)
    <3>1. ~(0 > 0)
      BY SMT
    <3>2. Deposits(as, i, "in_progress") = 0
      BY Zenon
    <3> QED BY <3>1, <3>2, Zenon
  <2> QED BY <1>1, <1>12, <2>1
<1>15. n \in Nat \ {0} /\ w + n <= v
  BY <1>13, <1>14
<1>16. Deposited(at, i) + n <= is[i].amount
  BY <1>9, <1>10, <1>11, <1>15
<1> QED BY <1>2, <1>6, <1>12, <1>15, <1>16 DEF TaskFits

\* A new intent awaits nothing.
LEMMA NewFits ==
  ASSUME NEW is, NEW as, StoreInv(is, as), NEW y \in IntentSet, y.method = "inventory",
         y.status = "not_started", NEW it, it = Append(is, y)
  PROVE  /\ StoreInv(it, as) /\ KeepsIntents(is, it)
         /\ TaskFits(it, as, Len(is) + 1, y.amount)
<1>0. is \in Seq(IntentSet) /\ as \in Seq(ActionSet)
  BY DEF StoreInv, Typed
<1>1. it \in Seq(IntentSet) /\ Longer(is, y, it)
  BY <1>0, Appended, Zenon
<1>2. PICK n : n = Len(is) + 1
  OBVIOUS
<1>3. /\ n \in DOMAIN it /\ n \notin DOMAIN is /\ it[n] = y /\ DOMAIN is \subseteq DOMAIN it
      /\ \A i \in DOMAIN is : it[i] = is[i]
  BY <1>1, <1>2 DEF Longer
<1>4. /\ StoreInv(it, as) /\ KeepsIntents(is, it)
      /\ \A i \in DOMAIN it \ DOMAIN is : Deposited(as, i) = 0
  BY <1>1, <1>3, IntentsAdded
<1>5. \A a \in DOMAIN as : as[a].intent # n
  BY <1>3 DEF StoreInv, Typed
<1>6. y.amount \in Nat \ {0}
  BY DEF IntentSet
<1>7. Deposited(as, n) + y.amount <= it[n].amount
  <2>1. Deposited(as, n) = 0
    BY <1>3, <1>4
  <2>2. PICK v \in Nat : v = y.amount
    BY <1>6
  <2>3. 0 + v <= v
    OBVIOUS
  <2> QED BY <1>3, <2>1, <2>2, <2>3
<1>8. TaskFits(it, as, n, y.amount)
  BY <1>3, <1>5, <1>6, <1>7 DEF TaskFits
<1> QED BY <1>2, <1>4, <1>8

\* The intent of the cycle is picked.
LEMMA PickIntentStep ==
  ASSUME IInv, PickIntent
  PROVE  IInv'
<1>0. /\ pc = "inventory" /\ actions' = failStaleMovements(intents, actions) /\ wanted' = <<>>
      /\ UNCHANGED <<world, transfers, asked, orphans, jobs>>
  BY DEF PickIntent
<1>1. StoreInv(intents, actions) /\ intents \in Seq(IntentSet) /\ actions \in Seq(ActionSet)
  BY DEF IInv, StoreInv, Typed
<1>2. /\ actions' \in Seq(ActionSet) /\ Ends(intents, actions, intents, actions')
      /\ FailsStale(intents, actions, actions')
  BY <1>0, <1>1, FailStaleDoes
<1>3. KeepsActions(actions, actions') /\ DOMAIN actions' = DOMAIN actions
  BY <1>2 DEF Ends
<1>4. StoreInv(intents, actions') /\ \A i : Deposited(actions', i) = Deposited(actions, i)
  BY <1>1, <1>2, EndsInv
<1>5. wanted \in Seq(Route) /\ task.intent \in {0} \cup DOMAIN intents /\ jobs = <<>>
  BY <1>0 DEF IInv, TaskInv, JobsInv
<1>6. /\ StoreInv(intents', actions') /\ KeepsIntents(intents, intents') /\ TaskInv'
      /\ pc' \in {"idle", "execute"} /\ (event' = event \/ event' = NoEvent)
  <2>1. CASE /\ Partial # {} /\ Deposits(actions, Continued, "in_progress") > 0
             /\ EndCycle /\ UNCHANGED <<intents, task>>
    BY <1>0, <1>4, <1>5, <2>1 DEF EndCycle, TaskInv, KeepsIntents
  <2>2. CASE /\ Partial # {} /\ Deposits(actions, Continued, "in_progress") = 0
             /\ task' = [intent |-> Continued, amount |-> Remaining(intents, actions, Continued)]
             /\ pc' = "execute" /\ UNCHANGED <<intents, event>>
    <3>1. Continued \in Partial
      <4>1. PICK P : P = Partial
        OBVIOUS
      <4>2. P \subseteq Nat /\ P # {}
        <5>1. P \subseteq DOMAIN intents
          BY <4>1 DEF Partial, getPartiallyFulfilledInventoryIntents, Unblocked,
                      ActiveInventoryIntents
        <5>2. DOMAIN intents \subseteq Nat
          BY <1>1
        <5> QED BY <2>2, <4>1, <5>1, <5>2
      <4>3. PICK Q : Q = P \cap ActiveInventoryIntents(intents, "in_progress")
        OBVIOUS
      <4>4. Continued = Min(IF Q # {} THEN Q ELSE P)
        BY <4>1, <4>3 DEF Continued, First
      <4>5. CASE Q # {}
        <5>1. Min(Q) \in Q
          BY <4>2, <4>3, <4>5, MinIn
        <5> QED BY <4>1, <4>3, <4>4, <4>5, <5>1
      <4>6. CASE Q = {}
        <5>1. Min(P) \in P
          BY <4>2, MinIn
        <5> QED BY <4>1, <4>4, <4>6, <5>1
      <4> QED BY <4>5, <4>6
    <3>2. PICK i : i = Continued
      OBVIOUS
    <3>3. /\ i \in getPartiallyFulfilledInventoryIntents(intents, actions)
          /\ Deposits(actions, i, "in_progress") = 0
      BY <2>2, <3>1, <3>2 DEF Partial
    <3>4. TaskFits(intents, actions', i, Remaining(intents, actions, i))
      BY <1>0, <1>1, <3>3, ContinuedFits
    <3>5. task'.intent = i /\ task'.amount = Remaining(intents, actions, i) /\ intents' = intents
      BY <2>2, <3>2
    <3>6. TaskFits(intents', actions', task'.intent, task'.amount) /\ i \in DOMAIN intents
      BY <3>4, <3>5 DEF TaskFits
    <3> QED BY <1>0, <1>4, <2>2, <3>5, <3>6 DEF TaskInv, KeepsIntents
  <2>3. CASE Partial = {} /\ wanted = <<>> /\ EndCycle /\ UNCHANGED <<intents, task>>
    BY <1>0, <1>4, <1>5, <2>3 DEF EndCycle, TaskInv, KeepsIntents
  <2>4. CASE /\ Partial = {} /\ wanted # <<>>
             /\ intents' = Append(intents, Intent(Head(wanted).origin, Head(wanted).destination,
                                                  Head(wanted).amount, "inventory", "none",
                                                  "not_started"))
             /\ task' = [intent |-> Len(intents) + 1, amount |-> Head(wanted).amount]
             /\ pc' = "execute" /\ UNCHANGED event
    <3>1. PICK r \in Route : r = Head(wanted)
      BY <1>5, <2>4
    <3>2. /\ r.origin \in Chains /\ r.destination \in Chains /\ r.amount \in Nat \ {0}
          /\ "none" \in Bridges /\ "not_started" \in Statuses
      BY DEF Route, Bridges, Statuses
    <3>3. PICK y : y = Intent(r.origin, r.destination, r.amount, "inventory", "none", "not_started")
      OBVIOUS
    <3>4. /\ y \in IntentSet /\ y.status = "not_started" /\ y.method = "inventory"
          /\ y.amount = r.amount
      BY <3>2, <3>3, IntentType
    <3>5. intents' = Append(intents, y)
      BY <2>4, <3>1, <3>3
    <3>6. /\ StoreInv(intents', actions') /\ KeepsIntents(intents, intents')
          /\ TaskFits(intents', actions', Len(intents) + 1, y.amount)
      BY <1>4, <3>4, <3>5, NewFits
    <3>7. task'.intent = Len(intents) + 1 /\ task'.amount = y.amount
      BY <2>4, <3>1, <3>4
    <3>8. TaskFits(intents', actions', task'.intent, task'.amount) /\ task'.intent \in DOMAIN intents'
      BY <3>6, <3>7 DEF TaskFits
    <3>9. TaskInv'
      BY <1>0, <3>8 DEF TaskInv
    <3> QED BY <2>4, <3>6, <3>9
  <2> QED BY <2>1, <2>2, <2>3, <2>4 DEF PickIntent
<1>7. JobsInv'
  BY <1>0, <1>5 DEF JobsInv
<1>8. OnceInv'
  BY <1>0, <1>3, <1>5 DEF IInv, OnceInv, OneActionPerMessage, Fault, KeepsActions, world
<1>9. SyncInv'
  <2>1. setting' = setting /\ Delivered' = Delivered
    BY <1>0 DEF world, Delivered
  <2>2. ASSUME ~Fault("explorer"), NEW a \in DOMAIN actions',
               actions'[a].type = "rebalance_message", actions'[a].status = "complete"
        PROVE  actions'[a].msg \in Delivered
    BY <1>2, <1>3, <2>2 DEF IInv, SyncInv, KeepsActions, FailsStale
  <2> QED BY <1>6, <2>1, <2>2 DEF SyncInv, Fault
<1>10. /\ \A m \in DOMAIN transfers' : m \in Kind("transfer")
       /\ event' \in EventSet /\ event'.delivered \subseteq Delivered
       /\ \A o \in orphans' : o.delivered \subseteq Delivered
  BY <1>0, <1>6, NoEventType DEF IInv, WorldInv
<1> QED BY <1>0, <1>3, <1>4, <1>6, <1>7, <1>8, <1>9, <1>10, StoresMove

\* What executeRoute reads of a task.
LEMMA TaskFacts ==
  ASSUME IInv, pc = "execute"
  PROVE  /\ TaskFits(intents, actions, task.intent, task.amount)
         /\ Deficit \in Chains /\ Surplus \in Chains /\ event.inventory \in [Chains -> Nat]
         /\ Available \in Nat /\ setting.cost \in Nat /\ task.amount \in Nat \ {0}
         /\ task.intent \in Nat
<1>1. TaskFits(intents, actions, task.intent, task.amount)
  BY DEF IInv, TaskInv
<1>2. intents \in Seq(IntentSet)
  BY DEF IInv, StoreInv, Typed
<1>3. task.intent \in DOMAIN intents /\ task.amount \in Nat \ {0}
  BY <1>1 DEF TaskFits
<1>4. intents[task.intent] \in IntentSet /\ task.intent \in Nat
  BY <1>2, <1>3, ElementOf
<1>5. Deficit \in Chains /\ Surplus \in Chains
  BY <1>4 DEF IntentSet, Deficit, Surplus
<1>6. event \in EventSet
  BY DEF IInv, WorldInv
<1>7. event.inventory \in [Chains -> Nat]
  BY <1>6 DEF EventSet
<1>8. Available \in Nat
  BY <1>5, <1>7 DEF Available
<1>9. setting.cost \in Nat
  BY SettingsAssumption DEF IInv, WorldInv
<1> QED BY <1>1, <1>3, <1>4, <1>5, <1>7, <1>8, <1>9

\* What can be deposited is no more than the task.
LEMMA Transferable ==
  ASSUME IInv, pc = "execute", CanDeposit
  PROVE  MaxTransferable \in Nat \ {0} /\ MaxTransferable <= task.amount
<1>1. Available \in Nat /\ setting.cost \in Nat /\ task.amount \in Nat \ {0}
  BY TaskFacts
<1>2. PICK p \in Int : p = Positive(Available - setting.cost) /\ p >= 0
  BY <1>1 DEF Positive
<1>3. PICK n \in Int : n = task.amount /\ n > 0
  BY <1>1
<1>4. PICK v : v = MaxTransferable
  OBVIOUS
<1>5. v = Min({p, n})
  BY <1>2, <1>3, <1>4 DEF MaxTransferable
<1>6. v \in {p, n} /\ v <= p /\ v <= n
  BY <1>5, MinOfTwo
<1>7. v >= n \/ v > 0
  BY <1>3, <1>4 DEF CanDeposit
<1>8. v \in Nat \ {0} /\ v <= n
  BY <1>2, <1>3, <1>6, <1>7
<1> QED BY <1>3, <1>4, <1>8

\* What a deposit does on the chains and to the cycle, whatever is recorded.
LEMMA DepositWorld ==
  ASSUME IInv, NEW store, Deposit(store)
  PROVE  /\ WorldInv' /\ Delivered \subseteq Delivered' /\ JobsInv' /\ jobs' = <<>>
         /\ setting' = setting /\ moves' = moves /\ orphans' = orphans /\ asked' = asked
         /\ msgs \in Seq(MessageSet) /\ pc' = "idle" /\ event' = NoEvent /\ task' = NoTask
         /\ wanted' = wanted /\ intents' = store.intents /\ actions' = store.actions
         /\ \E x \in MessageSet : /\ x.kind = "deposit" /\ x.amount = MaxTransferable
                                  /\ x.intent = task.intent /\ msgs' = Append(msgs, x)
<1>0. /\ pc = "execute" /\ CanDeposit /\ inventory[Deficit] >= MaxTransferable + setting.cost
      /\ inventory' = [inventory EXCEPT ![Deficit] = @ - MaxTransferable - setting.cost]
      /\ collateral' = [collateral EXCEPT ![Deficit] = @ + MaxTransferable]
      /\ msgs' = Append(msgs, Message("deposit", Deficit, Surplus, MaxTransferable, task.intent))
      /\ intents' = store.intents /\ actions' = store.actions
      /\ pc' = "idle" /\ event' = NoEvent /\ task' = NoTask
      /\ UNCHANGED <<setting, moves, transfers, asked, orphans, jobs, wanted>>
  BY DEF Deposit, SetStore, EndTask, EndCycle
<1>1. /\ collateral \in [Chains -> Nat] /\ inventory \in [Chains -> Nat]
      /\ msgs \in Seq(MessageSet) /\ moves \in Seq(MoveSet)
  BY DEF IInv, WorldInv
<1>2. /\ Deficit \in Chains /\ Surplus \in Chains /\ setting.cost \in Nat /\ task.intent \in Nat
      /\ MaxTransferable \in Nat \ {0}
  BY <1>0, TaskFacts, Transferable
<1>3. PICK d \in Chains, c \in Nat, v \in Nat \ {0} :
        d = Deficit /\ c = setting.cost /\ v = MaxTransferable
  BY <1>2
<1>4. inventory' \in [Chains -> Nat]
  <2>1. inventory' = [inventory EXCEPT ![d] = @ - v - c] /\ inventory[d] >= v + c
    BY <1>0, <1>3
  <2>2. inventory[d] - v - c \in Nat
    BY <1>1, <2>1
  <2> QED BY <1>1, <2>1, <2>2
<1>5. collateral' \in [Chains -> Nat]
  <2>1. collateral' = [collateral EXCEPT ![d] = @ + v]
    BY <1>0, <1>3
  <2> QED BY <1>1, <2>1
<1>6. PICK x : x = Message("deposit", d, Surplus, v, task.intent)
  OBVIOUS
<1>7. x \in MessageSet /\ x.kind = "deposit" /\ x.amount = v /\ x.intent = task.intent
  <2>1. PICK o \in Chains, i \in Nat : o = Surplus /\ i = task.intent
    BY <1>2
  <2>2. x = Message("deposit", d, o, v, i) /\ v \in Nat
    BY <1>6, <2>1
  <2>3. x \in MessageSet /\ x.kind = "deposit" /\ x.amount = v /\ x.intent = i
    BY <2>2, MessageType
  <2> QED BY <2>1, <2>3
<1>8. msgs' = Append(msgs, x)
  BY <1>0, <1>3, <1>6
<1>9. /\ msgs' \in Seq(MessageSet) /\ MessagesKeep(msgs, msgs') /\ Longer(msgs, x, msgs')
      /\ \A m \in DOMAIN msgs' \ DOMAIN msgs : msgs'[m] = x
  <2>1. msgs \in Seq(MessageSet) /\ x \in MessageSet /\ msgs' = Append(msgs, x)
    BY <1>1, <1>7, <1>8
  <2> QED BY <2>1, MessageAppended, Zenon
<1>10. WorldInv' /\ Delivered \subseteq Delivered'
  <2>1. \A m \in DOMAIN msgs' \ DOMAIN msgs : msgs'[m].kind = "rebalance" => msgs'[m].amount > 0
    BY <1>7, <1>9
  <2>2. /\ \A m \in DOMAIN transfers' : m \in Kind("transfer")
        /\ event' \in EventSet /\ event'.delivered \subseteq Delivered
        /\ \A i \in orphans' : i.delivered \subseteq Delivered
        /\ moves' \in Seq(MoveSet) /\ setting' = setting
    BY <1>0, <1>1, NoEventType DEF IInv, WorldInv
  <2>3. WorldInv
    BY DEF IInv
  <2> QED BY <1>4, <1>5, <1>9, <2>1, <2>2, <2>3, WorldKept
<1>11. JobsInv' /\ jobs' = <<>>
  BY <1>0 DEF IInv, JobsInv
<1> QED BY <1>0, <1>1, <1>3, <1>7, <1>8, <1>10, <1>11

\* A deposit is mined, and recorded with its message or without.
LEMMA DepositRecorded ==
  ASSUME IInv, NEW h \in {0, Len(msgs) + 1},
         Deposit(createRebalanceAction(Store, DepositAction(h)))
  PROVE  IInv'
<1>1. PICK t : t = createRebalanceAction(Store, DepositAction(h))
  OBVIOUS
<1>2. Deposit(t) /\ pc = "execute" /\ CanDeposit
  BY <1>1 DEF Deposit
<1>3. /\ WorldInv' /\ Delivered \subseteq Delivered' /\ JobsInv' /\ jobs' = <<>>
      /\ setting' = setting /\ moves' = moves /\ orphans' = orphans /\ asked' = asked
      /\ msgs \in Seq(MessageSet) /\ pc' = "idle" /\ event' = NoEvent /\ task' = NoTask
      /\ wanted' = wanted /\ intents' = t.intents /\ actions' = t.actions
      /\ \E x \in MessageSet : /\ x.kind = "deposit" /\ x.amount = MaxTransferable
                               /\ x.intent = task.intent /\ msgs' = Append(msgs, x)
  BY <1>2, DepositWorld
<1>4. PICK v \in Nat \ {0} : v = MaxTransferable /\ v <= task.amount
  BY <1>2, Transferable
<1>5. PICK i \in Nat : i = task.intent
  BY <1>2, TaskFacts
<1>6. PICK n \in Nat \ {0} : n = task.amount
  BY <1>2, TaskFacts
<1>7. TaskFits(intents, actions, i, n)
  BY <1>2, <1>5, <1>6, TaskFacts
<1>8. Len(msgs) \in Nat /\ h \in Nat
  BY <1>3
<1>9. PICK x : x = DepositAction(h)
  OBVIOUS
<1>10. /\ x \in ActionSet /\ x.type = "inventory_deposit" /\ x.status = "in_progress"
       /\ x.intent = i /\ x.msg = h /\ x.move = 0 /\ x.amount = v
  <2>1. x = Action("inventory_deposit", i, h, 0, v)
    BY <1>4, <1>5, <1>9 DEF DepositAction
  <2> QED BY <1>8, <2>1 DEF Action, ActionSet
<1>11. StoreInv(intents, actions) /\ intents \in Seq(IntentSet) /\ actions \in Seq(ActionSet)
  BY DEF IInv, StoreInv, Typed
<1>12. Deposited(actions, i) + v <= intents[i].amount
  <2>1. PICK w \in Nat : w = Deposited(actions, i)
    BY <1>11, DepositedType
  <2>2. PICK z \in Nat : z = intents[i].amount
    <3>1. intents[i] \in IntentSet
      BY <1>7, <1>11, ElementOf DEF TaskFits
    <3> QED BY <3>1 DEF IntentSet
  <2>3. w + n <= z
    BY <1>7, <2>1, <2>2 DEF TaskFits
  <2>4. v <= n
    BY <1>4, <1>6
  <2>5. w + v <= z
    BY <2>3, <2>4
  <2> QED BY <2>1, <2>2, <2>5
<1>13. CanTake(intents, actions, x)
  BY <1>7, <1>10, <1>12 DEF CanTake, TaskFits
<1>14. Creates(intents, actions, x, t.intents, t.actions)
  <2>1. Store.intents = intents /\ Store.actions = actions /\ t = createRebalanceAction(Store, x)
    BY <1>1, <1>9 DEF Store
  <2> QED BY <1>11, <1>13, <2>1, CreateDoes
<1>15. StoreInv(intents', actions') /\ KeepsActions(actions, actions')
  BY <1>3, <1>11, <1>13, <1>14, CreatesInv
<1>16. actions' = Append(actions, x) /\ DOMAIN intents' = DOMAIN intents
  BY <1>3, <1>14 DEF Creates
<1>17. Longer(actions, x, actions')
  BY <1>10, <1>11, <1>16, Appended, Zenon
<1>18. \A a \in DOMAIN actions' : a \in DOMAIN actions \/ actions'[a] = x
  BY <1>17 DEF Longer
<1>19. \A a \in DOMAIN actions : actions'[a] = actions[a]
  BY <1>17 DEF Longer
<1>20. \A a \in DOMAIN actions : actions[a].msg <= Len(msgs) /\ actions[a].msg \in Nat
  <2>1. \A a \in DOMAIN actions : actions[a] \in ActionSet
    BY <1>11, ElementOf
  <2>2. \A y \in ActionSet : y.msg \in Nat
    BY DEF ActionSet
  <2> QED BY <2>1, <2>2 DEF IInv, NamesInv
<1>21. PICK m \in MessageSet : /\ m.kind = "deposit" /\ m.amount = v /\ m.intent = i
                               /\ msgs' = Append(msgs, m)
  BY <1>3, <1>4, <1>5
<1>22. /\ MessagesKeep(msgs, msgs') /\ Longer(msgs, m, msgs')
       /\ \A k \in DOMAIN msgs' \ DOMAIN msgs : msgs'[k] = m
  <2>1. msgs \in Seq(MessageSet) /\ m \in MessageSet /\ msgs' = Append(msgs, m)
    BY <1>3, <1>21
  <2> QED BY <2>1, MessageAppended, Zenon
<1>23. Len(msgs') = Len(msgs) + 1
  BY <1>22 DEF Longer
<1>24. NamesInv'
  <2>1. \A a \in DOMAIN actions' : actions'[a].msg <= Len(msgs')
    BY <1>8, <1>10, <1>18, <1>19, <1>20, <1>23
  <2>2. \A a \in DOMAIN actions' : actions'[a].move <= Len(moves)
    <3>1. 0 <= Len(moves)
      BY DEF IInv, WorldInv
    <3> QED BY <1>10, <1>18, <1>19, <3>1 DEF IInv, NamesInv
  <2>3. Len(intents') = Len(intents) /\ i <= Len(intents)
    BY <1>7, <1>11, <1>15, <1>16 DEF TaskFits, StoreInv, Typed
  <2>4. \A k \in DOMAIN msgs' : msgs'[k].intent <= Len(intents')
    BY <1>21, <1>22, <2>3 DEF IInv, NamesInv, MessagesKeep
  <2> QED BY <1>3, <2>1, <2>2, <2>4 DEF NamesInv
<1>25. TaskInv'
  BY <1>3 DEF IInv, TaskInv, NoTask
<1>26. OnceInv'
  <2>1. ASSUME ~Fault("explorer"), NEW a \in DOMAIN actions', NEW b \in DOMAIN actions',
               a # b, actions'[a].msg # 0
        PROVE  actions'[a].msg # actions'[b].msg
    <3>1. CASE a \in DOMAIN actions /\ b \in DOMAIN actions
      BY <1>19, <2>1, <3>1 DEF IInv, OnceInv, OneActionPerMessage
    <3>2. CASE a \notin DOMAIN actions /\ b \in DOMAIN actions
      <4>1. actions'[a].msg = Len(msgs) + 1
        BY <1>10, <1>18, <2>1, <3>2
      <4> QED BY <1>8, <1>19, <1>20, <3>2, <4>1
    <3>3. CASE a \in DOMAIN actions /\ b \notin DOMAIN actions
      <4>1. actions'[b].msg \in {0, Len(msgs) + 1}
        BY <1>10, <1>18, <3>3
      <4> QED BY <1>8, <1>19, <1>20, <2>1, <3>3, <4>1
    <3>4. CASE a \notin DOMAIN actions /\ b \notin DOMAIN actions
      BY <1>17, <2>1, <3>4 DEF Longer
    <3> QED BY <3>1, <3>2, <3>3, <3>4
  <2>2. ~Fault("explorer") => OneActionPerMessage'
    BY <1>3, <2>1 DEF OneActionPerMessage, Fault
  <2> QED BY <1>3, <2>2 DEF IInv, OnceInv, Fault
<1>27. SyncInv'
  <2>1. ASSUME ~Fault("explorer"), NEW a \in DOMAIN actions',
               actions'[a].type = "rebalance_message", actions'[a].status = "complete"
        PROVE  actions'[a].msg \in Delivered
    BY <1>10, <1>18, <1>19, <2>1 DEF IInv, SyncInv
  <2> QED BY <1>3, <2>1 DEF SyncInv, Fault
<1>28. DepositInv'
  <2>1. SUFFICES ASSUME ~Fault("lost"), NEW k \in DOMAIN intents
                 PROVE  Sent(msgs', k) = Deposited(actions', k)
    BY <1>3, <1>16 DEF DepositInv, Fault
  <2>2. Sent(msgs, k) = Deposited(actions, k)
    BY <2>1 DEF IInv, DepositInv
  <2>3. Grows(actions, x, actions', k)
    BY <1>10, <1>11, <1>16, DepositedAppended, Zenon
  <2>4. CASE k = i
    <3>1. Sent(msgs', k) = Sent(msgs, k) + m.amount
      <4>1. msgs \in Seq(MessageSet) /\ m.intent = k
        BY <1>3, <1>21, <2>4
      <4> QED BY <1>21, <4>1, SentGrows, Zenon
    <3>2. Deposited(actions', k) = Deposited(actions, k) + x.amount
      BY <1>10, <2>3, <2>4, Zenon DEF Grows
    <3> QED BY <1>10, <1>21, <2>2, <3>1, <3>2, Zenon
  <2>5. CASE k # i
    <3>1. \A l \in DOMAIN msgs' \ DOMAIN msgs : ~(msgs'[l].kind = "deposit" /\ msgs'[l].intent = k)
      BY <1>21, <1>22, <2>5
    <3>2. Sent(msgs', k) = Sent(msgs, k)
      BY <1>3, <1>22, <3>1, SameSent
    <3>3. Deposited(actions', k) = Deposited(actions, k)
      BY <1>10, <2>3, <2>5, Zenon DEF Grows
    <3> QED BY <2>2, <3>2, <3>3
  <2> QED BY <2>4, <2>5
<1> QED BY <1>3, <1>15, <1>24, <1>25, <1>26, <1>27, <1>28 DEF IInv

\* A deposit is mined although its send failed: the tracker knows nothing of it.
LEMMA DepositLostStep ==
  ASSUME IInv, DepositLost
  PROVE  IInv'
<1>0. Fault("lost") /\ Deposit(Store) /\ pc = "execute"
  BY DEF DepositLost, Deposit
<1>1. /\ WorldInv' /\ Delivered \subseteq Delivered' /\ JobsInv' /\ jobs' = <<>>
      /\ setting' = setting /\ moves' = moves /\ orphans' = orphans /\ asked' = asked
      /\ msgs \in Seq(MessageSet) /\ pc' = "idle" /\ event' = NoEvent /\ task' = NoTask
      /\ wanted' = wanted /\ intents' = Store.intents /\ actions' = Store.actions
      /\ \E x \in MessageSet : /\ x.kind = "deposit" /\ x.amount = MaxTransferable
                               /\ x.intent = task.intent /\ msgs' = Append(msgs, x)
  BY <1>0, DepositWorld
<1>2. intents' = intents /\ actions' = actions
  BY <1>1 DEF Store
<1>3. PICK m \in MessageSet : m.intent = task.intent /\ msgs' = Append(msgs, m)
  BY <1>1
<1>4. /\ MessagesKeep(msgs, msgs') /\ Longer(msgs, m, msgs')
      /\ \A k \in DOMAIN msgs' \ DOMAIN msgs : msgs'[k] = m
  <2>1. msgs \in Seq(MessageSet) /\ m \in MessageSet /\ msgs' = Append(msgs, m)
    BY <1>1, <1>3
  <2> QED BY <2>1, MessageAppended, Zenon
<1>5. intents \in Seq(IntentSet) /\ actions \in Seq(ActionSet)
  BY DEF IInv, StoreInv, Typed
<1>6. NamesInv'
  <2>1. \A a \in DOMAIN actions : actions[a].msg <= Len(msgs')
    <3>1. \A a \in DOMAIN actions : actions[a] \in ActionSet
      BY <1>5, ElementOf
    <3>2. \A y \in ActionSet : y.msg \in Nat
      BY DEF ActionSet
    <3>3. Len(msgs) \in Nat /\ Len(msgs') = Len(msgs) + 1
      BY <1>4 DEF Longer
    <3> QED BY <3>1, <3>2, <3>3 DEF IInv, NamesInv
  <2>2. task.intent <= Len(intents)
    BY <1>0, <1>5 DEF IInv, TaskInv, TaskFits
  <2>3. \A k \in DOMAIN msgs' : msgs'[k].intent <= Len(intents)
    BY <1>3, <1>4, <2>2 DEF IInv, NamesInv, MessagesKeep
  <2> QED BY <1>1, <1>2, <2>1, <2>3 DEF IInv, NamesInv
<1>7. TaskInv'
  BY <1>1, <1>2 DEF IInv, TaskInv, NoTask
<1>8. OnceInv'
  BY <1>1, <1>2 DEF IInv, OnceInv, OneActionPerMessage, Fault
<1>9. SyncInv'
  BY <1>1, <1>2 DEF IInv, SyncInv, Fault
<1>10. DepositInv'
  BY <1>0, <1>1 DEF DepositInv, Fault
<1>11. StoreInv(intents', actions')
  BY <1>2 DEF IInv
<1> QED BY <1>1, <1>6, <1>7, <1>8, <1>9, <1>10, <1>11 DEF IInv

\* What a chain is to move is a natural number.
LEMMA PlannedType ==
  ASSUME IInv, pc = "execute", NEW c \in Chains
  PROVE  Planned(c) \in Nat
<1>1. /\ event.inventory \in [Chains -> Nat] /\ Available \in Nat /\ setting.cost \in Nat
      /\ task.amount \in Nat \ {0}
  BY TaskFacts
<1>2. PICK p \in Nat : p = Positive(task.amount - Available)
  BY <1>1 DEF Positive
<1>3. PICK w \in Int : w = TargetWithBuffer
  <2>1. PICK k \in Nat : k = setting.cost
    BY <1>1
  <2>2. ((p + k) * 105) \div 100 \in Int
    OBVIOUS
  <2> QED BY <1>2, <2>1, <2>2 DEF TargetWithBuffer
<1>4. PICK B : B = Before(c)
  OBVIOUS
<1>5. B \subseteq Chains
  BY <1>4 DEF Before, Sources
<1>6. IsFiniteSet(B)
  BY <1>5, ChainsAssumption, FS_Subset
<1>7. PICK z \in Int : z = SumFunctionOnSet([d \in B |-> event.inventory[d]], B)
  <2> DEFINE f == [d \in B |-> event.inventory[d]]
  <2>1. \A d \in B : f[d] \in Nat
    BY <1>1, <1>5
  <2>2. SumFunctionOnSet(f, B) \in Nat
    <3> HIDE DEF f
    <3> QED BY <1>6, <2>1, SumNat
  <2> QED BY <2>2
<1>8. PICK y \in Int : y = Positive(w - z) /\ y >= 0
  BY DEF Positive
<1>9. PICK v \in Int : v = event.inventory[c] /\ v >= 0
  BY <1>1
<1>10. Planned(c) = Min({v, y})
  BY <1>3, <1>4, <1>7, <1>8, <1>9 DEF Planned, Sum
<1>11. Min({v, y}) \in {v, y}
  BY MinOfTwo
<1> QED BY <1>8, <1>9, <1>10, <1>11

\* The movements and their actions.
MovesMade(made, j, l, d, amount, vs, q) ==
  /\ vs = [k \in DOMAIN made |-> [origin |-> made[k], destination |-> d, status |-> "pending",
                                  amount |-> amount[made[k]]]]
  /\ q = [k \in DOMAIN made |->
            Action("inventory_movement", j, 0, l + k, amount[made[k]])]

\* What is moved, and recorded.
LEMMA MovementsType ==
  ASSUME NEW S, S \subseteq Chains, NEW made \in Seq(S), NEW j \in Nat, NEW l \in Nat,
         NEW d \in Chains, NEW amount, \A c \in S : amount[c] \in Nat \ {0},
         NEW vs, NEW q, MovesMade(made, j, l, d, amount, vs, q)
  PROVE  /\ vs \in Seq(MoveSet) /\ q \in Seq(ActionSet)
         /\ \A k \in DOMAIN q : MovementOf(q[k], j, l + Len(vs))
<1>1. PICK n \in Nat : DOMAIN made = 1..n
  OBVIOUS
<1>2. ASSUME NEW k \in 1..n
      PROVE  vs[k] \in MoveSet /\ q[k] \in ActionSet /\ MovementOf(q[k], j, l + n)
  <2>1. made[k] \in S
    BY <1>1, ElementOf
  <2>2. PICK c \in Chains, v \in Nat \ {0} : c = made[k] /\ v = amount[c]
    BY <2>1
  <2>3. vs[k] = [origin |-> c, destination |-> d, status |-> "pending", amount |-> v]
    BY <1>1, <2>2 DEF MovesMade
  <2>4. vs[k] \in MoveSet
    BY <2>3 DEF MoveSet
  <2>5. PICK w \in Nat : w = l + k /\ w <= l + n
    OBVIOUS
  <2>6. q[k] = Action("inventory_movement", j, 0, w, v)
    BY <1>1, <2>2, <2>5 DEF MovesMade
  <2>7. /\ q[k] \in ActionSet /\ q[k].type = "inventory_movement" /\ q[k].status = "in_progress"
        /\ q[k].intent = j /\ q[k].msg = 0 /\ q[k].move = w
    BY <2>6 DEF Action, ActionSet
  <2>8. MovementOf(q[k], j, l + n)
    BY <2>5, <2>7 DEF MovementOf
  <2> QED BY <2>4, <2>7, <2>8
<1>3. DOMAIN vs = 1..n /\ vs = [k \in DOMAIN vs |-> vs[k]]
  BY <1>1 DEF MovesMade
<1>4. DOMAIN q = 1..n /\ q = [k \in DOMAIN q |-> q[k]]
  BY <1>1 DEF MovesMade
<1>5. vs \in Seq(MoveSet)
  BY <1>2, <1>3, Mapped
<1>6. q \in Seq(ActionSet)
  BY <1>2, <1>4, Mapped
<1>7. Len(vs) = n
  BY <1>3, <1>5
<1> QED BY <1>2, <1>4, <1>5, <1>6, <1>7

\* Inventory is moved.
LEMMA MoveInventoryStep ==
  ASSUME IInv, MoveInventory
  PROVE  IInv'
<1>0. /\ pc = "execute" /\ pc' = "idle" /\ event' = NoEvent /\ task' = NoTask
      /\ UNCHANGED <<setting, collateral, msgs, transfers, asked, orphans, jobs, wanted>>
  BY DEF MoveInventory, EndTask, EndCycle
<1>1. PICK done \in SUBSET {c \in BridgePlans : CanMove(c)} :
        /\ moves' = moves \o [k \in DOMAIN SetToSeq(done) |-> Movement(SetToSeq(done)[k])]
        /\ inventory' = [c \in Chains |-> IF c \in done THEN inventory[c] - Planned(c)
                                                       ELSE inventory[c]]
        /\ SetStore(FoldLeft(createRebalanceAction, Store, [k \in DOMAIN SetToSeq(done) |->
             Action("inventory_movement", task.intent, 0, Len(moves) + k,
                    Planned(SetToSeq(done)[k]))]))
  BY DEF MoveInventory
<1>2. /\ collateral \in [Chains -> Nat] /\ inventory \in [Chains -> Nat]
      /\ msgs \in Seq(MessageSet) /\ moves \in Seq(MoveSet) /\ StoreInv(intents, actions)
      /\ actions \in Seq(ActionSet)
  BY DEF IInv, WorldInv, StoreInv, Typed
<1>3. done \subseteq Chains /\ \A c \in done : Planned(c) > 0 /\ inventory[c] >= Planned(c)
  BY <1>1 DEF BridgePlans, Sources, CanMove
<1>4. \A c \in Chains : Planned(c) \in Nat
  BY <1>0, PlannedType
<1>5. PICK amount : amount = [c \in Chains |-> Planned(c)]
  OBVIOUS
<1>6. \A c \in done : amount[c] = Planned(c) /\ amount[c] \in Nat \ {0}
  BY <1>3, <1>4, <1>5
<1>7. inventory' \in [Chains -> Nat]
  <2>1. ASSUME NEW c \in Chains
        PROVE  (IF c \in done THEN inventory[c] - Planned(c) ELSE inventory[c]) \in Nat
    <3>1. PICK v \in Nat : v = inventory[c]
      BY <1>2
    <3>2. PICK w \in Nat : w = Planned(c)
      BY <1>4
    <3>3. c \in done => v >= w
      BY <1>3, <3>1, <3>2
    <3> QED BY <3>1, <3>2, <3>3
  <2> QED BY <1>1, <2>1
<1>8. IsFiniteSet(done)
  BY <1>3, ChainsAssumption, FS_Subset
<1>9. PICK made : made = SetToSeq(done)
  OBVIOUS
<1>10. made \in Seq(done)
  BY <1>8, <1>9, SequenceOf
<1>11. \A k \in DOMAIN made : made[k] \in done
  BY <1>10
<1>12. PICK j \in Nat, d \in Chains, l \in Nat : j = task.intent /\ d = Deficit /\ l = Len(moves)
  BY <1>0, <1>2, TaskFacts
<1>13. PICK vs : vs = [k \in DOMAIN made |-> Movement(made[k])]
  OBVIOUS
<1>14. PICK q : q = [k \in DOMAIN made |->
                       Action("inventory_movement", j, 0, l + k, Planned(made[k]))]
  OBVIOUS
<1>15. MovesMade(made, j, l, d, amount, vs, q)
  <2>1. \A k \in DOMAIN made : Planned(made[k]) = amount[made[k]]
    BY <1>6, <1>11
  <2>2. vs = [k \in DOMAIN made |-> [origin |-> made[k], destination |-> d, status |-> "pending",
                                     amount |-> amount[made[k]]]]
    BY <1>12, <1>13, <2>1 DEF Movement
  <2>3. q = [k \in DOMAIN made |-> Action("inventory_movement", j, 0, l + k, amount[made[k]])]
    BY <1>14, <2>1
  <2> QED BY <2>2, <2>3 DEF MovesMade
<1>16. /\ vs \in Seq(MoveSet) /\ q \in Seq(ActionSet)
       /\ \A k \in DOMAIN q : MovementOf(q[k], j, l + Len(vs))
  BY <1>3, <1>6, <1>10, <1>15, MovementsType
<1>17. moves' = moves \o vs
  BY <1>1, <1>9, <1>13
<1>18. PICK n \in Nat : n = Len(vs)
  BY <1>16
<1>19. moves' \in Seq(MoveSet) /\ Len(moves') = l + n
  BY <1>2, <1>12, <1>16, <1>17, <1>18, Concatenated
<1>20. PICK t : t = FoldLeft(createRebalanceAction, Store, q)
  OBVIOUS
<1>21. intents' = t.intents /\ actions' = t.actions
  BY <1>1, <1>9, <1>12, <1>14, <1>20 DEF SetStore
<1>22. TaskFits(intents, actions, j, task.amount)
  BY <1>0, <1>12, TaskFacts
<1>23. Waits(intents, actions, j)
  <2>1. intents[j] \in IntentSet
    BY <1>22, ElementOf DEF IInv, StoreInv, Typed, TaskFits
  <2>2. PICK z \in Nat : z = intents[j].amount
    BY <2>1 DEF IntentSet
  <2>3. PICK w \in Nat : w = Deposited(actions, j)
    BY <1>2, DepositedType
  <2>4. PICK v \in Nat \ {0} : v = task.amount
    BY <1>22 DEF TaskFits
  <2>5. w + v <= z
    BY <1>22, <2>2, <2>3, <2>4 DEF TaskFits
  <2>6. w < z
    BY <2>5
  <2> QED BY <1>22, <2>2, <2>3, <2>6 DEF Waits, TaskFits
<1>24. Moves(intents, actions, j, l + n, intents', actions')
  <2>1. Store = [intents |-> intents, actions |-> actions]
    BY DEF Store
  <2>2. intents[j].status \in {"not_started", "in_progress"}
    BY <1>22 DEF TaskFits
  <2>3. PICK e : e = l + n
    OBVIOUS
  <2>4. \A k \in DOMAIN q : MovementOf(q[k], j, e)
    BY <1>16, <1>18, <2>3
  <2>5. Moves(intents, actions, j, e, t.intents, t.actions)
    BY <1>2, <1>16, <1>20, <1>23, <2>1, <2>2, <2>4, MoveLoopDoes
  <2> QED BY <1>21, <2>3, <2>5
<1>25. /\ StoreInv(intents', actions') /\ KeepsIntents(intents, intents')
       /\ DOMAIN intents' = DOMAIN intents /\ KeepsActions(actions, actions')
       /\ \A a \in DOMAIN actions : actions'[a] = actions[a]
       /\ \A a \in DOMAIN actions' \ DOMAIN actions :
            actions'[a].type = "inventory_movement" /\ actions'[a].move <= Len(moves')
       /\ \A i : Deposited(actions', i) = Deposited(actions, i)
  BY <1>19, <1>24 DEF Moves
<1>26. \A a \in DOMAIN actions' \ DOMAIN actions : actions'[a].msg = 0
  <2>1. \A a \in DOMAIN actions' : Fits(intents', actions', a)
    BY <1>25 DEF StoreInv
  <2> QED BY <1>25, <2>1 DEF Fits, MovementFits
<1>27. WorldInv'
  <2>1. MessagesKeep(msgs, msgs') /\ DOMAIN msgs' = DOMAIN msgs
    BY <1>0 DEF MessagesKeep
  <2>2. /\ \A m \in DOMAIN transfers' : m \in Kind("transfer")
        /\ event' \in EventSet /\ event'.delivered \subseteq Delivered
        /\ \A i \in orphans' : i.delivered \subseteq Delivered
        /\ collateral' \in [Chains -> Nat] /\ msgs' \in Seq(MessageSet) /\ setting' = setting
    BY <1>0, <1>2, NoEventType DEF IInv, WorldInv
  <2>3. WorldInv
    BY DEF IInv
  <2> QED BY <1>7, <1>19, <2>1, <2>2, <2>3, WorldKept
<1>28. NamesInv'
  <2>1. ASSUME NEW a \in DOMAIN actions'
        PROVE  actions'[a].msg <= Len(msgs) /\ actions'[a].move <= Len(moves')
    <3>1. CASE a \in DOMAIN actions
      <4>1. actions[a] \in ActionSet
        BY <1>2, <3>1, ElementOf
      <4>2. actions[a].move \in Nat /\ actions[a].move <= Len(moves) /\ actions[a].msg <= Len(msgs)
        BY <3>1, <4>1 DEF ActionSet, IInv, NamesInv
      <4>3. actions[a].move <= Len(moves')
        BY <1>12, <1>19, <4>2
      <4> QED BY <1>25, <3>1, <4>2, <4>3
    <3>2. CASE a \notin DOMAIN actions
      <4>1. 0 <= Len(msgs)
        BY <1>2
      <4> QED BY <1>25, <1>26, <3>2, <4>1
    <3> QED BY <3>1, <3>2
  <2>2. Len(intents') = Len(intents)
    BY <1>25 DEF IInv, StoreInv, Typed
  <2> QED BY <1>0, <2>1, <2>2 DEF IInv, NamesInv
<1>29. JobsInv' /\ jobs' = <<>>
  BY <1>0 DEF IInv, JobsInv
<1>30. TaskInv'
  BY <1>0 DEF IInv, TaskInv, NoTask
<1>31. OnceInv'
  BY <1>0, <1>25, <1>26, <1>29 DEF IInv, OnceInv, OneActionPerMessage, Fault
<1>32. SyncInv'
  <2>1. ASSUME ~Fault("explorer"), NEW a \in DOMAIN actions',
               actions'[a].type = "rebalance_message", actions'[a].status = "complete"
        PROVE  actions'[a].msg \in Delivered
    BY <1>25, <2>1 DEF IInv, SyncInv
  <2>2. Delivered' = Delivered
    BY <1>0 DEF Delivered
  <2> QED BY <1>0, <2>1, <2>2 DEF SyncInv, Fault
<1>33. DepositInv'
  BY <1>0, <1>25 DEF IInv, DepositInv, Fault
<1> QED BY <1>25, <1>27, <1>28, <1>29, <1>30, <1>31, <1>32, <1>33 DEF IInv

-----------------------------------------------------------------------------
(* The invariant, and what follows from it *)

\* Every step keeps the invariant.
LEMMA StepKeeps ==
  ASSUME IInv, [Next]_vars
  PROVE  IInv'
<1>1. CASE Environment
  <2>1. ASSUME NEW o \in Chains, NEW d \in Chains, UserTransfer(o, d) PROVE IInv'
    BY <2>1, UserTransferStep
  <2>2. ASSUME NEW m \in DOMAIN msgs, Deliver(m) PROVE IInv'
    BY <2>2, DeliverStep
  <2>3. ASSUME NEW m \in DOMAIN msgs, ExplorerIndexes(m) PROVE IInv'
    BY <2>3, ExplorerIndexesStep
  <2>4. ASSUME NEW v \in DOMAIN moves, MoveEnds(v) PROVE IInv'
    BY <2>4, MoveEndsStep
  <2>5. ASSUME NEW i \in DOMAIN intents, IntentGrowsOld(i) PROVE IInv'
    BY <2>5, IntentGrowsOldStep
  <2>6. ASSUME NEW a \in DOMAIN actions, MovementGrowsStale(a) PROVE IInv'
    BY <2>6, MovementGrowsStaleStep
  <2>7. CASE Crash
    BY <2>7, CrashStep
  <2> QED BY <1>1, <2>1, <2>2, <2>3, <2>4, <2>5, <2>6, <2>7 DEF Environment
<1>2. CASE Sync
  <2>1. CASE Poll
    BY <2>1, PollStep
  <2>2. CASE SyncMovements
    BY <2>2, SyncMovementsStep
  <2>3. ASSUME NEW q \in asked, ExplorerAnswers(q) PROVE IInv'
    BY <2>3, ExplorerAnswersStep
  <2> QED BY <1>2, <2>1, <2>2, <2>3 DEF Sync
<1>3. CASE Movable
  <2>1. CASE ProcessResults
    BY <2>1, ProcessResultsStep
  <2>2. ASSUME NEW j \in DOMAIN jobs, RebalanceSent(j) PROVE IInv'
    BY <2>2, SendRebalanceStep DEF RebalanceSent
  <2>3. ASSUME NEW j \in DOMAIN jobs, RebalanceLost(j) PROVE IInv'
    BY <2>3, SendRebalanceStep DEF RebalanceLost
  <2>4. ASSUME NEW j \in DOMAIN jobs, RebalanceFails(j) PROVE IInv'
    BY <2>4, RebalanceFailsStep
  <2> QED BY <1>3, <2>1, <2>2, <2>3, <2>4 DEF Movable
<1>4. CASE InventorySteps
  <2>1. CASE PickIntent
    BY <2>1, PickIntentStep
  <2>2. CASE AcceptLoss
    BY <2>2, AcceptLossStep
  <2>3. CASE DepositSent
    BY <2>3, DepositRecorded DEF DepositSent
  <2>4. CASE DepositWithoutId
    BY <2>4, DepositRecorded DEF DepositWithoutId
  <2>5. CASE DepositLost
    BY <2>5, DepositLostStep
  <2>6. CASE DepositFails
    BY <2>6, DepositFailsStep
  <2>7. CASE MoveInventory
    BY <2>7, MoveInventoryStep
  <2> QED BY <1>4, <2>1, <2>2, <2>3, <2>4, <2>5, <2>6, <2>7 DEF InventorySteps
<1>5. CASE Restart
  BY <1>5, RestartStep
<1>6. CASE Plan
  BY <1>6, PlanStep
<1>7. ASSUME NEW q \in asked, ExplorerFails(q) PROVE IInv'
  BY <1>7, ExplorerFailsStep
<1>8. ASSUME NEW o \in orphans, OrphanAnswered(o) PROVE IInv'
  BY <1>8, OrphanAnsweredStep
<1>9. CASE UNCHANGED vars
  <2>1. UNCHANGED <<setting, stores, cycle>> /\ UNCHANGED world
    BY <1>9 DEF vars, world, stores, cycle
  <2>2. /\ collateral' = collateral /\ inventory' = inventory /\ msgs' = msgs /\ moves' = moves
    BY <2>1 DEF world
  <2>3. /\ collateral' \in [Chains -> Nat] /\ inventory' \in [Chains -> Nat]
        /\ msgs' \in Seq(MessageSet) /\ moves' \in Seq(MoveSet) /\ Len(moves) <= Len(moves')
    BY <2>2 DEF IInv, WorldInv
  <2>4. MessagesKeep(msgs, msgs') /\ DOMAIN msgs' \ DOMAIN msgs = {}
    BY <2>2 DEF MessagesKeep
  <2> QED BY <2>1, <2>3, <2>4, WorldMoves
<1> QED BY <1>1, <1>2, <1>3, <1>4, <1>5, <1>6, <1>7, <1>8, <1>9 DEF Next, Process

\* The inductive invariant holds in every state the rebalancer reaches.
THEOREM Invariance == Spec => []IInv
<1>1. Init => IInv
  BY Starts
<1>2. IInv /\ [Next]_vars => IInv'
  BY StepKeeps
<1> QED BY <1>1, <1>2, PTL DEF Spec

\* Collateral and inventory never become negative on any chain, every intent
\* is of some amount, what the ActionTracker's stores name exists, and the
\* route being executed has something left to deposit.
THEOREM TypeCorrect == Spec => []TypeOK
<1>1. IInv => TypeOK
  <2> SUFFICES ASSUME IInv PROVE TypeOK
    OBVIOUS
  <2>1. /\ collateral \in [Chains -> Nat] /\ inventory \in [Chains -> Nat]
        /\ \A m \in DOMAIN transfers : m \in Kind("transfer")
    BY DEF IInv, WorldInv
  <2>2. ASSUME NEW i \in DOMAIN intents
        PROVE  intents[i].status \in Statuses /\ intents[i].amount > 0
    <3>1. intents[i] \in IntentSet
      BY ElementOf DEF IInv, StoreInv, Typed
    <3> QED BY <3>1 DEF IntentSet
  <2>3. ASSUME NEW a \in DOMAIN actions
        PROVE  /\ actions[a].intent \in DOMAIN intents /\ actions[a].status \in Statuses
               /\ actions[a].msg \in 0..Len(msgs) /\ actions[a].move \in 0..Len(moves)
    <3>1. actions[a] \in ActionSet
      BY ElementOf DEF IInv, StoreInv, Typed
    <3>2. /\ actions[a].status \in Statuses /\ actions[a].msg \in Nat /\ actions[a].move \in Nat
      BY <3>1 DEF ActionSet, Statuses
    <3>3. actions[a].msg <= Len(msgs) /\ actions[a].move <= Len(moves)
      BY DEF IInv, NamesInv
    <3>4. Len(msgs) \in Nat /\ Len(moves) \in Nat
      BY DEF IInv, WorldInv
    <3>5. actions[a].intent \in DOMAIN intents
      BY DEF IInv, StoreInv, Typed
    <3> QED BY <3>2, <3>3, <3>4, <3>5
  <2>4. task.intent \in {0} \cup DOMAIN intents
    BY DEF IInv, TaskInv
  <2>5. pc = "execute" => task.amount > 0
    BY DEF IInv, TaskInv, TaskFits
  <2> QED BY <2>1, <2>2, <2>3, <2>4, <2>5 DEF TypeOK
<1> QED BY <1>1, Invariance, PTL

\* Whatever fails and in whichever order the syncs are answered, no action is
\* awaited for an intent that has ended (completeRebalanceAction and
\* syncRebalanceIntents end an intent only with its actions).
THEOREM NothingAwaited == Spec => []ActionsOfOpenIntents
<1>1. IInv => ActionsOfOpenIntents
  BY DEF IInv, StoreInv, Fits, ActionsOfOpenIntents
<1> QED BY <1>1, Invariance, PTL

\* Unless an explorer query fails, the send and the explorer between them
\* record a message once (recoverAction).
THEOREM RecordedOnce == Spec => []OneActionPerMessage
<1>1. IInv => OneActionPerMessage
  BY DEF IInv, OnceInv, OneActionPerMessage
<1> QED BY <1>1, Invariance, PTL

\* When the strategies are asked, they are told of a rebalance in flight once,
\* exactly while the balances they are given lack it (syncRebalanceActions
\* completes at the blocks of the polling event).
THEOREM RebalancesCounted == Spec => []CountedOnce
<1>1. IInv => CountedOnce
  <2> SUFFICES ASSUME IInv, pc = "plan", ~Fault("explorer"), ~Fault("check"),
                      NEW a \in DOMAIN actions, actions[a].type = "rebalance_message",
                      actions[a].status # "failed"
               PROVE  /\ actions[a].msg \in event.delivered <=> actions[a].status = "complete"
                      /\ Cardinality({i \in DOMAIN intents :
                           /\ intents[i].status = "in_progress"
                           /\ \E b \in DOMAIN actions : /\ actions[b].intent = i
                                                        /\ actions[b].msg = actions[a].msg})
                           = (IF actions[a].msg \in event.delivered THEN 0 ELSE 1)
    BY DEF CountedOnce
  <2>1. actions[a] \in ActionSet
    BY ElementOf DEF IInv, StoreInv, Typed
  <2>2. actions[a].status \in {"in_progress", "complete"}
    BY <2>1 DEF ActionSet
  <2>3. actions[a].msg \in event.delivered <=> actions[a].status = "complete"
    BY <2>2 DEF IInv, SyncInv
  <2>4. PICK S : S = {i \in DOMAIN intents :
                        /\ intents[i].status = "in_progress"
                        /\ \E b \in DOMAIN actions : /\ actions[b].intent = i
                                                     /\ actions[b].msg = actions[a].msg}
    OBVIOUS
  <2>5. Fits(intents, actions, a) /\ actions[a].intent \in DOMAIN intents
    BY DEF IInv, StoreInv, Typed
  <2>6. \A b \in DOMAIN actions : actions[b].msg = actions[a].msg => b = a
    BY <2>5 DEF IInv, OnceInv, OneActionPerMessage, Fits, MessageFits
  <2>7. CASE actions[a].status = "complete"
    <3>1. intents[actions[a].intent].status = "complete"
      BY <2>5, <2>7 DEF Fits, MessageFits
    <3>2. S = {}
      BY <2>4, <2>6, <3>1
    <3>3. Cardinality(S) = 0
      BY <3>2, FS_EmptySet
    <3> QED BY <2>3, <2>4, <2>7, <3>3
  <2>8. CASE actions[a].status = "in_progress"
    <3>1. intents[actions[a].intent].status = "in_progress"
      BY <2>5, <2>8 DEF Fits
    <3>2. S = {actions[a].intent}
      BY <2>4, <2>5, <2>6, <3>1
    <3>3. Cardinality(S) = 1
      BY <3>2, FS_Singleton
    <3> QED BY <2>3, <2>4, <2>8, <3>3
  <2> QED BY <2>2, <2>7, <2>8
<1> QED BY <1>1, Invariance, PTL

\* Over however many cycles an intent is fulfilled, with whatever inventory,
\* movements and failures between them, the deposits sent for it never exceed
\* it (getPartiallyFulfilledInventoryIntents, executeRoute), short of a deposit
\* that is mined although its send failed.
THEOREM DepositsBounded == Spec => []NeverOverdeposits
<1>1. IInv => NeverOverdeposits
  <2> SUFFICES ASSUME IInv, ~Fault("lost"), NEW i \in DOMAIN intents
               PROVE  AmountOf(msgs, {m \in Kind("deposit") : msgs[m].intent = i})
                        <= intents[i].amount
    BY DEF NeverOverdeposits
  <2>1. {m \in Kind("deposit") : msgs[m].intent = i} = MessagesOf(msgs, i)
    BY DEF Kind, MessagesOf
  <2>2. AmountOf(msgs, MessagesOf(msgs, i)) = Deposited(actions, i)
    BY DEF IInv, DepositInv, Sent
  <2>3. Deposited(actions, i) <= intents[i].amount
    BY DEF IInv, StoreInv
  <2> QED BY <2>1, <2>2, <2>3
<1> QED BY <1>1, Invariance, PTL
=============================================================================
