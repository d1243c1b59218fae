---------------------------- MODULE ActionTracker ----------------------------
(***************************************************************************)
(* The rebalancer's ActionTracker: what it knows of the user transfers,    *)
(* of the rebalances it intends and of the actions it took for them.  The  *)
(* three stores are maps in memory, lost at a restart.                     *)
(*                                                                         *)
(*   transfers  message -> "in_progress" or "complete"                     *)
(*   intents    sequence of [status, origin, destination, amount, method,  *)
(*              bridge, old]; `old' once its age exceeds the TTL           *)
(*   actions    sequence of [type, status, intent, msg, move, amount,      *)
(*              bridgeStatus, stale]; `stale' once a movement has been     *)
(*              known as not pending for the staleness window              *)
(*                                                                         *)
(* The operators give the stores after a call.  Ids are positions in the   *)
(* sequences; msg and move are 0 where the action has none.  A message is  *)
(* a record with its origin, destination and amount, of the sequence msgs. *)
(***************************************************************************)
EXTENDS Integers, Sequences, FiniteSets, FiniteSetsExt, SequencesExt

Intent(origin, destination, amount, method, bridge, status) ==
  [origin |-> origin, destination |-> destination, amount |-> amount,
   method |-> method, bridge |-> bridge, status |-> status, old |-> FALSE]

Action(type, intent, msg, move, amount) ==
  [type |-> type, status |-> "in_progress", intent |-> intent, msg |-> msg, move |-> move,
   amount |-> amount, bridgeStatus |-> "unknown", stale |-> FALSE]

-----------------------------------------------------------------------------
(* Queries *)

ActionsWith(actions, intent, types, status) ==
  {a \in DOMAIN actions : /\ actions[a].intent = intent
                          /\ actions[a].type \in types
                          /\ actions[a].status = status}

AmountOf(actions, S) == SumFunctionOnSet([a \in S |-> actions[a].amount], S)

getCompletedAmountForIntent(actions, intent) ==
  AmountOf(actions, ActionsWith(actions, intent,
                                {"inventory_deposit", "rebalance_message"}, "complete"))

Deposits(actions, intent, status) ==
  AmountOf(actions, ActionsWith(actions, intent, {"inventory_deposit"}, status))

\* Mutation: movements that have ended count as well.
AnyMovements(actions, intent) ==
  UNION {ActionsWith(actions, intent, {"inventory_movement"}, st) :
           st \in {"in_progress", "complete", "failed"}}

InflightMovements(actions, intent) ==
  ActionsWith(actions, intent, {"inventory_movement"}, "in_progress")

\* A stale movement is failed here, so that the intent can go on.
StaleMovement(action) == action.stale /\ action.bridgeStatus # "pending"

HasBlockingMovement(actions, intent) ==
  \E a \in InflightMovements(actions, intent) : ~StaleMovement(actions[a])

ActiveInventoryIntents(intents, status) ==
  {i \in DOMAIN intents : intents[i].status = status /\ intents[i].method = "inventory"}

\* The intents whose stale movements are failed, and of which some are
\* returned: those without a movement that is still on its way.
Unblocked(intents, actions) ==
  {i \in ActiveInventoryIntents(intents, "in_progress")
         \cup ActiveInventoryIntents(intents, "not_started") :
     ~HasBlockingMovement(actions, i)}

failStaleMovements(intents, actions) ==
  [a \in DOMAIN actions |->
     IF \E i \in Unblocked(intents, actions) : a \in InflightMovements(actions, i)
     THEN [actions[a] EXCEPT !.status = "failed"]
     ELSE actions[a]]

\* Mutation: a deposit counts while its message is on its way.
RemainingInflight(intents, actions, i) == intents[i].amount - Deposits(actions, i, "in_progress")

Remaining(intents, actions, i) ==
  intents[i].amount - Deposits(actions, i, "complete") - Deposits(actions, i, "in_progress")

getPartiallyFulfilledInventoryIntents(intents, actions) ==
  {i \in Unblocked(intents, actions) :
     Remaining(intents, actions, i) > 0 \/ Deposits(actions, i, "in_progress") > 0}

\* In progress before not started, each in order of creation.
First(intents, partial) ==
  LET started == partial \cap ActiveInventoryIntents(intents, "in_progress")
  IN  Min(IF started # {} THEN started ELSE partial)

\* InflightContextAdapter: the intents whose origin transaction is confirmed.
\* The strategies add up what they are given, so that its order is no matter.
getInflightContext(msgs, transfers, intents, actions) ==
  [rebalances |->
     LET active == SetToSeq({i \in DOMAIN intents : intents[i].status = "in_progress"})
     IN  [k \in DOMAIN active |->
            LET i == active[k]
                deposits(status) == IF intents[i].method = "inventory"
                                    THEN Deposits(actions, i, status) ELSE 0
            IN  [origin |-> intents[i].origin, destination |-> intents[i].destination,
                 amount |-> intents[i].amount, method |-> intents[i].method,
                 bridge |-> intents[i].bridge,
                 delivered |-> deposits("complete"), awaiting |-> deposits("in_progress")]],
   transfers |->
     LET open == SetToSeq({m \in DOMAIN transfers : transfers[m] = "in_progress"})
     IN  [k \in DOMAIN open |-> [origin |-> msgs[open[k]].origin,
                                 destination |-> msgs[open[k]].destination,
                                 amount |-> msgs[open[k]].amount]]]

-----------------------------------------------------------------------------
(* Changes.  A store pair is [intents, actions]. *)

createRebalanceAction(s, action) ==
  [actions |-> Append(s.actions, action),
   intents |-> IF s.intents[action.intent].status = "not_started"
               THEN [s.intents EXCEPT ![action.intent].status = "in_progress"]
               ELSE s.intents]

\* completeRebalanceAction for the actions of S: the intents they fulfil are
\* complete, whatever their status was.
completeRebalanceActions(s, S) ==
  LET actions == [a \in DOMAIN s.actions |->
                    IF a \in S THEN [s.actions[a] EXCEPT !.status = "complete"] ELSE s.actions[a]]
  IN  [actions |-> actions,
       intents |-> [i \in DOMAIN s.intents |->
                      IF /\ \E a \in S : actions[a].intent = i
                         /\ getCompletedAmountForIntent(actions, i) >= s.intents[i].amount
                      THEN [s.intents[i] EXCEPT !.status = "complete"]
                      ELSE s.intents[i]]]

\* Mutation: the actions of an expired intent are left as they are.
syncIntentsOnly(s) ==
  [s EXCEPT !.intents =
     [i \in DOMAIN s.intents |->
        IF s.intents[i].status # "in_progress" THEN s.intents[i]
        ELSE IF getCompletedAmountForIntent(s.actions, i) >= s.intents[i].amount
             THEN [s.intents[i] EXCEPT !.status = "complete"]
             ELSE IF s.intents[i].old THEN [s.intents[i] EXCEPT !.status = "failed"]
                  ELSE s.intents[i]]]

\* Mutation: intents have no TTL.
syncWithoutTTL(s) == s

\* Intents in progress end: fulfilled, or older than the TTL together with
\* their actions.
syncRebalanceIntents(s) ==
  LET fulfilled(i) == getCompletedAmountForIntent(s.actions, i) >= s.intents[i].amount
      expired(i) == s.intents[i].status = "in_progress" /\ ~fulfilled(i) /\ s.intents[i].old
  IN  [intents |-> [i \in DOMAIN s.intents |->
                      CASE expired(i) -> [s.intents[i] EXCEPT !.status = "failed"]
                        [] s.intents[i].status = "in_progress" /\ fulfilled(i) ->
                             [s.intents[i] EXCEPT !.status = "complete"]
                        [] OTHER -> s.intents[i]],
       actions |-> [a \in DOMAIN s.actions |->
                      IF s.actions[a].status = "in_progress" /\ expired(s.actions[a].intent)
                      THEN [s.actions[a] EXCEPT !.status = "failed"]
                      ELSE s.actions[a]]]

\* Mutation: the intent is not saved.
recoverActionOnly(s, msgs, m) ==
  [s EXCEPT !.actions = Append(@, Action("rebalance_message", Len(s.intents) + 1, m, 0,
                                         msgs[m].amount))]

\* A message the stores do not know becomes an intent in progress, without
\* bridge and execution method, and its action.
recoverAction(s, msgs, m) ==
  [intents |-> Append(s.intents, Intent(msgs[m].origin, msgs[m].destination, msgs[m].amount,
                                        "movable", "none", "in_progress")),
   actions |-> Append(s.actions, Action("rebalance_message", Len(s.intents) + 1, m, 0,
                                        msgs[m].amount))]

\* Mutation: the messages of open actions only are known.
UnknownToOpenActions(s, inflight) ==
  {m \in inflight : \A a \in DOMAIN s.actions :
                      s.actions[a].status = "in_progress" => s.actions[a].msg # m}

\* `inflight': the rebalances the explorer reports; `delivered': the messages
\* that isDelivered answers for at the confirmed block.
Unknown(s, inflight) == {m \in inflight : \A a \in DOMAIN s.actions : s.actions[a].msg # m}

syncRebalanceActions(s, msgs, inflight, delivered) ==
  LET known == FoldLeft(LAMBDA t, m : recoverAction(t, msgs, m), s,
                        SetToSeq(Unknown(s, inflight)))
  IN  completeRebalanceActions(known,
        {a \in DOMAIN known.actions : /\ known.actions[a].status = "in_progress"
                                      /\ known.actions[a].msg \in delivered})

syncTransfers(transfers, inflight, delivered) ==
  [m \in DOMAIN transfers \cup inflight |->
     IF m \in delivered THEN "complete"
     ELSE IF m \in DOMAIN transfers THEN transfers[m] ELSE "in_progress"]

\* `answer': what the external bridge says of a movement; "error" changes
\* nothing.
syncInventoryMovementActions(s, answer) ==
  LET moving == {a \in DOMAIN s.actions : /\ s.actions[a].type = "inventory_movement"
                                          /\ s.actions[a].status = "in_progress"}
      says(a) == IF a \in moving THEN answer[s.actions[a].move] ELSE "error"
      done == completeRebalanceActions(s, {a \in moving : says(a) = "complete"})
  IN  [intents |-> done.intents,
       actions |-> [a \in DOMAIN s.actions |->
         CASE says(a) = "failed" -> [s.actions[a] EXCEPT !.status = "failed"]
           [] says(a) = "pending" ->
                [s.actions[a] EXCEPT !.bridgeStatus = "pending", !.stale = FALSE]
           [] says(a) = "not_found" ->
                [s.actions[a] EXCEPT !.bridgeStatus = "not_found",
                                     !.stale = /\ s.actions[a].stale
                                               /\ s.actions[a].bridgeStatus = "not_found"]
           [] OTHER -> done.actions[a]]]
=============================================================================
