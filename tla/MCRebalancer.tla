----------------------------- MODULE MCRebalancer -----------------------------
(***************************************************************************)
(* Instances of Rebalancer for TLC: two chains, one with surplus and one   *)
(* in deficit.                                                             *)
(***************************************************************************)
EXTENDS Rebalancer

MCChains == 1..2
MCCollateral == <<4, 0>>
MCStrategy(b) == <<[kind |-> "minAmount", relative |-> FALSE, min |-> <<1, 1>>,
                    target |-> <<2, 2>>, bridge |-> [p \in MCChains \X MCChains |-> b],
                    accepted |-> 0]>>

\* Movable collateral, two intents.
MCMovable(faults, users, failures) ==
  [strategies |-> MCStrategy("slow"), inventory |-> <<0, 0>>, cost |-> 0, faults |-> faults,
   transfers |-> users, intents |-> 2, messages |-> 4, moves |-> 0, crashes |-> failures]

\* Inventory, of which the chain in deficit has less than it needs.
MCInventory(faults, cost, users, targets, sends, moved) ==
  [strategies |-> MCStrategy("none"), inventory |-> <<2, 1>>, cost |-> cost, faults |-> faults,
   transfers |-> users, intents |-> targets, messages |-> sends, moves |-> moved,
   crashes |-> 0]

\* Lost and failed sends beside a user; crashes, time and failing checks;
\* and inventory whose every transaction and bridge may fail.
MCUnreliable ==
  {MCMovable({"lost", "send"}, 1, 0),
   MCMovable({"lost", "send", "crash", "expiry", "check"}, 0, 1),
   MCInventory({"send", "noId", "bridge"}, 0, 1, 2, 3, 2)}

\* Nothing fails; and what fails is made up for by time.
MCTimely ==
  {MCInventory({}, 0, 1, 1, 5, 3),
   MCInventory({"lost", "noId", "expiry", "stale", "explorer"}, 1, 0, 2, 4, 2)}
=============================================================================
