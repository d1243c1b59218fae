--------------------------- MODULE CheckpointBoard ---------------------------
(***************************************************************************)
(* What a validator promises to whoever reads its checkpoint storage, the  *)
(* relayers' multisig metadata builder above all: every slot is written    *)
(* once, with a value that belongs there; the latest index names a written *)
(* slot and only grows; and from the moment the reorg flag is up it does   *)
(* not move.  Writes that were under way may still land behind the flag.   *)
(***************************************************************************)
EXTENDS Integers

CONSTANTS
    Value,    \* the values that belong in each slot
    Blank     \* an unwritten slot

VARIABLES
    board,    \* the published value of each slot
    latest,   \* the published latest index, -1 when absent
    flag      \* the reorg flag

Slot == DOMAIN Value

Init ==
    /\ board = [s \in Slot |-> Blank]
    /\ latest = -1
    /\ flag = FALSE

Post(s, v) ==
    /\ board[s] = Blank
    /\ board' = [board EXCEPT ![s] = v]
    /\ UNCHANGED <<latest, flag>>

Announce(s) ==
    /\ ~flag
    /\ board[s] # Blank
    /\ s > latest
    /\ latest' = s
    /\ UNCHANGED <<board, flag>>

RaiseFlag ==
    /\ flag' = TRUE
    /\ UNCHANGED <<board, latest>>

Next ==
    \/ \E s \in Slot : Announce(s) \/ \E v \in Value[s] : Post(s, v)
    \/ RaiseFlag

Spec == Init /\ [][Next]_<<board, latest, flag>>
=============================================================================
