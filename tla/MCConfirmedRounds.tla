------------------------- MODULE MCConfirmedRounds -------------------------
(***************************************************************************)
(* An instance of ConfirmedRounds for TLC: two chains fill a third.        *)
(***************************************************************************)
EXTENDS ConfirmedRounds

MCChains == 1..3
MCStrategies == <<[kind |-> "minAmount", relative |-> FALSE, min |-> <<1, 1, 1>>,
                   target |-> <<1, 1, 4>>, bridge |-> [p \in MCChains \X MCChains |-> "slow"],
                   accepted |-> 0]>>
MCCollateral == <<3, 3, 0>>
MCNamed == [named |-> TRUE, depth |-> 0]
MCDepth(n) == [named |-> FALSE, depth |-> n]
MCAgreeing == <<MCNamed, MCDepth(0), MCNamed>>
=============================================================================
