-------------------------- MODULE MCRebalanceRounds --------------------------
(***************************************************************************)
(* Instances of RebalanceRounds for TLC: a strategy on its own, and two.   *)
(***************************************************************************)
EXTENDS RebalanceRounds

MCChains == 1..3
MCOneBridge == [p \in MCChains \X MCChains |-> "slow"]
MCFastBridge == [p \in MCChains \X MCChains |-> "fast"]

MCWeighted == <<[kind |-> "weighted", weight |-> <<2, 1, 1>>, tolerance |-> <<20, 20, 20>>,
                 bridge |-> MCOneBridge, accepted |-> 0]>>
MCMinAmount == <<[kind |-> "minAmount", relative |-> FALSE, min |-> <<1, 2, 1>>,
                  target |-> <<2, 5, 2>>, bridge |-> MCOneBridge, accepted |-> 0]>>
MCDeficit == [kind |-> "collateralDeficit", buffer |-> <<1, 1, 1>>,
              bridge |-> MCFastBridge, accepted |-> 0]
MCComposite == <<MCDeficit>> \o MCMinAmount
MCConfigs == {MCWeighted, MCComposite}
MCCollateral == <<4, 3, 1>>
MCAmounts == {1, 5}
=============================================================================
