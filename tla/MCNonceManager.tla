--------------------------- MODULE MCNonceManager ---------------------------
(***************************************************************************)
(* Instances of NonceManager for TLC.                                      *)
(***************************************************************************)
EXTENDS NonceManager, TLC

TxSymmetry == Permutations(Tx)
=============================================================================
