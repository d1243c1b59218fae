SPECIFICATION Spec
CONSTANTS
  Tx = {t1, t2}
  NoTx = NoTx
  MaxNonce = 1
  MaxFaults = 2
SYMMETRY TxSymmetry
INVARIANTS TypeOK RegressionCovered HeldBelowUpper NoSharedNonce HeldIsSent
