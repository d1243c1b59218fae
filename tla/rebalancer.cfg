SPECIFICATION Spec
CONSTANTS
  Chains <- MCChains
  InitialCollateral <- MCCollateral
  TransferAmount = 2
  Settings <- MCUnreliable
INVARIANTS TypeOK  OneActionPerMessage ActionsOfOpenIntents NeverOverdeposits
