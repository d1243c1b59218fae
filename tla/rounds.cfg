SPECIFICATION Spec
CONSTANTS
  Chains <- MCChains
  Configs <- MCConfigs
  InitialCollateral <- MCCollateral
  TransferAmounts <- MCAmounts
  MaxTransfers = 2
  MaxInFlight = 2
PROPERTIES StaysInBand ProposesOnce ReservationHonoured Converges
