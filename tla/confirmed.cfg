SPECIFICATION Spec
CONSTANTS
  Chains <- MCChains
  Strategies <- MCStrategies
  InitialCollateral <- MCCollateral
  ReorgPeriod <- MCAgreeing
  MaxHeight = 4
  MaxRebalances = 3
CHECK_DEADLOCK FALSE
INVARIANTS TypeOK OriginDeducted 
