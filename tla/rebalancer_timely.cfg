SPECIFICATION FairSpec
CONSTANTS
  Chains <- MCChains
  InitialCollateral <- MCCollateral
  TransferAmount = 2
  Settings <- MCTimely
INVARIANT ActionsOfOpenIntents
PROPERTIES Fulfilled IntentsEnd
