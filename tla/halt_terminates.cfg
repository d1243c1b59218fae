SPECIFICATION LoopFairSpec
CONSTANTS
  a = a
  b = b
  c = c
  x = x
  Leaf = {a, b, c, x}
  NoLeaf = NoLeaf
  Endpoint = {e1}
  Consensus = "Majority"
  Worker = {"live", "history"}
  MaxIndex = 1
  MaxSignConcurrency = 1
  Histories <- EarlyFork
  Lightweight = FALSE
  RequestsOutliveCrash = FALSE
  MaxCrashes = 0
PROPERTIES HaltTerminates
CHECK_DEADLOCK FALSE
