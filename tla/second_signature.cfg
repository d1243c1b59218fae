SPECIFICATION Spec
CONSTANTS
  a = a
  b = b
  c = c
  x = x
  Leaf = {a, b, c, x}
  NoLeaf = NoLeaf
  Endpoint = {e1}
  Consensus = "Majority"
  Worker = {"live", "history"}
  MaxIndex = 1
  MaxSignConcurrency = 1
  Histories <- ShortFork
  Lightweight = FALSE
  RequestsOutliveCrash = FALSE
  MaxCrashes = 1
INVARIANT NeverSignSecondValue
CHECK_DEADLOCK FALSE
