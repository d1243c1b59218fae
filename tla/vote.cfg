SPECIFICATION Spec
CONSTANTS
  a = a
  b = b
  c = c
  x = x
  Leaf = {a, b, c, x}
  NoLeaf = NoLeaf
  Endpoint = {e1, e2, e3}
  Consensus = "Majority"
  Worker = {"live", "history"}
  MaxIndex = 1
  MaxSignConcurrency = 1
  Histories <- ShortFork
  Lightweight = FALSE
  RequestsOutliveCrash = FALSE
  MaxCrashes = 0
SYMMETRY EndpointSymmetry
PROPERTIES CommitNeedsThreshold
CHECK_DEADLOCK FALSE
