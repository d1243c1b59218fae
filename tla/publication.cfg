SPECIFICATION Spec
CONSTANTS
  a = a
  b = b
  c = c
  x = x
  Leaf = {a, b, c, x}
  NoLeaf = NoLeaf
  Endpoint = {e1}
  Consensus = "Majority"
  Worker = {"live", "history"}
  MaxIndex = 2
  MaxSignConcurrency = 2
  Histories <- LongFork
  Lightweight = FALSE
  RequestsOutliveCrash = FALSE
  MaxCrashes = 0
INVARIANTS TypeOK SignedInHistory TargetAhead
PROPERTIES  HaltStopsPublication
CHECK_DEADLOCK FALSE
