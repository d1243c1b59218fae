SPECIFICATION Spec
CONSTANTS
  a = a
  b = b
  c = c
  x = x
  Leaf = {a, b, c, x}
  NoLeaf = NoLeaf
  Endpoint = {e1, e2}
  Consensus = "Quorum"
  Worker = {"live", "history"}
  MaxIndex = 1
  MaxSignConcurrency = 1
  Histories <- ShortFork
  Lightweight = FALSE
  RequestsOutliveCrash = FALSE
  MaxCrashes = 1
SYMMETRY EndpointSymmetry
INVARIANTS EarlyStopSound SnapshotCovered ExitGuarded
 
CHECK_DEADLOCK FALSE
