SPECIFICATION FairSpec
CONSTANTS
  a = a
  b = b
  x = x
  Leaf = {a, b, x}
  NoLeaf = NoLeaf
  Endpoint = {e1}
  Consensus = "Majority"
  Worker = {"tip", "backfill"}
  MaxIndex = 1
  MaxSignConcurrency = 2
  Histories <- EarlyFork
  RpcRecovery = TRUE
  MaxCrashes = 1
INVARIANTS TypeOK OneHistory SnapshotCovered LatestIndexStored
PROPERTIES PublishedImmutable HaltTerminates
CHECK_DEADLOCK FALSE
