SPECIFICATION FairSpec
CONSTANTS
  a = a
  b = b
  c = c
  x = x
  Leaf = {a, b, c, x}
  NoLeaf = NoLeaf
  Endpoint = {e1}
  Consensus = "Majority"
  Worker = {"live", "history"}
  MaxIndex = 2
  MaxSignConcurrency = 1
  Histories <- Straight
  Lightweight = TRUE
  RequestsOutliveCrash = FALSE
  MaxCrashes = 0
PROPERTIES CommittedEventuallyPublished
CHECK_DEADLOCK FALSE
