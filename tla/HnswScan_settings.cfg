SPECIFICATION FairSpec
CONSTANTS
  Element <- Four
  NoElement = 0
  TidsOf <- Tids
  MaxTids = 2
  MaxLevel = 1
  Graphs <- TallGraphs
  EfSearch = 2
  MaxScanTuples = 4
  Modes = {"off", "relaxed", "strict"}
  TraceModes = {FALSE, TRUE}
  Memory = {FALSE, TRUE}
  MaxScans = 2
  MaxSets = 1
INVARIANT Ordered
INVARIANT NoTidTwice
INVARIANT TraceExact
CHECK_DEADLOCK FALSE
PROPERTY CallsReturn
