SPECIFICATION Spec
CONSTANTS
  Element <- Four
  NoElement = 0
  TidsOf <- Tids
  MaxTids = 2
  MaxLevel = 0
  Graphs <- FlatGraphs
  EfSearch = 2
  MaxScanTuples = 4
  Modes = {"off", "relaxed", "strict"}
  TraceModes = {FALSE}
  Memory = {FALSE}
  MaxScans = 1
  MaxSets = 0
INVARIANT NothingLost
 
INVARIANT Complete
CHECK_DEADLOCK FALSE
