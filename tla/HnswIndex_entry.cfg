SPECIFICATION Spec
CONSTANTS
  Inserters = {i1}
  Scanners = {}
  Vac = v
  MaxSlots = 3
  NTids = 3
  NBuilt = 1
  BuiltNeighbors <- LineGraph
  MaxLevel = 0
  M = 1
  HNSW_HEAPTIDS = 2
  MaxVersion = 15
  MaxVacuums = 1
INVARIANT EntryRestored
CHECK_DEADLOCK FALSE
