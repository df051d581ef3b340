SPECIFICATION FairSpec
CONSTANTS
  Inserters = {i1, i2}
  Scanners = {}
  Vac = v
  MaxSlots = 2
  NTids = 2
  NBuilt = 0
  BuiltNeighbors <- LineGraph
  MaxLevel = 1
  M = 1
  HNSW_HEAPTIDS = 2
  MaxVersion = 2
  MaxVacuums = 2
INVARIANTS TypeOK HeapTidsIndexed OneGraph
PROPERTIES NoRevival HnswKeepsTids VacuumCompletes InsertCompletes
CHECK_DEADLOCK FALSE
