SPECIFICATION Spec
CONSTANTS
  Inserters = {i1}
  Scanners = {s1}
  Vac = v
  MaxSlots = 2
  NTids = 3
  NBuilt = 2
  BuiltNeighbors <- LineGraph
  MaxLevel = 0
  M = 1
  HNSW_HEAPTIDS = 2
  MaxVersion = 15
  MaxVacuums = 2
INVARIANTS NoDeletedLoad VersionCheckSound
CHECK_DEADLOCK FALSE
