SPECIFICATION Spec
CONSTANTS
  Inserters = {i1}
  Scanners = {}
  Vac = v
  MaxSlots = 4
  NTids = 4
  NBuilt = 3
  BuiltNeighbors <- LineGraph
  MaxLevel = 0
  M = 1
  HNSW_HEAPTIDS = 1
  MaxVersion = 15
  MaxVacuums = 1
INVARIANTS LinksNotDeleted RepairComplete
PROPERTY MarkUnseen
CHECK_DEADLOCK FALSE
