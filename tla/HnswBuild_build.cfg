SPECIFICATION FairSpec
CONSTANTS
  Participant = {L, p}
  L = L
  Leader = L
  p = p
  NTuples = 4
  Value <- ValueOf
  Levels = {0, 1}
  NoTuple = 0
  M = 2
  HeapTids = 2
  MaxCost = 2
  MemoryMargin = 2
  MemoryTotal = 5
INVARIANT TypeOK
INVARIANT TuplesIndexed
INVARIANT LinksWritten
PROPERTY MemoryFrozen
PROPERTY BuildCompletes
INVARIANT OneGraphInMemory
