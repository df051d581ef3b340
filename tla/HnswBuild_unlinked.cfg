SPECIFICATION Spec
CONSTANTS
  Participant = {L, p}
  L = L
  Leader = L
  p = p
  NTuples = 3
  Value <- ValueOf
  Levels = {0}
  NoTuple = 0
  M = 2
  HeapTids = 2
  MaxCost = 1
  MemoryMargin = 1
  MemoryTotal = 1
INVARIANT OneUnlinkedOnDisk
