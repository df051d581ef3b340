SPECIFICATION Spec
CONSTANTS
  Block <- Pages
  NoBlock = 0
  Capacity = 3
  MaxLoads = 6
INVARIANT DistinctExact
INVARIANT Consistent
CHECK_DEADLOCK FALSE
