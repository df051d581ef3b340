SPECIFICATION IndexSpec
CONSTANTS
  Centers <- TwoCenters
  Vec = {2, 3, 4}
  ZeroNorm = {4}
  Tid = {1, 2, 3}
  NoTid = 0
  p = p
  q = q
  Inserters = {p, q}
  PageSize = 1
  MaxPages = 4
  MaxVacuums = 1
  MaxCrashes = 1
INVARIANT ListsDisjoint
INVARIANT OneEntry
INVARIANT NothingLost
INVARIANT VacuumComplete
PROPERTY IvfflatKeepsTids
CHECK_DEADLOCK FALSE
SYMMETRY Symmetry
