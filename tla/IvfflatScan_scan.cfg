SPECIFICATION FairScanSpec
CONSTANTS
  Centers <- TwoCenters
  Vec = {2, 3}
  ZeroNorm = {}
  Tid = {1, 2}
  NoTid = 0
  p = p
  Inserters = {p}
  PageSize = 1
  MaxPages = 3
  MaxVacuums = 1
  MaxCrashes = 0
  s = s
  Scanners = {s}
  Queries = {3}
  NullQuery = 9
  Settings <- MixedSettings
  MaxScans = 2
INVARIANT ScanExact
 
 
PROPERTY CallsReturn
CHECK_DEADLOCK FALSE
