CONSTANTS
  States = {s1, s2}
  InitState = s1
  None = None
  b1 = b1
  b2 = b2
  Blocks = {b1, b2}
  Caches <- MCCaches
  CacheOrder <- MCCacheOrder
  Size <- MCSize
  Assoc <- MCAssoc
  LineSize <- MCLineSize
  UpperCfg <- MCUpper
  I1 = "i1"
  D1 = "d1"
  ReportWholeSystem = FALSE
  ReportZeroMisses = TRUE
  ProfileModulesOnly = TRUE
  StartOnModuleLoad = TRUE
  HasDetector = TRUE
  BlockPc <- MCBlockPc
  BlockSize <- MCBlockSize
  ModuleBlocks = {b2}
  Addrs = {1, 9}
  Sizes = {2}
  IdVals <- MCIdVals
  TagVals = {0, 1, 2, 3}
  MaxConn = 1
INIT Init
NEXT Next
INVARIANTS TypeOK
PROPERTIES LruRefinement
