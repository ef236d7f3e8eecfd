SPECIFICATION Spec
CONSTANTS
  Half = 8  ElemCnt = 4  Gap = 1
  Cap = 2  RegBits = 2
  Rand = {8}
  MaxAccess = 3
  BitXor <- CXor
  Env <- Settings
  AllLimit = 3  AllStep = 2
  MaxDumpId = 2
  MaxFailures = 3
  EntrySize = 2
  MaxPoints = 4
INVARIANTS TypeOK HalvesSeparate OneHot Covered ListComplete ReplayedByPosition
PROPERTY AbsSpec
CHECK_DEADLOCK FALSE
