SPECIFICATION Spec
CONSTANTS
  Half = 8  ElemCnt = 4  Gap = 1
  Cap = 2  RegBits = 2
  Rand = {8}
  MaxAccess = 3
  BitXor <- CXor
  Env <- Settings
  AllLimit = 3  AllStep = 2
  MaxDumpId = 2
  MaxFailures = 4
  EntrySize = 256
  MaxPoints = 4
INVARIANT OnlyListed
CHECK_DEADLOCK FALSE
