SPECIFICATION Spec
CONSTANTS
  m = m
  n = n
  NoMap = NoMap
  TC1 <- MCTC1
  TC2 <- PairTC2
  CS = {}
  Origin <- PairOrigin
  Exec <- PairExec
  PM <- PairPM
  Image <- MCImage
INVARIANT KeepsPM
CHECK_DEADLOCK FALSE
