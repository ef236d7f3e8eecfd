SPECIFICATION FairSpec
CONSTANTS
  m = m
  n = n
  NoMap = NoMap
  TC1 <- MCTC1
  TC2 <- MCTC2
  CS <- MCCS
  Origin <- MCOrigin
  Exec <- MCExec
  PM <- MCPM
  Image <- MCImage
INVARIANTS TypeOK JobImages EndsKnown GlobalKeepsPM ParentImages FoundKept
PROPERTIES AbsSpec ScheduleSpec AllCollected
CHECK_DEADLOCK FALSE
