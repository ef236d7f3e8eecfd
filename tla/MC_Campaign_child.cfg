SPECIFICATION FairChildren
CONSTANTS
  MaxBoots = 1
  MaxClock = 5
  Interval = 1
PROPERTY AbortEndsChild
CHECK_DEADLOCK FALSE
