SPECIFICATION FairSpec
CONSTANTS
  MaxBoots = 2
  MaxClock = 5
  Interval = 1
INVARIANTS TypeOK SamplesSpaced EventsOnce NeverCorrupt
PROPERTIES StagesInOrder StageTwoReached
CHECK_DEADLOCK FALSE
