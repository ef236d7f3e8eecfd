SPECIFICATION FairSpec
CONSTANTS
  t1 = t1  t2 = t2  t3 = t3  c1 = c1  c2 = c2
  NoJob = NoJob
  Selected <- SomeJobs
  FInj = TRUE
  MaxBoots = 0
  TC <- ThreeTC
  CS <- OneCS
  Cores = 2
PROPERTIES EventuallyCollected NoStarvation Completes
