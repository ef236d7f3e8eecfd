SPECIFICATION Spec
CONSTANTS
  t1 = t1  t2 = t2  t3 = t3  c1 = c1  c2 = c2
  NoJob = NoJob
  Selected <- AllJobs
  FInj = TRUE
  MaxBoots = 0
  TC <- TwoTC
  CS <- OneCS
  Cores = 2
INVARIANT TerminateEndsAll
