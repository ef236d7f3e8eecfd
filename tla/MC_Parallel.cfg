SPECIFICATION FairCollection
CONSTANTS
  j1 = j1  j2 = j2  j3 = j3  j4 = j4
  Job <- FourJobs
  Crashed <- ThreeJobs
  TotalCores = 4
  Cores = 2
  FailureExit = TRUE
INVARIANTS TypeOK ScanCounts FailuresHidden PoolsTogether
PROPERTIES BatchEnds AbsSpec
