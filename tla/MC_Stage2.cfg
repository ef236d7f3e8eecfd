SPECIFICATION Spec
CONSTANTS
  t1 = t1  t2 = t2  t3 = t3  c1 = c1  c2 = c2
  TC <- ThreeTC
  CS <- TwoCS
  Selected <- AllJobs
  Cores = 2
  FInj = TRUE
  NoJob = NoJob
  MaxBoots = 1
SYMMETRY Symmetry
INVARIANTS TypeOK FilesAgree SlotAccounting TransientBound CoresRespected RunImagesCleaned Reachable
PROPERTIES AbsSpec ScheduleSpec
