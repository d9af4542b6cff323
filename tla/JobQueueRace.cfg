SPECIFICATION Spec
CONSTANTS
  Jobs = {1, 2}
  Workers <- TwoWorkers
  jobClass <- JobClasses
  workerClass <- SameClass
  StaleAfter = 1
  Nobody = Nobody
  Sweepers = {api}
  MaxSilence = 1
  MaxFaults = 1
  NoJob = NoJob
CHECK_DEADLOCK FALSE
INVARIANTS RunExclusive
