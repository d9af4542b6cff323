SPECIFICATION FairSpec

CONSTANTS
  Jobs = {1, 2}
  Workers <- TwoWorkers
  jobClass <- JobClasses
  workerClass <- WorkerClasses
  StaleAfter = 2
  Nobody = Nobody
  Sweepers = {api, loop}
  MaxSilence = 2
  MaxFaults = 2
  NoJob = NoJob

CHECK_DEADLOCK FALSE
INVARIANTS
  RunKeepsClaim
PROPERTIES
  OrphanReaped
  OfferedServed
