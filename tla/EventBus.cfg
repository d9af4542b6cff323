SPECIFICATION FairSpec

CONSTANTS
  MaxLines = 4
  MaxDrops = 1
  MaxRestarts = 1

CHECK_DEADLOCK FALSE
INVARIANTS
  LogInOrder
  IdsRiseInRun
  StoppedSawAll
PROPERTIES
  EventShown
  DoneStops
