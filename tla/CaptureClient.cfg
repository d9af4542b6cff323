SPECIFICATION FairSpec
CONSTANTS
  MaxSessions = 2
  MaxSockets = 3
  MaxDrops = 3
  MaxRetries = 2
INVARIANTS OneChain
PROPERTIES StopStaysShown Recovers
CHECK_DEADLOCK FALSE
