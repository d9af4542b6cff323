SPECIFICATION FairSpec

CONSTANTS
  AllowForce = TRUE
  AllowDelete = TRUE
  MaxCrashes = 1
  MaxFailures = 1

CHECK_DEADLOCK FALSE
INVARIANTS
  ReadyHasArtifacts
  CancelWasAsked
  NoLimbo
PROPERTIES
  CancelSettles
  StreamEndsWithRun
