SPECIFICATION Spec

CONSTANTS
  AllowForce = FALSE
  AllowDelete = FALSE
  MaxCrashes = 2
  MaxFailures = 0

CHECK_DEADLOCK FALSE
PROPERTIES
  ImplementsPhases
