SPECIFICATION Spec
CONSTANTS
  Uploads <- MCUploads
  Captures = {1, 5}
  Filters <- MCFilters
  Strides = {1, 2}
  Iterations = 4
  DensifyEvery = 2
  PruneEvery = 3
  PreviewEvery = 2
  PreviewCap = 2
  MaxPoints = 40
  ScaleFrames = 2
  SnapshotEvery = 2
  Sent = 4
  QueueSize = 2
INVARIANTS
  TracksItsFrames
  SplatIsCurrent
  PartialIsWhole
  StopsSoon
PROPERTIES
  ImplementsBody
  ReaderEnds
CHECK_DEADLOCK FALSE
