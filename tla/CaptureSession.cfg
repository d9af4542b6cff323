SPECIFICATION FairSpec
CONSTANTS
  Stoppers = {1, 2}
  QueueSize = 4
  MaxFrames = 6
  MaxFaults = 2
INVARIANTS JobSeesAll FramesAccounted AnswersTrue
PROPERTY StopPromotes
CHECK_DEADLOCK FALSE
