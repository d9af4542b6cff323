SPECIFICATION Spec
CONSTANTS
  front = front
  again = again
  back = back
  Videos <- MCVideos
  FileName <- MCFileName
  JobIds = {1, 2, 3}
  Editors = {e1, e2}
  MaxRev = 2
SYMMETRY Symmetry
INVARIANTS RowsHaveUploads DraftTakenOnce ListedOnDisk
PROPERTY ListedNotOverwritten
CHECK_DEADLOCK FALSE
