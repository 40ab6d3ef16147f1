CONSTANTS
  MaxSeconds = 2
  Wrap = 8
  MaxTime = 4
SPECIFICATION FairSpec
INVARIANTS
  StateMatchesWorker
  RecorderIsOwn
  PauseNeverWraps
PROPERTIES
  StopEnds
  QuitEnds
CHECK_DEADLOCK FALSE
