CONSTANTS
  MaxSeconds = 2
  Wrap = 8
  MaxTime = 4
SPECIFICATION Spec
INVARIANT
  ResumeKeepsRecording
CHECK_DEADLOCK FALSE
