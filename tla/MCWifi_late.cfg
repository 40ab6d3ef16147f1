CONSTANTS
  MaxThreads = 1
  MaxDrain = 4
  MaxUnexpected = 4
  Cap = 3
  MaxTodo = 2
  Frames = {"f"}
SPECIFICATION Spec
INVARIANT CfmAnswersRequest
