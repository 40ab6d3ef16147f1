CONSTANTS
  MaxThreads = 2
  MaxDrain = 2
  MaxUnexpected = 1
  Cap = 2
  MaxTodo = 1
  Frames = {"f"}
SPECIFICATION FairSpec
INVARIANTS
  TypeOK
  LinkAgrees
  FramesIntactUnlessPolled
  AnswersArrive
PROPERTIES
  CommandsReturn
  StopTakesEffect
