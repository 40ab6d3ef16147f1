CONSTANTS
  Depth = 2
  Ticks = 2
  t1 = t1
  t2 = t2
  Threads <- MCThreads
  f1 = f1
  f2 = f2
  Ids <- MCIds
  Places = {1, 2}
  Frames <- MCFrames
  Malformed = Malformed
  None = None
  Vfs = {"counted", "plain"}
SPECIFICATION FairSpec
INVARIANTS
  TypeOK
  PostsMatchSamples
  PollSeesSamples
  StreamAgreesUnlessFull
PROPERTY
  FramesHandled
