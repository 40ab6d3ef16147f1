CONSTANTS
  BufferCount = 3
  SemMax = 2
  None = None
  Clients = {"prompt", "slow", "late"}
SPECIFICATION FairSpec
INVARIANTS
  TypeOK
  NoLostWakeup
  NoLostBuffer
  PromptKeepsUp
  PauseAgrees
PROPERTIES
  KeepsContract
  StopCompletes
