CONSTANTS
  BufferCount = 2
  SemMax = 2
  None = None
  Clients = {"late"}
SPECIFICATION Spec
PROPERTY
  ReturnedBeforeComplete
