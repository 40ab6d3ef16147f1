CONSTANTS
  MaxPresses = 2
  Keys = {0, 1}
  StableSamples = 2
  MaxEnables = 1
  Waiters = {a}
  MaxTime = 1
  Delay = 1
  AlarmSemMax = 1
  Transfers <- MCTransfers
  FifoDepth = 1
  MaxCalls = 1
  MaxHangs = 1
  Mounters = {worker}
  Asks = {worker}
  Lenient = {}
  Parts = {1}
  MaxMounts = 1
  Clients = {shell}
  MaxReady = 1
SPECIFICATION MCSpec
INVARIANT ButtonsRestored
CHECK_DEADLOCK FALSE
