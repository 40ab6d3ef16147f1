CONSTANTS
  MaxPresses = 3
  Keys = {0, 1, 2}
  StableSamples = 3
  MaxEnables = 3
  Waiters = {a, b}
  MaxTime = 3
  Delay = 2
  AlarmSemMax = 2
  Transfers <- MCTransfers
  FifoDepth = 2
  MaxCalls = 3
  MaxHangs = 2
  Mounters = {worker, recorder, tf_test}
  Asks = {worker, recorder}
  Lenient = {recorder}
  Parts = {1, 2}
  MaxMounts = 3
  Clients = {shell, rx}
  MaxReady = 2
SPECIFICATION MCSpec
INVARIANTS DriversTypeOK WakesForPress TestRestores OwnAlarmOnly SuccessMeansDone MountAnswers CacheAgrees
PROPERTIES ChangesDebounced KeysReported TransferReturns
CHECK_DEADLOCK FALSE
