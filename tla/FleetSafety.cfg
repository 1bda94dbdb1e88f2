SPECIFICATION FleetSpec
CONSTANTS
  e1 = e1
  e2 = e2
  w1 = w1
  w2 = w2
  Ids = {t1}
  Executors = {e1, e2}
  Workers = {w1, w2}
  NoWorker = NoWorker
  NoConfig = NoConfig
  Requests = {r1}
  Configs <- MCTwoKinds
  Capabilities <- MCTwoCapabilities
  MaxAttempts = 2
  ExitCodes <- MCExitOne
INVARIANTS OneRunnerPerAttempt AssignedWorkerIsRunner
PROPERTIES OutputIsFinal FleetImplementsQueue
CHECK_DEADLOCK FALSE
