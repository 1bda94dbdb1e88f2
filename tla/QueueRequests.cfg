SPECIFICATION Spec
CONSTANTS
  e1 = e1
  e2 = e2
  w1 = w1
  w2 = w2
  Ids = {t1}
  Executors = {e1, e2}
  Workers = {w1, w2}
  NoWorker = NoWorker
  NoConfig = NoConfig
  Requests = {r1, r2}
  Configs <- MCEitherExecutor
  Capabilities <- MCTwoCapabilities
  MaxAttempts = 2
  ExitCodes <- MCExitCodes
SYMMETRY MCRequestSymmetry
INVARIANTS IndInv AttemptHandedOnce PauseBindsLaterRequests OneResultOfLastAttempt
CHECK_DEADLOCK FALSE
