SPECIFICATION FairSpec
CONSTANTS
  e1 = e1
  e2 = e2
  w1 = w1
  w2 = w2
  Ids = {t1}
  Executors = {e1}
  Workers = {w1}
  NoWorker = NoWorker
  NoConfig = NoConfig
  Requests = {r1}
  Configs <- MCOneConfig
  Capabilities <- MCOneCapability
  MaxAttempts = 3
  ExitCodes <- MCExitOne
PROPERTIES ImplementsLifecycle TasksSettle WebhookDelivered
CHECK_DEADLOCK FALSE
