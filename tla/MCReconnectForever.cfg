SPECIFICATION FairSpec
CONSTANTS
  Threads = {t1, t2}
  MaxSockets = 2
  MaxKeys = 1
  MaxFaults = 0
  MaxCommands = 0
  queueKeys = FALSE
  maxQueueSize = 0
PROPERTY ReconnectsUntilSuccessful
CHECK_DEADLOCK FALSE
