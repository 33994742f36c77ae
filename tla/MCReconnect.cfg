SPECIFICATION FairSpec
CONSTANTS
  Threads = {t1, t2}
  MaxSockets = 2
  MaxKeys = 2
  MaxFaults = 0
  MaxCommands = 0
  queueKeys = TRUE
  maxQueueSize = 1
PROPERTIES ReconnectEnds AckComes
CHECK_DEADLOCK FALSE
