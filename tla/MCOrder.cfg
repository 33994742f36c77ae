SPECIFICATION Spec
CONSTANTS
  Threads = {t1, t2}
  MaxSockets = 2
  MaxKeys = 2
  MaxFaults = 0
  MaxCommands = 0
  queueKeys = TRUE
  maxQueueSize = 1
INVARIANT DeliveredInOrder
CHECK_DEADLOCK FALSE
