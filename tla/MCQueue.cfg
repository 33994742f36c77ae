SPECIFICATION Spec
CONSTANTS
  Threads = {t1, t2}
  MaxSockets = 2
  MaxKeys = 3
  MaxFaults = 1
  MaxCommands = 0
  queueKeys = TRUE
  maxQueueSize = 2
SYMMETRY Symmetry
INVARIANTS TypeOK ReconnectIsExclusive NoOrphanedQueue
PROPERTIES DrainIsExclusive ImplementsKeyChannel
CHECK_DEADLOCK FALSE
