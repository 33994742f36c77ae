SPECIFICATION Spec
CONSTANTS
  Threads = {t1, t2}
  MaxSockets = 2
  MaxKeys = 2
  MaxFaults = 1
  MaxCommands = 1
  queueKeys = FALSE
  maxQueueSize = 0
SYMMETRY Symmetry
INVARIANTS ReconnectIsExclusive GuiQuietDuringReconnect OneOutstanding
PROPERTIES VerifiedAckGenuine ImplementsKeyChannel
CHECK_DEADLOCK FALSE
