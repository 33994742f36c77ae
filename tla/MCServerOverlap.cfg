SPECIFICATION Spec
CONSTANTS
  Clients = {c1}
  MaxStarts = 2
  MaxKeys = 0
  MaxResets = 0
INVARIANT ServerUpIsListening
CHECK_DEADLOCK FALSE
