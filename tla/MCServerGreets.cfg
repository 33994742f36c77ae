SPECIFICATION FairSpec
CONSTANTS
  Clients = {c1, c2}
  MaxStarts = 1
  MaxKeys = 0
  MaxResets = 1
PROPERTY Greeted
CHECK_DEADLOCK FALSE
