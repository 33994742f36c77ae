SPECIFICATION Spec
CONSTANTS
  Clients = {c1}
  MaxStarts = 2
  MaxKeys = 2
  MaxResets = 1
INVARIANTS TypeOK RepliesFollowProtocol UpMeansListening
CHECK_DEADLOCK FALSE
