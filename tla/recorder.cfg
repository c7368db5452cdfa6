SPECIFICATION Spec
CONSTANTS
  None = None
  RotateEvents = 4
  RotateBytes = 5
  FlushEvery = 3
  Bytes <- MCBytes
  MetadataCounts = {1}
  Timeouts = {None, 1}
  MaxIdle = 1
  MaxEvents = 5
  MaxReconnects = 1
  HeartbeatOn = TRUE
  MaxHeartbeats = 0
  MaxMessages = 2
  MaxFailures = 1
INVARIANTS
  TypeOK
  ConnectionsAreSeparated
  NothingLeftBehind
CHECK_DEADLOCK FALSE
