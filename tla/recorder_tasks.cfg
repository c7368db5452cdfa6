SPECIFICATION FairSpec
CONSTANTS
  None = None
  RotateEvents = 3
  RotateBytes = 4
  FlushEvery = 2
  Bytes <- MCBytes
  MetadataCounts = {0}
  Timeouts = {None}
  MaxIdle = 1
  MaxEvents = 2
  MaxReconnects = 1
  HeartbeatOn = TRUE
  MaxHeartbeats = 1
  MaxMessages = 1
  MaxFailures = 1
INVARIANTS
  RecordingIsComplete
  FilesKeepTheirLimits
  TailLossIsBounded
PROPERTIES
  LostConnectionIsReplaced
  EnoughIsEnough
CHECK_DEADLOCK FALSE
