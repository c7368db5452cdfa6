SPECIFICATION Spec
CONSTANTS
  None = None
  MaxSpreadBps = 0
  MaxOrderSize = 1
  Books <- MCBooks
  MaxChanges = 4
  MaxInFlight = 2
  MaxDisconnects = 1
PROPERTY RewoundBookIsStale
CHECK_DEADLOCK FALSE
