SPECIFICATION FairSpec
CONSTANTS
  None = None
  MaxSpreadBps = 0
  MaxOrderSize = 1
  Books <- MCBooks
  MaxChanges = 4
  MaxInFlight = 2
  MaxDisconnects = 1
INVARIANTS
  TypeOK
  FreshBookIsExact
  GapsHaveACause
PROPERTY BookCatchesUp
CHECK_DEADLOCK FALSE
