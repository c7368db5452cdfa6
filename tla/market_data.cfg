SPECIFICATION DataSpec
CONSTANTS
  None = None
  MaxOrderSize = 1
  StaleAfter = 2
  MaxSpreadBps = 50
  MinSources = 2
  MaxSourceAge = 2
  MaxDeviationBps = 80
  UseMedian = TRUE
  ExternalNames = {"usd"}
  ShockWindow = 3
  DepthBps = 20
  Threshold = 90
  Temperature = 2
  MinWait = 2
  Decay = 6
  OppositeRatio = 0
  Snapshots <- MCSnapshots
  Deltas <- MCDeltas
  Sequences = {None, 1}
  Prints <- MCPrints
  Tickers <- MCTickers
  Externals <- MCExternals
  TimeSteps = {1, 2}
  MaxTime = 6
  MaxTrades = 2
INVARIANTS
  DataTypeOK
  BookSourceIsCurrent
  FairIsSupported
  PressureIsTheWindow
  ActivationFollowsTheBurst
CHECK_DEADLOCK FALSE
