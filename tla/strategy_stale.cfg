SPECIFICATION StrategySpec
CONSTANTS
  None = None
  MaxOrderSize = 2
  StaleAfter = 2
  MaxSpreadBps = 50
  MinSources = 1
  MaxSourceAge = 2
  MaxDeviationBps = 80
  UseMedian = TRUE
  ExternalNames = {}
  ShockWindow = 1
  DepthBps = 20
  Threshold = 90
  Temperature = 1
  MinWait = 1
  Decay = 8
  OppositeRatio = 0
  Snapshots <- MCSnapshots
  Deltas <- MCDeltas
  Sequences = {1}
  Prints <- MCPrints
  Trades <- MCPrints
  Views = {}
  VisibleQueues = {0, 2}
  Tickers <- MCTickers
  Externals = {}
  TimeSteps = {1}
  MaxTime = 5
  MaxTrades = 2
  OpenGates <- ConfigGates
  MinOrderSize = 1
  LimitMaxAmount = 2
  LotSize = 1
  InitialBase = 10
  InitialQuote = 20000
  TargetRatio = 50
  NegativeBalancesAllowed = FALSE
  Levels = 2
  HalfSpread = 2
  LevelStep = 1
  SkewStrength = 0
  BaseOrderSize = 10
  SizeSkewStrength = 0
  FullActivation = 100
  MaxActiveOrders = 3
  QuoteTTL = 2
  MinReplaceInterval = 0
  ReplaceThresholdBps = 0
  SizeReplacePct = 0
  QueueMultiplier = 1
  IdCeilings = {10, 100}
  MinResting = 0
  FeeScale = 10000
  FallbackFee = 0
  MinDepth = 3000
  MinActivation = 1
  MaxAbsSkew = 60
  BlockUnfetchedSpec = FALSE
  BlockStatus = TRUE
  BlockStopFlags = TRUE
  BlockStale = TRUE
  MaxTradeDeviationBps = 100
  TradeMaxAge = 1
  ShortHorizon = 1
  LongHorizon = 2
  MaxDropShort = 50
  MaxRiseShort = 0
  MaxDropLong = 0
  MaxRiseLong = 50
  MaxSameSideFills = 2
  BurstWindow = 1
  BurstCooldown = 3
  MaxBaseQty = 17
  MaxQuoteUsage = 7000
  MaxInventoryNotional = 20000
  MaxOneSideChange = 7000
  OneSideWindow = 4
  PairSpecs <- MCPairSpecs
  PairFees = {1}
  FeeFromPairSpec = TRUE
  ClampNegativeFee = TRUE
  SwallowErrors = FALSE
  MaxCounter = 30
INVARIANT QuotesNeedAYoungBook
CHECK_DEADLOCK FALSE
