SPECIFICATION Spec
CONSTANTS
  None = None
  MaxOrderSize = 2
  InitialBase = 3
  InitialQuote = 40
  TargetRatio = 50
  NegativeBalancesAllowed = FALSE
  Levels = 1
  HalfSpread = 1
  LevelStep = 1
  SkewStrength = 0
  BaseOrderSize = 2
  SizeSkewStrength = 0
  FullActivation = 2
  MinOrderSize = 1
  LotSize = 1
  MaxActiveOrders = 2
  QuoteTTL = 3
  MinReplaceInterval = 2
  ReplaceThresholdBps = 0
  SizeReplacePct = 0
  QueueMultiplier = 0
  IdCeilings = {10, 100}
  MinResting = 0
  FeeScale = 4
  FallbackFee = 0
  MaxSpreadBps = 5000
  MinDepth = 1
  MinActivation = 1
  MaxAbsSkew = 60
  BlockUnfetchedSpec = TRUE
  BlockStatus = TRUE
  BlockStopFlags = TRUE
  BlockStale = TRUE
  MaxTradeDeviationBps = 4000
  TradeMaxAge = 1
  ShortHorizon = 1
  LongHorizon = 2
  MaxDropShort = 500
  MaxRiseShort = 0
  MaxDropLong = 0
  MaxRiseLong = 500
  MaxSameSideFills = 2
  BurstWindow = 2
  BurstCooldown = 3
  MaxBaseQty = 8
  MaxQuoteUsage = 0
  MaxInventoryNotional = 0
  MaxOneSideChange = 60
  OneSideWindow = 4
  Views <- RiskViews
  Trades <- RiskTrades
  PairSpecs <- SomeStops
  PairFees = {1}
  VisibleQueues = {0}
  TimeSteps = {1, 2}
  MaxTime = 7
  MaxCounter = 30
  FeeFromPairSpec = TRUE
  ClampNegativeFee = TRUE
  SwallowErrors = FALSE
INVARIANT FillsAreFunded
CHECK_DEADLOCK FALSE
