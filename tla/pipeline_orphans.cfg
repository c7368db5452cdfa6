SPECIFICATION Spec
CONSTANTS
  None = None
  MaxOrderSize = 2
  InitialBase = 10
  InitialQuote = 100
  TargetRatio = 50
  NegativeBalancesAllowed = FALSE
  Levels = 2
  HalfSpread = 1
  LevelStep = 1
  SkewStrength = 0
  BaseOrderSize = 2
  SizeSkewStrength = 0
  FullActivation = 2
  MinOrderSize = 1
  LotSize = 1
  MaxActiveOrders = 3
  QuoteTTL = 3
  MinReplaceInterval = 2
  ReplaceThresholdBps = 0
  SizeReplacePct = 0
  QueueMultiplier = 1
  IdCeilings = {10, 100}
  MinResting = 1
  FeeScale = 10
  FallbackFee = 0
  MaxSpreadBps = 5000
  MinDepth = 1
  MinActivation = 1
  MaxAbsSkew = 50
  BlockUnfetchedSpec = TRUE
  BlockStatus = TRUE
  BlockStopFlags = TRUE
  BlockStale = TRUE
  MaxTradeDeviationBps = 0
  TradeMaxAge = 3
  ShortHorizon = 1
  LongHorizon = 2
  MaxDropShort = 0
  MaxRiseShort = 0
  MaxDropLong = 0
  MaxRiseLong = 0
  MaxSameSideFills = 0
  BurstWindow = 2
  BurstCooldown = 3
  MaxBaseQty = 0
  MaxQuoteUsage = 0
  MaxInventoryNotional = 0
  MaxOneSideChange = 0
  OneSideWindow = 5
  Views <- CoreViews
  Trades <- CoreTrades
  PairSpecs = {{}}
  PairFees = {1}
  VisibleQueues = {0}
  TimeSteps = {1}
  MaxTime = 7
  MaxCounter = 30
  FeeFromPairSpec = TRUE
  ClampNegativeFee = TRUE
  SwallowErrors = FALSE
INVARIANT StaleOrdersAreCanceled
CHECK_DEADLOCK FALSE
