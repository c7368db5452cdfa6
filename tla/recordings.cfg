SPECIFICATION Spec
CONSTANTS
  None = None
  Limit = 100
  Powers = {1, 10}
  Leads <- MCLeads
  MaxSkew = 1
  FirstSequence = 8
  PartCounts = {2, 3}
  Horizons = {1, 2}
  MinDuration = 0
  ReportSets <- MCReportSets
  Thresholds <- MCThresholds
  MaxTime = 2
  MaxEvents = 5
INVARIANTS
  TypeOK
  SplitIsAPartition
  SplitKeepsTheVerdict
  VerdictsAgreeOnDeltas
  SortKeepsAcceptance
PROPERTIES
  SettledMarkoutsStay
  GrowthKeepsTheVerdicts
CHECK_DEADLOCK FALSE
