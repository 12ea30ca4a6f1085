SPECIFICATION DecisionsSpec
CONSTANTS
  \* MarketTerms
  Lines <- MCLines
  Scores = {0, 1, 2, 3}
  \* FairValue
  Preferred <- MCPreferred
  Exchanges = {"exchange"}
  SoftBooks = {"b1", "b2"}
  PriceLines <- MCPriceLines
  Commission = 1
  MaxOverround = 12
  MinConsensus = 3
  SwapTolerance = 10
  ScanFloor = 3
  EdgeCeiling = 20
  MaxImplied = 77
  \* PickGates
  Policies <- MCPolicies
  PricedCandidates <- MCCandidates
  MaxGateClock = 3
  \* Composition
  Environments <- MCEnvironments
  Edges = {0, 2, 3, 20}
  \* ValueFilter
  MaxRuns = 2
  LoadsVersion = "v1"
  AllowShadow = TRUE
  LightgbmThere = TRUE
  \* Figures: the settled picks
  MaxSettled = 2
  MinSample = 2
  QStar = {50}
  \* Backtests
  History <- MCHistory
  Markets1x2 <- MCMarkets1x2
  Warmup = 1
  MinHistory = 2
  Training = 4
  RefitEvery = 2
  Seasons = 5
  MinEdge = 1
  MinPrice = 16
  Thresholds = {2, 3}
  \* Figures: the live card
  Fairs = {45, 50, 60}
  Implied = {42, 47, 55}
  MinEdgeOf <- MCMinEdgeOf
  MaxRepricings = 2
INVARIANTS
  DecisionsTypeOK
  MarketsBalance
  
  
  FiguresAreHonest
PROPERTY ShadowChangesNothing
CHECK_DEADLOCK FALSE
