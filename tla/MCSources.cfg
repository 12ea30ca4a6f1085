SPECIFICATION SourcesSpec
CONSTANTS
  own = own  sharp = sharp
  m1 = m1  m2 = m2  k1 = k1  k2 = k2
  g1 = g1  g2 = g2  b1 = b1
  p1 = p1  p2 = p2
  \* OddsHistory
  Quotes = {own, sharp}
  Prices = {1, 2}
  Kickoff = 1
  MaxTime = 2
  MaxFaults = 1
  SeenTTL = 1
  SeenMax = 1
  MaxGap = 0
  \* ListingScrape
  PoolSize = 3
  MaxFailover = 2
  Width = 2
  DatedPages = 2
  \* JsonFeed: the poll
  Slate = {k1, k2}
  FeedMarkets = {m1, m2}
  FeedSlots = 1
  MaxAttempts = 2
  \* JsonFeed: the match
  KnownBooks = {b1}
  FeedLines <- MCFeedLines
  MaxEntries = 2
  \* SharpCaptures: the exchange
  Fixtures = {1, 2}
  TargetLimit = 1
  MaxSeenPrices = 1
  BackPrices = {1, 2}
  ReaderProxies = 1
  MaxLosses = 1
  \* SharpCaptures: the Pinnacle archive
  SharpSports <- MCSharpSports
  MaxLine = 2
  Transports = 2
  GetAttempts = 1
  MaxFailures = 1
  \* ExchangeApi
  ApiMarkets <- MCApiMarkets
  BookBatch = 2
  Window = 2
  Promote = TRUE
  ApiClock = 2
  MaxLogins = 3
  \* ExchangeArchive
  Markets <- MCMarketIds
  ListingOf <- MCListing
  KickoffOf <- MCKickoff
  BookPrices = {2, 3}
  MaxMessages = 3
  \* Kickoffs
  Contests = {g1, g2}
  DayLength = 3
  LastKickoff = 2
  MaxMoves = 1
  MaxRestarts = 1
  \* ScoreCapture
  PickedGames = {1}
  LinkLimit = 1
  Budget = 1
  \* Resolution
  RealGames <- MCRealGames
  PickPages <- MCPickPages
  LookAlikes <- MCLookAlikes
  Drifts <- MCDrifts
  Spellings = {"exact", "near"}
  Turned = {FALSE, TRUE}
  ArchiveLimit = 3
  AnchorAge = 0
  LastMatchHour = 1
  \* GamesView
  Games = {"f1", "f2", "b1"}
  SportOf <- MCSportOf
  StartOf <- MCStartOf
  Grace = 2
  RecentOdds = 2
  MaxPollAge = 1
  LastHour = 4
  MaxBoots = 1
INVARIANTS
  SourcesTypeOK
  StoredLinesAreCurrent
  PricesAreOfTheirSide
  NothingIsConcludedEarly
PROPERTY StandingFactsStand
CHECK_DEADLOCK FALSE
