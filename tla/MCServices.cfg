SPECIFICATION ServicesSpec
CONSTANTS
  e1 = e1  e2 = e2  o1 = o1  o2 = o2  pb = pb
  w1 = w1  w2 = w2  t1 = t1  t2 = t2  s1 = s1  s2 = s2  none = none
  \* ExposureLedger: the shipped caps in percent
  Days <- MCDays
  Events = {e1, e2}
  NoEvent = none
  MaxDaily = 5
  MaxEvent = 4
  EventCapOn = TRUE
  Fractions = {1, 2}
  \* JobScheduler
  Jobs = {"poll_odds", "capture_finished_scores", "settle_results"}
  ContinuousJobs = {"poll_odds", "capture_finished_scores"}
  HungAfter = 2
  MaxMissed = 3
  SportKeys <- MCSportKeys
  \* OffWindow
  PageEvents = {e1, e2}
  Slots = {1, 2}
  LinkCap = 1
  MaxCycles = 4
  \* Access
  Operators = {o1, o2}
  SessionTTL = 1
  MaxClock = 2
  \* Monitors: the self-audit
  BacklogLimit = 2
  StaleAfter = 4
  DeadManK = 3
  MaxAge = 6
  \* Monitors: the watches
  Packages = {pb}
  MaxRelease = 2
  KeyTTL = 2
  MaxDay = 3
  \* EntityRows
  Writers = {w1, w2}
  Teams = {t1, t2}
  Spellings = {s1, s2}
  MaxInserts = 3
  \* Migrations
  Fixture <- MCFixture
  StrategyIds = {"v3", "v4"}
  Countries = {"", "eth"}
  MarketKeys = {"k1"}
  MaxVersions = 2
  \* AnchorCoverage
  Matches <- MCMatches
  SportKeyOf <- MCSportKeyOf
  BaseOf <- MCBaseOf
  StartsAt <- MCStartsAt
  PickedOn <- MCPickedOn
  Implausible <- MCImplausible
  LeagueOf <- MCLeagueOf
  ArchiveGames <- MCArchiveGames
  NameCost <- MCNameCost
  Horizon = 168
  CloseGap = 0
  LastTick = 1
INVARIANTS
  ServicesTypeOK
  CapsHold
  EveryoneGetsATurn
  ToldOnce
  IdentityIsKept
  CoverageIsHonest
CHECK_DEADLOCK FALSE
