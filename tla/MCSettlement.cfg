SPECIFICATION FairSpec
CONSTANTS
    g1 = g1
    g2 = g2
    p1 = p1
    p2 = p2
    home = home
    homeFC = homeFC
    Events = {g1, g2}
    Picks = {p1, p2}
    Gradable = {p1, p2}
    EventOf <- FirstGame
    NameOf <- SameTeams
    FeedNameOf <- FeedNames
    Alike <- Containing
    Kickoff <- Apart
    FeedDay <- FeedSkewed
    DayTicks = 1
    MaxTime = 5
    SoftFloor = 0
    SettleDelay = 1
    FullFloor = 1
    ScrapeBudget = 1
    ScrapeWindow = 3
    ScoreWindow = 4
    VoidAge = 4
    StaleAge = 3
    MaxFaults = 1
    MaxCalls = 1
INVARIANTS
    SettledIffResult
    GradedByOwnFinal
PROPERTIES
    OperatorStands
    ScoresComeFirst
    EveryPickCloses
CHECK_DEADLOCK FALSE
