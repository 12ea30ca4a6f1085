\* One opportunity under three model versions, deployed and rolled back at will, with two
\* failures of any kind.
CONSTANTS
    a1 = a1  a2 = a2  b1 = b1  e1 = e1  e2 = e2
    Days <- OneDay
    Events = {e1}
    NoEvent = none
    MaxDaily = 3
    MaxEvent = 3
    EventCapOn = TRUE
    Fractions = {1, 2}
    Opps = {a1}
    EventOf <- OneEventOf
    Versions <- ThreeVersions
    Quotes <- TwoQuotes
    Strategies = {"value"}
    SeedMayFail = TRUE
    MaxFaults = 2
SPECIFICATION FairSpec
INVARIANTS OneOpenPickPerTier AlertStandsOnItsRow
PROPERTIES RowsOnlyRatchet FundedIsAlerted
