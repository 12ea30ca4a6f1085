\* Three opportunities, two of one event, and a daily cap that funds one and a half
\* of them: clips, skips and both caps bind in one cycle.
CONSTANTS
    a1 = a1  a2 = a2  b1 = b1  e1 = e1  e2 = e2
    Days <- OneDay
    Events = {e1, e2}
    NoEvent = none
    MaxDaily = 3
    MaxEvent = 2
    EventCapOn = TRUE
    Fractions = {1, 2}
    Opps = {a1, a2, b1}
    EventOf <- MCEventOf
    Versions <- OneVersion
    Quotes <- PremiumQuotes
    Strategies = {"value"}
    SeedMayFail = FALSE
    MaxFaults = 1
SPECIFICATION Spec
SYMMETRY SameEvent
INVARIANTS HighestKellyFirst CapsSurviveRestarts
