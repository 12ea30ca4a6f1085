\* No failure at all: one cycle after another on one day.
CONSTANTS
    a1 = a1  a2 = a2  b1 = b1  e1 = e1  e2 = e2
    Days <- OneDay
    Events = {e1, e2}
    NoEvent = none
    MaxDaily = 2
    MaxEvent = 2
    EventCapOn = TRUE
    Fractions = {1, 2}
    Opps = {a1, b1}
    EventOf <- TwoEvents
    Versions <- OneVersion
    Quotes <- OneQuote
    Strategies = {"value"}
    SeedMayFail = FALSE
    MaxFaults = 0
SPECIFICATION Spec
INVARIANTS AlertsAreFunded
