\* Two days, both strategies, two opportunities that compete for the daily cap, and
\* failures: crash, midnight, failed writes and failed seeds in every order.
CONSTANTS
    a1 = a1  a2 = a2  b1 = b1  e1 = e1  e2 = e2
    Days <- MCDays
    Events = {e1, e2}
    NoEvent = none
    MaxDaily = 2
    MaxEvent = 2
    EventCapOn = TRUE
    Fractions = {1, 2}
    Opps = {a1, b1}
    EventOf <- TwoEvents
    Versions <- OneVersion
    Quotes <- TwoQuotes
    Strategies = {"value", "model"}
    SeedMayFail = TRUE
    MaxFaults = 1
SPECIFICATION Spec
INVARIANTS GrantIsOnTheRow
PROPERTIES GrantedOnce ImplementsBudget
