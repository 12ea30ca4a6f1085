\* Two overlapping jobs that want the same two alerts, two sinks of which any may be
\* configured, two failures of any kind.
CONSTANTS
    daily = daily  initial = initial  release = release  pick = pick
    Jobs = {daily, initial}
    Keys = {release, pick}
    Wanted <- SharedWanted
    Sinks <- MCSinks
    TTL = 2
    MaxFaults = 2
SPECIFICATION FairSpec
INVARIANTS OneSenderPerKey DeliveredStaysClaimed ClaimHasCause
PROPERTIES ImplementsQuietPeriod AlertKeepsArriving
