\* One game, put back twice within two days.
CONSTANTS
    Contests = {g1}
    DayLength = 3
    LastKickoff = 4
    MaxMoves = 2
    MaxRestarts = 1
SPECIFICATION KickoffSpec
PROPERTIES NewestKickoffStands
CHECK_DEADLOCK FALSE
