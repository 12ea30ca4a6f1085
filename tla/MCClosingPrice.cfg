SPECIFICATION ClosingSpec
CONSTANTS
  own = own
  soft = soft
  sharp = sharp
  Quotes = {own, soft, sharp}
  Pages <- MCPages
  OwnBook = own
  SharpBook = sharp
  Prices = {1, 2, 3}
  Kickoff = 2
  MaxTime = 3
  MaxGap = 0
  SettleDelay = 1
  MaxCycle = 1
  MaxCloseEdge = 1
  FellBackAt = {1}
INVARIANTS
  ClosingTypeOK
  NoInPlayClose
  LineIsOfThisFill
PROPERTY FrozenOnceClosed
CHECK_DEADLOCK FALSE
