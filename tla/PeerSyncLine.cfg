\* Three nodes in a line, one leader command round, immediate delivery or loss.
SPECIFICATION Spec
CONSTANTS
  a = a
  b = b
  c = c
  Node <- Three
  None = None
  Skew <- ThreeSkew
  Acquainted <- Line
  Electable <- OnlyA
  CommandTimes <- AtStart
  SyncTimeout = 1
  SyncLossTimeout = 3
  SendInterval = 1
  LeaderTimeout = 0
  SendMayFail = FALSE
  MayStall = FALSE
  MaxDelay = 0
  MaxNow = 6
PROPERTIES SwitchingImproves ImplementsSyncLevels
CHECK_DEADLOCK FALSE
