\* Two nodes that know each other and may be descheduled; delayed, duplicated
\* and lost messages, failing sends, answers later than SYNC_TIMEOUT_MS.
SPECIFICATION Spec
CONSTANTS
  a = a
  b = b
  c = c
  Node <- Two
  None = None
  Skew <- TwoSkew
  Acquainted <- Complete
  Electable <- Two
  CommandTimes <- Twice
  SyncTimeout = 1
  SyncLossTimeout = 3
  SendInterval = 2
  LeaderTimeout = 1
  SendMayFail = TRUE
  MayStall = TRUE
  MaxDelay = 1
  MaxNow = 7
INVARIANTS TypeOK LevelMatchesSource AttemptStaysWorthwhile LeaderServesOwnClock OffsetTracksSource
CHECK_DEADLOCK FALSE
