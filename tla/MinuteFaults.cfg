CONSTANTS
  Minute <- MCMinute
  Bucket <- MCBucket
  Source <- MCSource
  Closing <- MCClosing
  Span <- MCSpan
  Value = {a, b}
  RollValue <- MCRollValue
  Rollup <- MCRollup
  NoBar = NoBar
  A = A
  T = T
  Task <- MCTaskLive
  Kind <- MCKind
  TaskMinutes <- MCTaskMinutes
  w = w
  d = d
  c = c
  NoTask = NoTask
  MaxClock = 2
  MaxFaults = 2
SPECIFICATION FairSpec
PROPERTIES DailySettles StaleRollupRepaired VerifiedProtected
