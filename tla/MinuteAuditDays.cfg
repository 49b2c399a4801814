CONSTANTS
  Horizon = 8
  Worker = {"days", "daily"}
  NoToken = NoToken
  StartMinute = 5
  AuditInterval = 2
  AuditDelay = 0
  Window = 1
  Chunk = 2
  Day = 2
  DayOffset = 1
  Retention = 4
  ListedAt = 4
  MaxFaults = 1
SPECIFICATION FairSpec
INVARIANTS CursorCovered
PROPERTIES BacklogDrains
CHECK_DEADLOCK FALSE
