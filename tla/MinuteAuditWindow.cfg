CONSTANTS
  Horizon = 6
  Worker = {"audit", "retry"}
  NoToken = NoToken
  StartMinute = 2
  AuditInterval = 2
  AuditDelay = 0
  Window = 1
  Chunk = 2
  Day = 2
  DayOffset = 1
  Retention = 4
  ListedAt = 1
  MaxFaults = 2
SPECIFICATION Spec
INVARIANTS CursorCovered ReplayNotForgotten
PROPERTIES LeaseExclusive
CHECK_DEADLOCK FALSE
