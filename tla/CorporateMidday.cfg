CONSTANTS
  Day <- MCDay
  Action = {3}
  Answered <- MCAnswered
  AuditRange <- MCRanges
  AuditedDay <- MCDay
  MaxAttempts = 1
  MaxFaults = 0
  NoBar = NoBar
SPECIFICATION Spec
INVARIANT AdjustedWhenQuiet
