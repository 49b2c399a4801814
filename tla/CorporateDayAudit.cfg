CONSTANTS
  Day <- MCDay
  Action = {3, 4}
  Answered <- MCAnswered
  AuditRange <- MCRanges
  AuditedDay <- MCWholeDay
  MaxAttempts = 1
  MaxFaults = 1
  NoBar = NoBar
SPECIFICATION FairSpec
INVARIANTS AdjustedWhenQuiet
PROPERTY JobsEnd
