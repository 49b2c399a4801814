CONSTANTS
  Minute <- MCMinute
  Bucket <- MCBucket
  Source <- MCSource
  Closing <- MCClosing
  Span <- MCSpan
  Value = {a, b}
  RollValue <- MCRollValue
  Rollup <- MCRollup
  NoBar = NoBar
  A = A
  T = T
  w = w
  d = d
  c1 = c1
  c2 = c2
  Task <- MCTask
  Kind <- MCKind
  TaskMinutes <- MCTaskMinutes
  NoTask = NoTask
  MaxClock = 1
  MaxFaults = 1
SPECIFICATION Spec
INVARIANTS TypeOK VerifiedBacked StaleRollupHasWork
PROPERTIES AckMeansReconciled
SYMMETRY MCSymmetry
