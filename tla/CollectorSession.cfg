CONSTANTS
  Symbol = {1, 2, 3}
  Volatile = {1, 2, 3}
  ChunkSize = 2
  MaxDelay = 4
  ResetAfter = 1
  MaxChanges = 3
  MaxFaults = 3
SPECIFICATION FairSpec
INVARIANTS OneStreamPerSymbol SessionCovers
PROPERTIES BackoffKept CollectorConverges ShutdownCompletes
