CONSTANTS
  Symbol = {1, 2, 3}
  Volatile = {3}
  Refresher = {r1, r2}
  Reader = {g}
  Kind = {"trading"}
  Listed <- MCListed
  Enabled = TRUE
  ShrinkMin = 2
  MaxAge = 1
  MaxClock = 2
  MaxChanges = 1
  MaxFaults = 1
  NoRow = NoRow
  NoBatch = NoBatch
SPECIFICATION FairSpec
INVARIANT TypeOK
PROPERTIES GrantsRefined InventoryConverges
