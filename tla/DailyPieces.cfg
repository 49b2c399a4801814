CONSTANTS
  RecentDays = 2
  LookbackDays = 6
  PieceDays = 1
  PassesPerDay = 4
  StartDay = 10
  MaxDay = 12
  FirstDay = 5
  Listing = {0, 5}
  Quiet = {9}
  MaxFaults = 2
SPECIFICATION FairSpec
INVARIANTS ClearedDaysRight RotationCovers
PROPERTY FailureKept WrongDayRepaired
