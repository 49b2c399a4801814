CONSTANTS
  Bucket = {1, 2, 3}
  MaxSpan = 4
  Worker = {w1, w2}
  Audits <- MCAudits
  Holes <- MCHoles
  MaxAttempts = 2
  Circuit = 2
  MaxFaults = 1
  MaxEvents = 1
  Reviews = {0, 2}
  NoResult = NoResult
SPECIFICATION FairSpec
INVARIANTS PlanExact NothingForgotten CountsHonest
PROPERTIES InsertOnly EventuallyFilled
