CONSTANTS
  a = a
  b = b
  Symbol = {a, b}
  Publisher = {p1, p2}
  Wanted <- MCWanted
  Client = {c1}
  Capacity = 1
  MaxBars = 2
  MaxAdds = 1
  MaxFaults = 1
  NoEvent = NoEvent
  Free = Free
SPECIFICATION FairSpec
INVARIANTS NeverPanics BarsInOrder AckedNotMissed FinalsStored
PROPERTIES PublisherNotBlocked SubscriberReleased
