SPECIFICATION FairSpec
CONSTANTS
  c1 = c1
  c2 = c2
  Clients = {c1, c2}
  Publishers = {c1, c2}
  TimerThread = timer
  MaxEvents = 2
INVARIANTS
  Consistent
  ThrowsOnlyInTheGap
PROPERTY EveryEventResolved
CHECK_DEADLOCK FALSE
