SPECIFICATION FairSpec
CONSTANTS
  Clients = {c1, c2}
  Cancellers = {c1}
  TimerThread = timer
  Durations = {0, 1}
  MaxTimers = 3
  MaxTime = 2
INVARIANT Consistent
PROPERTY ImplementsTimerQueue
CHECK_DEADLOCK FALSE
