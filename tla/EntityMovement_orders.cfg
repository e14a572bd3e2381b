SPECIFICATION FairSpec
CONSTANTS
  c1 = c1
  p1 = p1
  p2 = p2
  Clients = {c1}
  TimerThread = timer
  MaxEvents = 3
  Positions = {p1, p2}
  NoPosition = noPosition
  MotionStates = {"walk", "run"}
  Nobody = nobody
INVARIANTS
  Consistent
  OwnMovementUnlessMissed
PROPERTY MovementEnds
CHECK_DEADLOCK FALSE
