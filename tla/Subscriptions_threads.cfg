SPECIFICATION SubsFairSpec
CONSTANTS
  c1 = c1
  c2 = c2
  Users = {c1, c2}
  Notifier = timer
  NoThread = none
  Codes = {moved}
  CallersHold = {TRUE, FALSE}
  HandlersLock = {TRUE, FALSE}
  MaxSubscriptions = 2
  MaxEvents = 2
INVARIANTS
  SubsConsistent
  NoCallAfterUnsubscribe
PROPERTIES
  ReturnsUnlessWorldHeld
  EverySubscriberHears
CHECK_DEADLOCK FALSE
