SPECIFICATION MatchesFairSpec
CONSTANTS
  P1 = P1
  P2 = P2
  Matches = 2
  MaxTimers = 2
  AtTheSpot = {P1}
  OptionAfterDeath = TRUE
INVARIANTS
  MatchesConsistent
  FightIsMutual
PROPERTIES
  LastStateReported
  MatchesKeepComing
