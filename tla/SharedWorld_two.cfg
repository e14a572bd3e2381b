\* Two sessions in one world; a character may be reset while the other session
\* has yet to read that it sees it.
SPECIFICATION FairSpec
CONSTANTS
  Bots = {b1, b2}
  Others = {m}
  Tokens = {t1}
  Nobody = Nobody
  MaxShows = 2
  MaxNews = 2
  MaxWarps = 1
INVARIANTS
  Consistent
  Settled
PROPERTIES
  LoadingEnds
CHECK_DEADLOCK FALSE
