\* Two sessions log in; connections and logins may be refused, and a bot may
\* then wait for ever, as may the training thread.
SPECIFICATION SessionsFairSpec
CONSTANTS
  Bots = 2
  MayRefuse = TRUE
INVARIANTS
  SessionsConsistent
  NothingLost
PROPERTIES
  SeekersLogIn
CHECK_DEADLOCK FALSE
