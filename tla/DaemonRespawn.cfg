\* Two commands, two overlapping daemon processes, a breaker of two.
SPECIFICATION FairSpec
CONSTANTS
  Commands = {c1, c2}
  Daemons = {d1, d2}
  Limit = 2
  None = None
INVARIANTS
  ServerKeepsItsSocket
  BreakerTrips
PROPERTIES
  DaemonsEnd
CHECK_DEADLOCK FALSE
