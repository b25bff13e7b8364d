\* The machine's run/stop state between and during clients.
SPECIFICATION FairSpec
CONSTANTS
  c1 = c1
  c2 = c2
  Checkpoints = {c1, c2}
  MaxEvents = 4
INVARIANTS
  StopIsTrue
  ParkIsRemembered
  NoWedge
PROPERTIES
  RestoreKeepsPark
  HaltHolds
  HaltIsUndone
  DaemonExits
CHECK_DEADLOCK FALSE
