\* run_until amid other requests, a user checkpoint and a vanishing client.
SPECIFICATION LoopFairSpec
CONSTANTS
  user = user
  loop = loop
  Checkpoints = {user, loop}
  Target = loop
  Count = 2
  MaxEvents = 3
INVARIANTS
  ArrivalsAreCountedOnce
  NoLeakedCheckpoint
PROPERTIES
  ReachedIsParked
  StopsAtNthArrival
  LoopEnds
CHECK_DEADLOCK FALSE
