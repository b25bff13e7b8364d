\* Two arrivals or frames of each operation, on daemons of every age.
SPECIFICATION Spec
CONSTANTS
  Count = 2
  Frames = 2
INVARIANTS
  WorkOnce
  TakesItsOwn
  EndsAsPromised
CHECK_DEADLOCK FALSE
