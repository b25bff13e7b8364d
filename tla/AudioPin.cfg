\* Starts, stops and captures with one failed exchange each, kills, relaunches.
SPECIFICATION Spec
CONSTANTS
  Speeds = {0, 100}
  Realtime = 100
  MaxSessions = 2
  MaxFailures = 1
INVARIANTS
  Undoable
  OnlyOwnSettings
PROPERTIES
  StopRestores
  StopClosesFirst
