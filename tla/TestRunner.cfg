\* Two specs of two steps each; labels up to two units from their artifact.
SPECIFICATION FairSpec
CONSTANTS
  MaxTests = 2
  MaxSteps = 2
  Grace = 1
  Spread = 2
  NoLabels = NoLabels
INVARIANTS
  RefusedBeforeBoot
  StopIsKept
PROPERTY SuiteEnds
CHECK_DEADLOCK FALSE
