SPECIFICATION Spec
CONSTANTS
  Builders = {b1, b2}
  Manifests <- MCManifests
  Packaged = {"left.s", "right.bas"}
  MaxVersion = 2
  MaxCommands = 2
  TotalBlocks = 2
  None = None
SYMMETRY Interchangeable
INVARIANT EntriesAreOwn
CHECK_DEADLOCK FALSE
