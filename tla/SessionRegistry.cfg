SPECIFICATION Spec
CONSTANTS
  Names = {n1, n2}
  Commands = {c1, c2}
  Pids = {p1, p2}
  Default = n1
  Attempts = 2
  None = None
  Torn = Torn
  Stranger = Stranger
SYMMETRY Interchangeable
CONSTRAINT Overlap
INVARIANTS NoOrphan OnePerName StopAllClears OneBadRecordCostsItself
