CONSTANTS
  N = 3
  IdSpan = 3
  Cells = 2
  Chunks = {0, 2}
  None = None
SPECIFICATION Spec
INVARIANTS
  RowsAttached
  NoRowLost
  MappingKept
  MetricsAligned
