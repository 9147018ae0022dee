CONSTANTS
  Axes = {0, 1}
  Rows = {0, 1}
  Unit = 4
  Grid = 3
  Steps = {1, 3, 4}
  One = 1
  Slack = 4
  High = 12
  Reals = {0, 4, 5, 12}
  Reach = 12
  Bounds = {1, 3, 8}
  Parts = 4
  Shares = {1}
  None = None
SPECIFICATION Spec
INVARIANTS
  RequestKept
  VectorKept
  VerdictFair
