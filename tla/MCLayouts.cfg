CONSTANTS
  Period = 24
  Side = 5
  Grid = 3
  Residuals = 2
  Values <- MCValues
  Bounds = {0, 1, 5, 6, 7, 8, 12}
  None = None
  BoxSide = 5
  BoxIds <- PlaneIds
  MaxParticles = 4
  MinDense = 4
  Occupancy = 20
  Shapes <- MCShapes
  Sizes = {1, 2}
  Lengths = {0, 1, 2, 3, 6}
  N = 5
  BlockIds = {1, 2, 3}
  WordBits = 4
SPECIFICATION LayoutSpec
INVARIANTS
  LatticeKept
  ResidualShort
  BoxSmallest
  FieldKept
  ShapedKept
  OrderKept
