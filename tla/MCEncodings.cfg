CONSTANTS
  None = None
  Letters = {"x", "}"}
  Numerals = {"1"}
  MaxDepth = 2
  Sides = {2, 3, 4, 5, 8}
SPECIFICATION Spec
INVARIANTS
  OnlyWholeRead
  CurveComplete
