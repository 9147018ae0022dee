CONSTANTS
  Streams = {positions, velocities}
  Commands = 3
  Inputs = {"native", "merge"}
  None = None
  Partial = Partial
SYMMETRY StreamSymmetry
SPECIFICATION Spec
INVARIANTS
  OneGeneration
  ArtifactOfPackage
  NothingOverwritten
  ReportOfPackage
  DecompressKeepsPackage
  SuccessIsWhole
