CONSTANTS
  FileCount = 1
  FileWorkers = 1
  Runs = 1
  None = None
  Partial = Partial
SPECIFICATION Spec
INVARIANTS
  FailureReflected
