CONSTANTS
  FileCount = 1
  FileWorkers = 1
  Runs = 3
  None = None
  Partial = Partial
SPECIFICATION Spec
INVARIANTS
  SuccessIsEarned
  ReportsFresh
