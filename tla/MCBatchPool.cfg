CONSTANTS
  FileCount = 3
  FileWorkers = 2
  Runs = 1
  None = None
  Partial = Partial
SPECIFICATION FairSpec
INVARIANTS
  PoolBounded
  StatusHonest
PROPERTIES
  BatchEnds
