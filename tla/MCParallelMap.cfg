CONSTANTS
  Jobs = 4
  Workers = 3
  None = None
SPECIFICATION FairSpec
INVARIANTS
  SlotsExclusive
PROPERTIES
  FirstErrorKept
  ImplementsMapOutcome
  Terminates
