CONSTANTS
  Chunks = 3
  Requested = 400
  Infinite = 100000
  Errors <- FewErrors
  None = None
SPECIFICATION Spec
INVARIANTS
  StoredSettingsFit
