CONSTANTS
  Chunks = 0
  Requested = 400
  Infinite = 100000
  Errors <- ManyErrors
  None = None
  MaxValues = 5
  Modulus = 4
  ByteBits = 8
SPECIFICATION TripletSpec
INVARIANTS
  RetriesEarned
  ShortestCode
  DamageJudged
