SPECIFICATION FairSpec
CONSTANTS
  N = 4
  Size <- MCSize
  Parallel = 3
  CommitChunk = 2
  CommitBytes = 3
  ChanCap = 1
INVARIANTS
  SealedHasTrigger
  NoStrandedOp
  
  
  CountersAgree
  
  GaugesNonNegative
PROPERTIES
  
  RunEnds
