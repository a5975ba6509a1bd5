SPECIFICATION Spec
CONSTANTS
  N = 2
  Size <- MCSize
  Parallel = 2
  CommitChunk = 1
  CommitBytes = 0
  ChanCap = 1
INVARIANT PendingAckGauge
