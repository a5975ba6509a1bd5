SPECIFICATION FairSpec
CONSTANTS
  Parts = 3
  Concurrency = 2
  MAX_FILE_ATTEMPTS = 3
  MAX_PART_ATTEMPTS = 2
  STALL_POLLS = 2
  REQUEST_POLLS = 3
  MaxChanges = 1
INVARIANTS
  OpIsWhole
  SkippedMeansGone
PROPERTIES
  NoEarlyAbort
  KeepsPromise
  TransferEnds
