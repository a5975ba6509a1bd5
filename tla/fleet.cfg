SPECIFICATION FairSpec
CONSTANTS
  NumKeys = 5
  Kept <- MCKept
  KeySize <- MCSize
  LimitBytes = 6
  RangeBytes = 5
  RangeKeys = 0
  MaxInflight = 0
  COMMIT_HEAVY_AVG_FILE_BYTES = 4
  MAX_INFLIGHT_SMALL_FILE_COPIERS = 1
  MAX_ATTEMPTS = 2
  Verify = TRUE
  Linked = TRUE
  MaxJobs = 4
INVARIANTS
  RangesTile
  OneCopierPerRange
  
PROPERTIES
  CanceledStaysCanceled
  PlannerEnds
