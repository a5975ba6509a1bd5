SPECIFICATION Spec
CONSTANTS
  NumKeys = 5
  Kept <- MCKept
  KeySize <- MCSize
  LimitBytes = 0
  RangeBytes = 0
  RangeKeys = 2
  MaxInflight = 1
  COMMIT_HEAVY_AVG_FILE_BYTES = 5
  MAX_INFLIGHT_SMALL_FILE_COPIERS = 1
  MAX_ATTEMPTS = 1
  Verify = TRUE
  Linked = TRUE
  MaxJobs = 4
INVARIANTS
  WithinCap
