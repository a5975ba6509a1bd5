SPECIFICATION StopSpec
CONSTANTS
  NumKeys = 5
  Kept <- MCKept
  KeySize <- MCSize
  LimitBytes = 6
  RangeBytes = 0
  RangeKeys = 1
  MaxInflight = 2
  COMMIT_HEAVY_AVG_FILE_BYTES = 5
  MAX_INFLIGHT_SMALL_FILE_COPIERS = 1
  MAX_ATTEMPTS = 2
  Verify = FALSE
  Linked = TRUE
  MaxJobs = 4

  
PROPERTIES
  NoneOutlivesPlanner
