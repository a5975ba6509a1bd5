SPECIFICATION Spec
CONSTANTS
  Parts = 2
  Concurrency = 2
  MAX_FILE_ATTEMPTS = 2
  MAX_PART_ATTEMPTS = 2
  STALL_POLLS = 2
  REQUEST_POLLS = 3
  MaxChanges = 1
PROPERTY PartRetriedFirst
