SPECIFICATION FairSpec
CONSTANTS
  NumKeys = 4
  Kept <- MCKept
  PlannedSize <- MCPlanned
  Stops <- MCStops
  Sizes = {0, 1}
  MAX_SOURCE_HEADS = 1
  MaxPolls = 3
  MaxChanges = 1
INVARIANTS
  
  QuietReportExact
  NoFalseAlarm
PROPERTY CheckEnds
