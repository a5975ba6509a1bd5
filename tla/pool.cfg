SPECIFICATION FairSpec
CONSTANTS
  r1 = r1
  r2 = r2
  Reads = {r1, r2}
  Configs <- MCConfigs
  Settings <- MCSettings
  MAX_XORB_BYTES = 64
  BASE_RESERVE_BYTES = 1024
  CGROUP_V1_NO_LIMIT = 1000000
INVARIANTS
  TypeOK
  SlotsConserved
  NoLostWakeup
  MemoryWithinLimits
  NoNeedlessWait
PROPERTY AllReadsEnd
