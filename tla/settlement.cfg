SPECIFICATION FairSpec
CONSTANTS
  Ops = {a, b, c}
  Unknown = u
  MAX_TRIES = 6
INVARIANTS
  SureMeansApplied
  NothingUnsettled
PROPERTY Settles
