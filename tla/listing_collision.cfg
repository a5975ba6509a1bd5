SPECIFICATION Spec
CONSTANTS
  Universe <- MCUniverse
  Settings <- MCSettings
  Sources <- MCSources
  Sizes = {1, 2}
  PageSize = 2
  MAX_ATTEMPTS = 2
  MaxChanges = 1
INVARIANT SourceKeyInverts
