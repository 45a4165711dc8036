SPECIFICATION Spec
CONSTANTS
  Assets = {1, 2}
  ContentOf <- MCContentOf
  PageSize = 1
  MaxReloads = 2
  MaxClicks = 2
  None = None
INVARIANTS
  NothingSkipped
  TogglesFollowMap
  IndicatorTruthful
CHECK_DEADLOCK FALSE
