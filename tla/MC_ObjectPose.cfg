SPECIFICATION Spec
CONSTANTS
  Places <- TwoPlaces
  Window = 2
  Enough = 2
  Depth = 2
  Timeout = 2
  None = None
INVARIANTS TypeOK ValidMeansCurrent ValidPoseIsRecent
