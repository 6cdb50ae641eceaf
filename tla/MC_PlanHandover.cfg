SPECIFICATION FairSpec
CONSTANTS
  served = served
  refused = refused
  far = far
  Places <- ThreePlaces
  Reachable <- Planned
  Acceptable <- Served
  CacheSize = 1
  MaxLag = 1
  None = None
INVARIANTS TypeOK SafeIsTold
PROPERTIES PlanIsServed
