\* Fair processes; one waypoint, close step and segment.
SPECIFICATION FairSpec
CONSTANTS
  Descents = 1
  Lifts = 1
  Start = 0
  OpenDelta = 1
  CloseStep = 1
  Limit = 0
  MaxGrip = 1
  MaxRuns = 1
  None = None
PROPERTIES RunEnds
