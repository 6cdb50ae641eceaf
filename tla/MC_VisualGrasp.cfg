\* The script is started twice: one waypoint down, close steps of one unit, two
\* segments up.
SPECIFICATION Spec
CONSTANTS
  Descents = 1
  Lifts = 2
  Start = 0
  OpenDelta = 1
  CloseStep = 1
  Limit = 0
  MaxGrip = 1
  MaxRuns = 2
  None = None
INVARIANTS TypeOK ClosesAtBottom LiftCompletedMeansLifted
PROPERTIES LiftOnlyAfterContact
