SPECIFICATION Spec
CONSTANTS
  o1 = o1
  o2 = o2
  Objects <- TwoObjects
  Depth = 2
  BridgeText = "connected"
  MaxPending = 2
  Elsewhere = Elsewhere
  None = None
SYMMETRY Symmetry
INVARIANTS TypeOK
PROPERTIES ReadyMeansThere DescendsInColumn DescendedMeansBottom
