\* Two joints, steps of 3, tolerance 1, gripper steps of 2.
SPECIFICATION FairSpec
CONSTANTS
  N = 2
  Step = 3
  Eps = 1
  GripStep = 2
  Starts <- ZeroStart
  Targets <- SomeTargets
  Grips <- SomeGrips
INVARIANTS TypeOK StaysOnPath CompletedMeansCommanded AbortNeedsThreeStrikes
PROPERTIES SlowAndSequential MotionEnds
