SPECIFICATION FairSpec
CONSTANTS
  p1 = p1
  p2 = p2
  t1 = t1
  t2 = t2
  t3 = t3
  NotReady = NotReady
  NoTrajectory = NoTrajectory
  Plans = {p1, p2}
  Trajectories = {t1, t2, t3}
  PlanOf <- PlanOfThree
INVARIANTS TypeOK RunIsApproved
PROPERTIES CompletesItsPlan StartableInTheEnd
CHECK_DEADLOCK FALSE
