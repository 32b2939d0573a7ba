\* robot.navigate_to against robot.stop, the backstop and the action server.
SPECIFICATION FairSpec
CONSTANTS
  n1 = n1
  n2 = n2
  Navs = {n1, n2}
  Stops = {s1}
  NoNav = NoNav
CONSTRAINT InOrder
INVARIANTS
  TypeOK
  NoGoalForgotten
  SoleGoalHasHandle
  ResultTruth
PROPERTIES
  CancelledNavEnds
  StopReachesSole
  KeepsContract
CHECK_DEADLOCK FALSE
