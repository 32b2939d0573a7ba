CONSTANTS
  Calls = {c1, c2, c3}
  Sessions = {sA, sB}
  RateNum = 3
  RateDen = 2
  Second = 2
  MaxTime = 3
  Lengths = {0, 2, 3}
  MaxMove = 1
  MaxNavigation = 2
  FenceEnabled = TRUE
  ApprovalPolicy = "policy_based"
  ApprovalAbove = 0
  ClientCalls <- MCClientCalls
  Registries <- MCRegistries
  MoveDefault = 300
  MoveMax = 600
  NavigateDefault = 1200
SPECIFICATION ToolSpec
INVARIANTS
  SurfaceTypeOK
  RateBound
  FairDenial
  DispatchedComplete
  ListedCanRun
CHECK_DEADLOCK FALSE
SYMMETRY PolicySymmetry
