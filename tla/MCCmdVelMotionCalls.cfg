CONSTANTS
  MaxLin = 2
  MaxAng = 2
  AccLin = 1
  AccAng = 1
  KpLin = 1
  KpAng = 1
  TolPos = 0
  TolAng = 0
  HeadingErrors <- MCHeadingErrors
  Distances <- MCDistances
SPECIFICATION FairSpec
INVARIANTS
  TypeOK
  SpeedLimits
  DrivesWhereItLooks
  LinearRamp
PROPERTIES
  MoveEnds
  KeepsContract
