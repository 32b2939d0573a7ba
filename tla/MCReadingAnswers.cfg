CONSTANTS
  Reads = {r1}
  MaxTime = 2
  TfTimeout = 1
  StaleAfter = 0
  WidthCap = 4
  Widths <- MCWidths
  Scans <- MCScans
  Images <- MCImages
  Registries <- MCRegistries
  Beams = 24
  AngleMin = 0
  AngleIncrement = 1
  Circle = 24
  RangeMin = 1
  RangeMax = 6
  NaN = NaN
  Inf = Inf
  FieldOfView = 4
  Tolerance = 1
  None = None
SPECIFICATION Spec
INVARIANTS
  TypeOK
  OneSubscription
  StateIsCoherent
  DistanceIsMeasured
PROPERTIES
  WaitIsFutile
