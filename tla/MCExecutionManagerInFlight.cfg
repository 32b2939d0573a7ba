CONSTANTS
  m1 = m1
  m2 = m2
  n1 = n1
  s1 = s1
  s2 = s2
  r1 = r1
  r2 = r2
  bot = bot
  NoCommand = NoCommand
  Commands = {m1, m2, s1}
  Requests = {q1, q2, q3}
  Robots <- MCRobots
  Op <- MCOp
  RobotOf <- MCRobotOf
  ReadHandled <- OneReadHandled
SPECIFICATION Spec
CONSTRAINT OneArriving
PROPERTIES
  StopCancelsInFlight
SYMMETRY RequestSymmetry
