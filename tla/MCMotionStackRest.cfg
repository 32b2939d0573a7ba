CONSTANTS
  m1 = m1
  m2 = m2
  n1 = n1
  s1 = s1
  s2 = s2
  r1 = r1
  bot = bot
  NoCommand = NoCommand
  Commands = {m1}
  Requests = {q1}
  Robots <- MCRobots
  Op <- MCOp
  RobotOf <- MCRobotOf
  ReadHandled = {}
  MaxQueue = 3
SPECIFICATION StackSpec
INVARIANTS
  RestWhenIdle
