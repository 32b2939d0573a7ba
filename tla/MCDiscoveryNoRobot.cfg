CONSTANTS
  cmdVel = cmdVel
  otherVel = otherVel
  odom = odom
  otherOdom = otherOdom
  scan = scan
  otherScan = otherScan
  image = image
  amcl = amcl
  nav = nav
  otherNav = otherNav
  Interfaces = {cmdVel, odom, scan, image}
  Kind <- MCKind
  Configured <- MCConfigured
  Enabled <- MCEnabled
  MaxChanges = 1
SPECIFICATION Spec
INVARIANTS
  NoRobotNoCapabilities
CHECK_DEADLOCK FALSE
