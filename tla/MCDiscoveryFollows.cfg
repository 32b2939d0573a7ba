CONSTANTS
  cmdVel = cmdVel
  otherVel = otherVel
  odom = odom
  otherOdom = otherOdom
  scan = scan
  otherScan = otherScan
  image = image
  amcl = amcl
  nav = nav
  otherNav = otherNav
  Interfaces = {cmdVel, odom, scan, otherScan, nav}
  Kind <- MCKind
  Configured <- MCConfigured
  Enabled <- MCEnabled
  MaxChanges = 1
SPECIFICATION FairSpec
INVARIANTS
  TypeOK
  RegistryMatchesSnapshot
PROPERTIES
  Settles
CHECK_DEADLOCK FALSE
