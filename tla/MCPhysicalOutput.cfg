SPECIFICATION OutputFairSpec
CONSTANTS
  c1 = c1
  d1 = d1
  off = off
  on = on
  blue = blue
  red = red
  PhyFds = {c1}
  DupFds = {d1}
  Reports <- MCReports
  NoReport = NoReport
  kMinInterval = 1
  Motors = {off, on}
  Leds = {blue}
  MotorsOff = off
  DefaultLed = blue
  Restore = Restore
  Kept = Kept
  NoFd = NoFd
  OutThread = FALSE
  MaxTests = 1
CHECK_DEADLOCK FALSE
INVARIANTS
  OwnDescriptorIsOpen
  HeldForThisConnection
  PadFollowsDevice
PROPERTIES
  DupsAreClosed
