SPECIFICATION OutputSpec
CONSTANTS
  c1 = c1
  d1 = d1
  off = off
  on = on
  blue = blue
  red = red
  PhyFds = {c1}
  DupFds = {d1}
  Reports <- MCReports
  NoReport = NoReport
  kMinInterval = 1
  Motors = {off}
  Leds = {blue, red}
  MotorsOff = off
  DefaultLed = blue
  Restore = Restore
  Kept = Kept
  NoFd = NoFd
  OutThread = TRUE
  MaxTests = 1
CHECK_DEADLOCK FALSE
INVARIANTS
  PadFollowsDevice
