SPECIFICATION FairSpec
CONSTANTS
  Centred = Centred
  Still = Still
  Absent = Absent
  Tilted = Tilted
  Moving = Moving
  Pads <- MCPads
  Noise <- MCNoise
  Synthetics <- MCSynthetics
  Types = {"ds4", "dualsense", "none"}
  Versions = {TRUE, FALSE}
  Outputs = {"dark", "lit"}
  Dark = "dark"
  kMeasureWindows = 2
  MaxLines = 1
  MaxEvents = 4
  NoPad = NoPad
  NoReport = NoReport
  NoState = NoState
  NoOutput = NoOutput
PROPERTIES
  HostSeesPad
  ViewFollowsPad
  MeasurementEnds
CHECK_DEADLOCK FALSE
