SPECIFICATION FairSpec
CONSTANTS
  NoDevice = NoDevice
  Commands <- LivenessCommands
  InitialTypes = {"ds4"}
  Faults = {"host_closes"}
PROPERTIES
  ControllerDrivesDevice
  GraceEnds
CHECK_DEADLOCK FALSE
