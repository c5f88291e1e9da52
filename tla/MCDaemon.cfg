SPECIFICATION Spec
CONSTANTS
  NoDevice = NoDevice
  Commands <- SafetyCommands
  InitialTypes = {"ds4"}
  Faults = {"hide", "functionfs", "uhid", "uhid_write", "uhid_drop"}
INVARIANTS
  OneSource
  GraceHasNoController
  DeviceHasTargetType
  NothingStuck
CHECK_DEADLOCK FALSE
