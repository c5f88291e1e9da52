SPECIFICATION FairSpec
CONSTANTS
  MaxEvents = 8
  Commands = {"set-type", "release-physical", "stop"}
  Faults = {"open", "create"}
INVARIANTS
  NoNodeLeftHidden
  FormatMatchesLink
  HandsOff
PROPERTIES
  UsbTakesOver
  BluetoothHandedBack
CHECK_DEADLOCK FALSE
