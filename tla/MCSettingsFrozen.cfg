SPECIFICATION FairSpec
CONSTANTS
  Settings = {}
  Commands <- SilentCommands
  Backlog = 5
  MaxEvents = 1
  Faults = {}
INVARIANTS
  NeverFrozen
CHECK_DEADLOCK FALSE
