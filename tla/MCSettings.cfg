SPECIFICATION FairSpec
CONSTANTS
  Settings <- MCSettings
  Commands <- MCCommands
  Backlog = 1
  MaxEvents = 4
  Faults = {"monitor", "open", "kill"}
INVARIANTS
  BusyWhileUnanswered
PROPERTIES
  CommandsAnswered
  ViewConverges
  SettingsSurvive
CHECK_DEADLOCK FALSE
