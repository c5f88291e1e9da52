SPECIFICATION FairSpec
CONSTANTS
  MaxClaimAttempts = 2
  CheckEvery = 2
  Capacity = 2
  MaxReports = 3
  Faults = {"open", "reclaim", "claim", "pipe", "attach", "kill"}
INVARIANTS
  HandleClosedOnce
  ThreadsAreJoined
  NobodyStranded
PROPERTIES
  LossIsSignalled
  CloseReturns
  NewestOutputForwarded
  ImplementsPipe
