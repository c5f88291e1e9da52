SPECIFICATION FairSpec
CONSTANTS
  Reports = {rumble_on, rumble_off, led}
  NoReport = NoReport
  kMinInterval = 3
INVARIANTS
  NewestReportWins
  HeldReportHasFlusher
  NoFlusherAfterStop
PROPERTIES
  RateCapped
  LastReportIsWritten
  StopReturns
  ImplementsPacedOutput
