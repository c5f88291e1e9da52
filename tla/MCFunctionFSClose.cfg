SPECIFICATION FairSpec
CONSTANT MaxReports = 1
PROPERTIES
  CloseReturns
