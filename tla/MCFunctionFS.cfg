SPECIFICATION FairSpec
CONSTANT MaxReports = 3
INVARIANTS
  ThreadsHaveDevice
  InputInOrder
PROPERTIES
  NewestInputDelivered
