CONSTANTS
  Backends <- AllBackends
  Threshold = 2
  KernelRoom = 4
  Sendable = 9
SPECIFICATION FairSpec
INVARIANTS
  TypeOK
  NoSleepOnData
PROPERTIES
  ReadsReports
  UnplugEndsRead
  CloseReturns
CHECK_DEADLOCK FALSE
