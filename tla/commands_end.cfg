CONSTANTS
  Thresh = 2
  Dials <- TwoDials
  Registered <- AsRegistered
  PendingBound = 3
  Reports <- ControlReports
  QueueBound = 2
SPECIFICATION Spec
INVARIANTS
  CommandsEnd
CHECK_DEADLOCK FALSE
