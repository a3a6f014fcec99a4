CONSTANTS
  Thresh = 3
  Dials <- TwoDials
  Registered <- AsRegistered
  PendingBound = 2
  Reports <- AllControls
  QueueBound = 2
SPECIFICATION Spec
INVARIANTS
  TypeOK
  OneTurnCounts
  NothingLeftPending
PROPERTIES
  CountsDetents
  OnlyPanelMovesFlaps
  PanelCommandPasses
CHECK_DEADLOCK FALSE
