CONSTANTS
  Dials <- HdgCrs
  Buttons <- NoButtons
  SimVals <- HdgCrsVals
  Limit = 2
  Commands <- NoCommands
  Unheard <- NoneUnheard
  Switches <- OnlyBatteryOn
SPECIFICATION SpecHdgCrs
INVARIANTS
  HeadingAgrees
CHECK_DEADLOCK FALSE
