CONSTANTS
  Dials <- HdgCrs
  Buttons <- NoButtons
  SimVals <- HdgCrsVals
  Limit = 2
  Commands <- NoCommands
  Unheard <- NoneUnheard
  Switches <- OneSwitchOn
SPECIFICATION SpecArmedHdgCrs
INVARIANTS
  PowerAgrees
CHECK_DEADLOCK FALSE
