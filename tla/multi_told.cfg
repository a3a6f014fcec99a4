CONSTANTS
  Dials <- Ias
  Buttons <- NoButtons
  SimVals <- IasVals
  Limit = 2
  Commands <- IasUp
  Unheard <- Ias
  Switches <- BothSwitchesOn
SPECIFICATION SpecIas
PROPERTIES
  ThingsFollow
CHECK_DEADLOCK FALSE
