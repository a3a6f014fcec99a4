CONSTANTS
  Dials <- AltVs
  Buttons <- OneButton
  SimVals <- AltVsVals
  Limit = 1
  Commands <- AltVsCommands
  Unheard <- NoneUnheard
  Switches <- OnlyBatteryOn
SPECIFICATION SpecAltVs
INVARIANTS
  TypeOK
  ReadoutAgrees
  ButtonsAgree
CHECK_DEADLOCK FALSE
