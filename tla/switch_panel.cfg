CONSTANTS
  LightOrder <- OneLight
  Limit = 2
  Reports <- SomeReports
  Levels = 0
  Planes <- SomePlanes
  Unheard <- GearAndLight
SPECIFICATION SpecCold
INVARIANTS
  TypeOK
  LightsFollow
  GearLedAgrees
  EnginesFollow
PROPERTIES
  ControlsFollow
CHECK_DEADLOCK FALSE
