CONSTANTS
  Radios <- BothRadios
  Thresh = 2
  Word = 8
  Places = 6
  Freqs <- TwoFreqs
  Limit = 2
  Reports <- KnobReports
  Keys <- FlipCom1
  Unheard <- NoneUnheard
SPECIFICATION SpecTwoEach
INVARIANTS
  ActiveAgrees
  LitLinesCurrent
PROPERTIES
  ActivesFollow
CHECK_DEADLOCK FALSE
