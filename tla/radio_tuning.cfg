CONSTANTS
  Radios <- OnlyCom1
  Thresh = 2
  Word = 5
  Places = 4
  Freqs <- TwoFreqs
  Limit = 2
  Reports <- TuneReports
  Keys <- NoKeys
  Unheard <- Com1Stdby
SPECIFICATION SpecTuning
INVARIANTS
  TypeOK
  DriftIsOneStep
  LitLinesCurrent
CHECK_DEADLOCK FALSE
