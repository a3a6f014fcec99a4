CONSTANTS
  Panels <- OnePanel
  OpenOrder <- RadioOnly
  EnableOrder <- RadioOnly
  Plugged <- OneIn
  Limit = 2
  Reports <- ShortReports
  HandlerPosts <- OnePost
  EventPosts <- OneEvents
  SleepOutlasts = TRUE
SPECIFICATION FairSpec
INVARIANTS
  TypeOK
  LeftoverIsOneReport
  NoUseAfterClose
PROPERTIES
  CleanEnable
  StopEndsThreads
  MainReturns
  QueuesRelieved
CHECK_DEADLOCK FALSE
