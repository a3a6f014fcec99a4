CONSTANTS
  Panels <- TwoPanels
  OpenOrder <- RadioFirst
  EnableOrder <- MultiFirst
  Plugged <- AnyOfTwo
  Limit = 1
  Reports <- NoReports
  HandlerPosts <- OneOfTwo
  EventPosts <- NoEvents
  SleepOutlasts = FALSE
SPECIFICATION Spec
INVARIANTS
  AwakeWhenEnabled
  ParkedWhenDisabled
  AbsentNeverServed
  BlockedPostHasConsumer
CHECK_DEADLOCK FALSE
