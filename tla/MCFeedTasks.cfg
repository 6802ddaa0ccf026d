SPECIFICATION FeedTasks
CONSTANTS
  QueueLen = 2
  BatchLen = 2
  MaxFrames = 5
  None = None
  ResubAfter = 2
  ReconnectAfter = 5
  SendMax = 1
INVARIANTS
  GapsMarked
  SilenceBounded
PROPERTIES
  EscalatesInOrder
  TwapRecovers
