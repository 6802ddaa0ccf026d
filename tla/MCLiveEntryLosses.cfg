SPECIFICATION Spec
CONSTANTS
  MaxTrade = 1
  MaxOpen = 2
  DailyLimit = 3
  MaxLosses = 2
  WindowLen = 2
  TailLen = 1
  StaleAfter = 3
  Retention = 1
  DayLen = 4
  Payout = 2
  MaxAttempts = 1
  MaxTick = 4
  MaxPaper = 1
  MaxRows = 3
PROPERTIES
  PostWithinLimits
