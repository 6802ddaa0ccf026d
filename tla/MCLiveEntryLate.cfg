SPECIFICATION Spec
CONSTANTS
  MaxTrade = 2
  MaxOpen = 3
  DailyLimit = 3
  MaxLosses = 2
  WindowLen = 2
  TailLen = 1
  StaleAfter = 3
  Retention = 1
  DayLen = 4
  Payout = 3
  MaxAttempts = 2
  MaxTick = 4
  MaxPaper = 1
  MaxRows = 2
PROPERTIES
  PostedInDecisionWindow
