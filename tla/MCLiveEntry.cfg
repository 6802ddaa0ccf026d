SPECIFICATION Spec
CONSTANTS
  MaxTrade = 2
  MaxOpen = 3
  DailyLimit = 3
  MaxLosses = 2
  WindowLen = 2
  TailLen = 1
  StaleAfter = 2
  Retention = 1
  DayLen = 2
  Payout = 3
  MaxAttempts = 2
  MaxTick = 3
  MaxPaper = 1
  MaxRows = 2
INVARIANTS
  Inv
  OneLivePositionPerWindow
  NoUnaccountedOrder
  OnlyLastAmbiguous
  FillBookedOnce
  SettledTogether
  ExposureCapped
  DayBudgetKept
PROPERTIES
  ImplementsGuard
  NoPostWhileUnreconciled
