SPECIFICATION MCSpec
CONSTANTS
  None = None
  One = 20
  Ticks = {1, 2}
  RateUnit = 10
  Lot = 2
  MaxAge = 1
  RtdsStale = 2
  MinDepth = 3
  EntryFrom = 4
  EntryTo = 1
  MinAge = 2
  WindowLen = 6
  HistoryWindow = 3
  RiseFloor = 1
  Cadence = 2
  Cooldown = 2
  MaxAttempts = 2
  MaxDelay = 2
  MaxTime = 12
  MinQuote = 1
  MaxSecs = 3
  QuoteMaxAge = 1
  MinSpan = 2
  MinSamples = 2
  Unset = Unset
  Garbled = Garbled
  Default <- MCDefault
  GarbledTrend = 20
  MostSlippage = 3
  MinShares = 2
  Cadences = {0, 1, 2}
  HalfSpreads = {1, 2}
  Inputs <- MCInputs
  Views <- MCViews
  Cfg <- MCCfg
INVARIANTS
  RiseTimeKnown
  SeriesUnspliced
  SignalLogComplete
  EntriesPlaceable
  CostsCovered
  BuffersSound
  CurvesSound
  QuotesNotArbitrable
