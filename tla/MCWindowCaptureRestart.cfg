SPECIFICATION Spec
CONSTANTS
  None = None
  Feed = {"binance"}
  WindowLen = 3
  Grace = 1
  Lookback = 1
  TwapMaxAge = 2
  RtdsMaxAge = 2
  BinanceMaxAge = 1
  Ahead = 1
  Delay = 1
  MaxTick = 6
PROPERTIES
  OpenOnce
