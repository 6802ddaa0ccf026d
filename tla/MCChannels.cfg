SPECIFICATION ChannelsSpec
CONSTANTS
  None = None
  CommandRoom = 1
  ResolutionRoom = 3
  MaxAttempts = 1
  Lag = 2
  MaxWindow = 5
  MaxOrders = 1
INVARIANTS
  NoCircularWait
PROPERTIES
  ResolutionHandled
