SPECIFICATION FeedSpec
CONSTANTS
  None = None
  MaxWindow = 4
INVARIANTS
  FeedInv
  OwnBooks
PROPERTIES
  OwnResolution
  SubscribedInTheEnd
