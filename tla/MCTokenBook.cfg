SPECIFICATION Spec
CONSTANTS
  Price = {1, 2}
  MaxSize = 1
  MaxVersion = 3
  MaxWire = 2
INVARIANTS
  BestPricesReal
  LadderExact
PROPERTIES
  NeverBack
