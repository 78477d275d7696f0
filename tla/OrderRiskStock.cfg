SPECIFICATION FairSpec
CONSTANTS
  MaxCharges = 2
  Starts <- FewStarts
CHECK_DEADLOCK FALSE
PROPERTY OutOfStockEnds
