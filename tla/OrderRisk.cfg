SPECIFICATION FairSpec
CONSTANTS
  MaxCharges = 2
  Starts <- AllStarts
CHECK_DEADLOCK FALSE
INVARIANTS
  TypeOK
  ChargedOnlyIfCleared
  JoinWaitsForBoth
  BranchesKept
PROPERTIES
  DecisionIsTheTable
  ImplementsLifecycle
  InStockEnds
