SPECIFICATION FairSpec
CONSTANTS
  MaxCharges = 2
  Starts <- AllStarts
CHECK_DEADLOCK FALSE
INVARIANTS
  TypeOK
  LargeChargeApproved
  ChargedAsOrdered
PROPERTIES
  ImplementsLifecycle
  ValidOrderEnds
