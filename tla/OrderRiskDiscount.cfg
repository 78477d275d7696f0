SPECIFICATION Spec
CONSTANTS
  MaxCharges = 2
  Starts <- FewStarts
CHECK_DEADLOCK FALSE
INVARIANT ChargesDiscounted
