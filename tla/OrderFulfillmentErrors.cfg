SPECIFICATION Spec
CONSTANTS
  MaxCharges = 2
  Starts <- AllStarts
CHECK_DEADLOCK FALSE
INVARIANT BusinessErrorsCaught
