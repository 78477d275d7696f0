SPECIFICATION HFairSpec
CONSTANTS
  c1 = c1
  c2 = c2
  c3 = c3
  Callers <- ThreeCallers
  FailureThreshold = 0
  RecoveryTimeout = 2
  SuccessThreshold = 2
INVARIANTS
  TypeOK
  CountersMatchState
  StreakBound
PROPERTIES
  TripsOnlyOnStreak
  ImplementsGate
  KeepsProbing
  Recovers
