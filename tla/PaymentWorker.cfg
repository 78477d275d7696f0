SPECIFICATION PFairSpec
CONSTANTS
  j1 = j1
  s1 = s1
  s2 = s2
  NoJob = NoJob
  Jobs <- OneJob
  Slots <- TwoSlots
  Concurrency = 2
  Retries = 2
  FailureThreshold = 2
  RecoveryTimeout = 1
  SuccessThreshold = 2
INVARIANT EndsOnlyAsHandled
PROPERTIES
  GatedPayments
  SettlesBehindBreaker
