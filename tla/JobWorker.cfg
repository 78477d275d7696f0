SPECIFICATION BSpec
CONSTANTS
  j1 = j1
  s1 = s1
  s2 = s2
  s3 = s3
  NoJob = NoJob
  Jobs <- OneJob
  Slots <- ThreeSlots
  Concurrency = 2
  Retries = 3
  Expiries = 3
  Word = 16
  Environments <- SomeEnvironments
SYMMETRY Symmetry
INVARIANTS
  TypeOK
  EndJustified
  RetriesPaidFor
  RetriesAreSpent
  WaitsAsFailed
