SPECIFICATION FairSpec
CONSTANTS
  j1 = j1
  j2 = j2
  s1 = s1
  s2 = s2
  NoJob = NoJob
  Jobs <- OneJob
  Slots <- TwoSlots
  Concurrency = 1
  Retries = 2
PROPERTY FailuresRunOut
