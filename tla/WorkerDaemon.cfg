SPECIFICATION DFairSpec
CONSTANTS
  j1 = j1
  j2 = j2
  s1 = s1
  s2 = s2
  s3 = s3
  NoJob = NoJob
  Jobs <- TwoJobs
  Slots <- ThreeSlots
  Serves <- TheServes
  Kind <- TheKind
  NumWorkers = 2
  Concurrency = 3
  Retries = 1
INVARIANTS
  DTypeOK
  NothingCutOff
PROPERTIES
  StopsWhenAsked
  RecoversJobs
