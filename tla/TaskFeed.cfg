SPECIFICATION FFairSpec
CONSTANTS
  t1 = t1
  r1 = r1
  q1 = q1
  q2 = q2
  NoTask = NoTask
  Tasks <- OneTask
  Requests <- OneRequest
  Queries <- TwoQueries
INVARIANTS
  TypeOK
  FTypeOK
  SuccessIsTrue
PROPERTIES
  ShownTasksAreDecided
  PageCatchesUp
