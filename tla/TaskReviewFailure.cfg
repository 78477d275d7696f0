SPECIFICATION Spec
CONSTANTS
  t1 = t1
  r1 = r1
  r2 = r2
  NoTask = NoTask
  Tasks <- OneTask
  Requests <- TwoRequests
PROPERTY RejectedMeansUntaken
