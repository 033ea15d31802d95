SPECIFICATION FairSpec
CONSTANTS
  Ids = {i1, i2}
  Jobs = {j1, j2}
  NoId = NoId
  NoJob = NoJob
  Chunks = 2
CONSTRAINT FirstId
INVARIANTS
  PauseLetsOneThrough
  CompletedIsEarned
  NoWorkerOutlives
PROPERTY
  DestructorReturns
CHECK_DEADLOCK FALSE
