SPECIFICATION FairSpec
CONSTANTS
  Handlers = {h1, h2}
  Jobs = {j1, j2, j3}
  NoJob = NoJob
  NoHandler = NoHandler
  Rounds = 2
INVARIANTS
  
  CompletedIsUncut
PROPERTIES
  StoppedMeansOver
  FollowsLifecycle
  JobEnds
  HandlersReturn
CHECK_DEADLOCK FALSE
