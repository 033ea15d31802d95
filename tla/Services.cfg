SPECIFICATION Spec
CONSTANTS
  MaxClients = 3
  Files = {f1, f2}
  Jobs = {j1, j2, j3}
  MaxChain = 2
  MaxDepth = 3
  MaxLength = 2
  BackupJobs = {b1, b2}
  MaxRows = 2
  MaxSeconds = 1
  Threads = {t1, t2}
  MinChunk = 2
  MaxChunk = 4
  MaxFile = 6
  Replications = {r1}
  Wrap = 4
  Disks = {3, 4}
  MaxHeld = 2
  Keys = {k1, k2}
  MaxLayers = 2
  ExtentIds = {e1, e2}
  Width = 4
  MaxExtents = 2
  MaxTurns = 3
  Totals = {1, 4}
  MaxRun = 3
  MaxExtras = 1
  Targets = {d1, d2}
INVARIANTS
  SuccessHasCopy
  AnswersHold
  MarkedWasRead
  NothingIsUncounted
  RequestIsKept
  
  OpenedIsOriginal
  WritesArePlaced
  ScansAreTold
PROPERTIES
  SignalEndsProcess
  VerdictIsEarned
CHECK_DEADLOCK FALSE
