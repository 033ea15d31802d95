SPECIFICATION FairSpec
CONSTANTS
  Sources <- MCSources
  NoSource = NoSource
  Chunk = 2
  Interval = 5
  MaxCrashes = 2
  MaxChanges = 1
INVARIANTS
  CheckpointIsCovered
  WholeMeansAll
  LossIsBounded
PROPERTIES
  TransferEnds
CHECK_DEADLOCK FALSE
