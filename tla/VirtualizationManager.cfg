SPECIFICATION FairSpec
CONSTANTS
  Threads = {t1, t2}
  NoThread = NoThread
  Adapters = {1, 2}
  NoAdapter = NoAdapter
  Hosts = {h1}
  Operations = {"power_off", "remove_snapshot", "backup_vm"}
INVARIANTS
  UseAfterFreeNeedsRemoval
  SessionsAreClosed
  TrueMeansDone
PROPERTY
  LockIsReleased
CHECK_DEADLOCK FALSE
