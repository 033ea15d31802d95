SPECIFICATION Spec
CONSTANTS
  Callers = {c1, c2}
  Sids = {s1, s2}
  Objs = {o1, o2}
  NoSid = NoSid
  NoObj = NoObj
  NoCaller = NoCaller
  Interval = 2
  MaxBlocks = 2
SYMMETRY Symmetry
INVARIANTS
  AbortNeedsRestart
  JoinedMeansDone
  NoJournalUseAfterClose
  
  JoinWaitsForItsOwnFlag
CHECK_DEADLOCK FALSE
