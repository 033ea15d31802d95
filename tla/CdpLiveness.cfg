SPECIFICATION FairSpec
CONSTANTS
  Callers = {c1, c2}
  Sids = {s1}
  Objs = {o1, o2}
  NoSid = NoSid
  NoObj = NoObj
  NoCaller = NoCaller
  Interval = 1
  MaxBlocks = 1
PROPERTIES
  StopReturns
  ShutdownReturns
CHECK_DEADLOCK FALSE
