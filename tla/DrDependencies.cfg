SPECIFICATION Spec
CONSTANTS
  Calls = {c1}
  Plans <- MCBackwards
  NoPlan = NoPlan
  NoRun = NoRun
  NoCall = NoCall
  MaxTime = 0
  db = db
  app = app
INVARIANT
  DependenciesFirst
CHECK_DEADLOCK FALSE
