SPECIFICATION Spec
CONSTANTS
  Calls = {c1, c2}
  Plans <- MCPlans
  NoPlan = NoPlan
  NoRun = NoRun
  NoCall = NoCall
  MaxTime = 1
  db = db
  app = app
SYMMETRY Symmetry
INVARIANTS
  LastRunIsRecorded
PROPERTIES
  EntriesStay
CHECK_DEADLOCK FALSE
