SPECIFICATION FlushSpec
CONSTANTS
  Calls = {c1, c2}
  Pages = {p1, p2, p3}
SYMMETRY Symmetry
INVARIANTS
  FlushedIsWritten
  LevelIsEarned
CHECK_DEADLOCK FALSE
