SPECIFICATION FlushSpec
CONSTANTS
  Calls = {c1}
  Pages = {p1, p2}
INVARIANT
  DocumentedLevel
CHECK_DEADLOCK FALSE
