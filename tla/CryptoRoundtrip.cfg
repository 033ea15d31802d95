SPECIFICATION Spec
CONSTANTS
  Keys = {k1, k2}
  MaxLayers = 2
INVARIANT
  DecryptedIsData
CHECK_DEADLOCK FALSE
