CONSTANTS
  Size = 2
  NBytes = 3
  Chunk = 2
  NDups = 2
  NTraps = 2
SPECIFICATION Spec
INVARIANTS
  EofMeansDrained
CHECK_DEADLOCK FALSE
