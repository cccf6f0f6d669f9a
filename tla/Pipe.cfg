CONSTANTS
  Size = 2
  NBytes = 3
  Chunk = 2
  NDups = 2
  NTraps = 2
SPECIFICATION FairSpec
INVARIANTS
  EofMeansClosed
  DataCountsAll
PROPERTIES
  ImplementsFifo
  BothEnd
CHECK_DEADLOCK FALSE
