CONSTANTS
  big = big
  small = small
  Name = {big, small}
  NoName = NoName
  Zero = Zero
  Missing = Missing
  BLKSIZE = 2
  BLKFILES = 2
  NDIRECT = 1
  NINDIRECT = 2
  NBLOCKS = 7
  Sizes <- MCSizes
  Offsets <- MCOffsets
  Counts = {4}
  MaxCrash = 0
SPECIFICATION Spec
INVARIANTS
  BlocksOwned
CHECK_DEADLOCK FALSE
