CONSTANTS
  big = big
  small = small
  extra = extra
  Name = {big, small, extra}
  NoName = NoName
  Zero = Zero
  Missing = Missing
  BLKSIZE = 2
  BLKFILES = 2
  NDIRECT = 1
  NINDIRECT = 2
  NBLOCKS = 7
  Sizes <- MCSizes
  Offsets <- MCOffsets
  Counts = {3}
  MaxCrash = 1
SPECIFICATION Spec
INVARIANTS
  TypeOK
  BlocksOwned
  NothingLost
PROPERTIES
  ImplementsFileStore
CHECK_DEADLOCK FALSE
