CONSTANTS
  a = a
  b = b
  f1 = f1
  f2 = f2
  NoFile = NoFile
  Nobody = Nobody
  Client = {a, b}
  Born = {a}
  File = {f1, f2}
  MAXOPEN = 2
  MAXFD = 2
  MaxOpens = 3
  Forgers = {b}
SPECIFICATION FairSpec
INVARIANTS
  FdNamesItsFile
  FullMeansFull
PROPERTIES
  StaleIdRefused
  Answered
CHECK_DEADLOCK FALSE
