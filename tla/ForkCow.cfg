CONSTANTS
  e0 = e0
  e1 = e1
  Env = {e0, e1}
  First = e0
  NVA = 4
  Shared = {1}
  ReadOnly = {0}
  Page = {0, 1, 2, 3, 4, 5, 6, 7, 8}
  LowMemory = TRUE
  Value = {0, 1}
  Zero = 0
SPECIFICATION Spec
VIEW View
INVARIANTS
  TypeOK
  WritableIsPrivate
  CowIsHandled
PROPERTIES
  ImplementsPrivateMemory
CHECK_DEADLOCK FALSE
