CONSTANTS
  c0 = c0
  c1 = c1
  c2 = c2
  CPU = {c0, c1, c2}
  NoCPU = NoCPU
  Boot = c0
SPECIFICATION FairSpecSmp
INVARIANTS
  TypeSmp
  NoFalsePanic
  OwnStack
PROPERTIES
  ImplementsMutex
  SomeoneGetsIn
  BootEnds
