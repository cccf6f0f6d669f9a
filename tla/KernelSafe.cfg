CONSTANTS
  c0 = c0
  c1 = c1
  NoCPU = NoCPU
  BootCPU = c0
  CPU = {c0, c1}
  NENV = 3
  NGEN = 1
  NINIT = 1
  Calls = {"exofork", "destroy", "yield", "set_status", "set_trapframe", "recv", "send", "cputs", "pgflt", "other"}
  Devices = {"serial"}
  Careful = {"destroy", "set_status", "set_trapframe"}
SPECIFICATION FairSpec
INVARIANTS
  TypeOK
  LockOwner
  HaltHandshake
  EnvOnCpu
  FreeListExact
  IdleMeansIdle
PROPERTIES
  ZombieFreedByOwnCpu
  ZombieReaped
CHECK_DEADLOCK FALSE
