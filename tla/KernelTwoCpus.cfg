CONSTANTS
  c0 = c0
  c1 = c1
  NoCPU = NoCPU
  BootCPU = c0
  CPU = {c0, c1}
  NENV = 3
  NGEN = 1
  NINIT = 2
  Calls = {"exofork", "set_status"}
  Devices = {}
  Careful = {"destroy"}
SPECIFICATION Spec
INVARIANTS
  OneCpuPerEnv
CHECK_DEADLOCK FALSE
