CONSTANTS
  c0 = c0
  c1 = c1
  NoCPU = NoCPU
  BootCPU = c0
  CPU = {c0, c1}
  NENV = 4
  NGEN = 1
  NINIT = 4
  Calls = {"yield", "recv", "send"}
  Devices = {"kbd", "spurious"}
  Careful = {"destroy", "set_status", "set_trapframe"}
SPECIFICATION FairSpec
PROPERTIES
  NoStarvation
CHECK_DEADLOCK FALSE
