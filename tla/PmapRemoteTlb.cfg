CONSTANTS
  c0 = c0
  c1 = c1
  e0 = e0
  e1 = e1
  p1 = p1
  p2 = p2
  p3 = p3
  p4 = p4
  p5 = p5
  None = None
  CPU = {c0, c1}
  Env = {e0, e1}
  Page = {p1, p2, p3, p4, p5}
  First = e0
  NVA = 3
  PerTable = 2
  Perms <- ReadOrWrite
  Careful = FALSE
SPECIFICATION Spec
INVARIANTS
  TlbFresh
CHECK_DEADLOCK FALSE
