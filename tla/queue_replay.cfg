SPECIFICATION Spec
CONSTANTS
  p1 = p1
  p2 = p2
  k1 = k1
  k2 = k2
  k3 = k3
  None = None
  Producers = {p1, p2}
  Cmds = {k1, k2, k3}
  QueueSize = 3
  MaxTaken = 6
SYMMETRY Interchangeable
INVARIANT
  NoReplay
CHECK_DEADLOCK FALSE
