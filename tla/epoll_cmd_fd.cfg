SPECIFICATION Spec
CONSTANTS
  c1 = c1
  c2 = c2
  w1 = w1
  w2 = w2
  None = None
  Listen = Listen
  Conns = {c1, c2}
  Workers = {w1, w2}
  PoolQueue = 2
  QueueSize = 3
  ReadMax = 2
  MaxSent = 1
  MaxOutstanding = 1
  Hasty = TRUE
  Leavings = {"closed", "reset"}
SYMMETRY Interchangeable
INVARIANT
  CmdFd
CHECK_DEADLOCK FALSE
