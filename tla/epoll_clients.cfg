SPECIFICATION Spec
CONSTANTS
  c1 = c1
  c2 = c2
  w1 = w1
  w2 = w2
  None = None
  Listen = Listen
  Conns = {c1, c2}
  Workers = {w1, w2}
  PoolQueue = 1
  QueueSize = 2
  ReadMax = 2
  MaxSent = 2
  MaxOutstanding = 1
  Hasty = TRUE
  Leavings = {"reset"}
SYMMETRY Interchangeable
INVARIANTS
  TypeOK
  AcceptFinds
  AnsweredOnce
  
CHECK_DEADLOCK FALSE
