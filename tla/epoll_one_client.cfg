SPECIFICATION FairSpec
CONSTANTS
  c1 = c1
  w1 = w1
  w2 = w2
  None = None
  Listen = Listen
  Conns = {c1}
  Workers = {w1, w2}
  PoolQueue = 2
  QueueSize = 3
  ReadMax = 2
  MaxSent = 6
  MaxOutstanding = 1
  Hasty = FALSE
  Leavings = {"closed"}
PROPERTIES
  Answered
  Forgotten
CHECK_DEADLOCK FALSE
