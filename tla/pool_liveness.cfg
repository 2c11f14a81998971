SPECIFICATION FairSpec
CONSTANTS
  w1 = w1
  w2 = w2
  t1 = t1
  t2 = t2
  c1 = c1
  c2 = c2
  None = None
  Workers = {w1, w2}
  Callers = {c1, c2}
  Creator = c1
  Destroyers = {c2}
  Tasks = {t1, t2}
  QueueSize = 2
  MaxSpurious = 1
PROPERTIES
  AcceptedRuns
  DestroyReturns
CHECK_DEADLOCK FALSE
