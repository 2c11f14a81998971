SPECIFICATION Spec
CONSTANTS
  w1 = w1
  w2 = w2
  w3 = w3
  t1 = t1
  t2 = t2
  t3 = t3
  c1 = c1
  c2 = c2
  None = None
  Workers = {w1, w2, w3}
  Callers = {c1, c2}
  Creator = c1
  Destroyers = {c1, c2}
  Tasks = {t1, t2, t3}
  QueueSize = 2
  MaxSpurious = 1
SYMMETRY Interchangeable
INVARIANTS
  TypeOK
  NoIdleWorker
  StartedExact
  FreedQuiet
  GracefulDrained
PROPERTY
  PoolPromise
CHECK_DEADLOCK FALSE
