SPECIFICATION FairSpec
CONSTANTS
  loop = loop
  worker = worker
  get_cmd = get_cmd
  None = 0
  Fds <- MCFds
  Loop = loop
  Deleters = {worker, get_cmd}
  MaxConnect = 3
  MaxDels = 3
INVARIANTS
  TypeOK
  ListIsMembers
  DriftBounded
  OverrunCause
PROPERTY
  DelEnds
CHECK_DEADLOCK FALSE
