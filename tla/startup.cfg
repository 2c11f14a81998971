SPECIFICATION FairSpec
CONSTANTS
  Attribute = "A"
  Values <- MCValues
  Files <- MCFiles
  LineMax = 5
  Requests = {"r1", "r2"}
  ProtocolOf <- MCProtocolOf
  CommandOf <- MCCommandOf
  QueueSize = 3
  None = None
  MaxBoots = 2
INVARIANTS
  Recorded
  OthersKept
  PrefixKept
  RefusedOnlyEarly
PROPERTIES
  MainSettles
  
CHECK_DEADLOCK FALSE
