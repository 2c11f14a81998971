SPECIFICATION Spec
CONSTANTS
  w1 = w1
  w2 = w2
  get_cmd = get_cmd
  Workers = {w1, w2}
  GetCmd = get_cmd
  Lines <- MCLines
  Addresses <- MCAddresses
  Code <- MCCode
  Number <- MCNumber
  Space = " "
  Dot = "."
  Nul = "nul"
  Junk = "junk"
  MaxRuns = 3
  MaxBusy = 2
SYMMETRY Interchangeable
INVARIANTS
  
  TornOnlyWhenCrossed
CHECK_DEADLOCK FALSE
