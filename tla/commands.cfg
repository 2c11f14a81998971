SPECIFICATION MCSpec
CONSTANTS
  eth0 = eth0
  NoDev = NoDev
  a1 = a1
  a2 = a2
  t1 = t1
  t2 = t2
  None = None
  Garbled = Garbled
  Statuses <- AllStatuses
  Devs = {eth0}
  Addrs = {a1, a2}
  Times = {t1, t2}
  MaxSocks = 2
  Used <- AllCmds
INVARIANTS
  
  DateOwn
  VerdictOwn
  StaleReplyCause
  MediaMended
