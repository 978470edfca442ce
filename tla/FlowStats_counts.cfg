SPECIFICATION FairSpec
CONSTANTS
  p1 = p1 p2 = p2
  NR_CPUS = 2
  Procs = {p1, p2}
  MAX_PACKETS = 2
CHECK_DEADLOCK FALSE
INVARIANTS
  StatsInv
  ReportsRight
PROPERTIES
  NobodySpinsForever
