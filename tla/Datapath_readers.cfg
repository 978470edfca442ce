SPECIFICATION Spec
CONSTANTS
  d1=d1 d2=d2 v1=v1 v2=v2 v3=v3 e1=e1 e2=e2 e3=e3 n1=n1 n2=n2 n3=n3 A=A B=B t1=t1 t2=t2 r1=r1 w1=w1
  Dps = {d1}
  Vports = {v1, v2}
  Devs = {e1, e2}
  PortNos = {0, 1}
  OVSP_LOCAL = 0
  Names = {n1, n2}
  Nets = {A, B}
  Types = {"netdev", "internal"}
  Loaded = {"netdev", "internal"}
  Headroom <- E2Headroom
  Threads = {t1}
  Readers = {r1}
  Worker = w1
  Commands = {"dp_new", "dp_del", "vport_new", "vport_del"}
  Events = {"register", "unregister", "rename", "move_internal", "exit_net"}
  NULL = NULL
SYMMETRY Symmetry
CHECK_DEADLOCK FALSE
INVARIANTS
  ReadersSafe
  NetExitClean
  HeadroomCovers
