SPECIFICATION FairSpec
CONSTANTS
  d1=d1 d2=d2 v1=v1 v2=v2 v3=v3 e1=e1 e2=e2 e3=e3 n1=n1 n2=n2 n3=n3 A=A B=B t1=t1 t2=t2 r1=r1 w1=w1
  Dps = {d1}
  Vports = {v1, v2}
  Devs = {e1, e2}
  PortNos = {0, 1}
  OVSP_LOCAL = 0
  Names = {n1, n2}
  Nets = {A}
  Types = {"netdev", "tunnel"}
  Loaded = {"netdev", "internal", "tunnel"}
  Headroom <- NoHeadroom
  Threads = {t1}
  Readers = {r1}
  Worker = w1
  Commands = {"dp_new", "vport_new", "vport_del"}
  Events = {"unregister"}
  NULL = NULL
PROPERTIES
  UnregisterCompletes
