SPECIFICATION PartSpec
CONSTANTS
  z=z k1=k1 k2=k2 k3=k3 c1=c1 c2=c2
  Flows = {z, k1, k2, k3}
  ZeroKey = z
  W = 2
  D = 2
  Hash <- ShareZero
  Values = {1, 3}
  MAX_TRAFFIC = 10
  Sampled = {k1, k2, k3}
  Cpus = {c1, c2}
  MAX_RACES = 2
  MAX_CONNS = 2
  MAX_CALLBACKS = 2
  PACKETS = {p1, p2}
  DRIVERS = {"vxlan4", "vxlan6", "geneve4", "geneve6", "lisp", "gre", "stt"}
  MAX_SEGS = 2
  MAX_SOCKS = 2
  LOOKUP_NET = TRUE
  d1=d1 d2=d2 s1=s1 s2=s2 s3=s3 s4=s4 s5=s5 p1=p1 p2=p2 n1=n1 n2=n2 NONE=NONE
CHECK_DEADLOCK FALSE
INVARIANTS
  SketchInv
  QueryBounds
  TrafficInv
  
  TunnelsInv
  XmitInv
  SttInv
  ConntrackInv
PROPERTIES
  ImplementsCountMax
