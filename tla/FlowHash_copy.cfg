SPECIFICATION FairSpec
CONSTANTS
  f1=f1 f2=f2 f3=f3 i1=i1 i2=i2 i3=i3 k1=k1 k2=k2 k3=k3 r1=r1
  FlowObj = {f1, f2, f3}
  TiObj = {i1, i2}
  Keys = {k1, k2, k3}
  KeyOf <- OwnKeys
  Seeds <- Growing
  Cpus = {r1}
  TBL_MIN_BUCKETS = 1
  MAX_BUCKETS = 4
  MAX_COPIES = 1
  NULL = NULL
INVARIANTS
  ChainsInv
  FullLookup
PROPERTIES
  LookupEnds
