SPECIFICATION FairSpec
CONSTANTS
  f1=f1 f2=f2 f3=f3 f4=f4 m1=m1 m2=m2 m3=m3 m4=m4 a1=a1 a2=a2 a3=a3
  t1=t1 t2=t2 t3=t3 t4=t4 c1=c1 c2=c2 c3=c3 c4=c4 r1=r1 r2=r2 d1=d1 w1=w1 w2=w2 u1=u1 u2=u2
  Fields <- OneField
  Vals = {0, 1}
  Keys <- OneKeys
  MaskVals <- OneMasks
  Ids = {NULL}
  FlowObj = {f1}
  MaskObj = {m1}
  ArrObj = {a1}
  TiObj = {t1, t2}
  ActObj = {c1, c2}
  Cpus = {r1}
  Dumpers = {}
  Threads = {w1}
  Commands = {"new", "set", "del", "flush"}
  StartIndexes = {1}
  MASK_ARRAY_SIZE_MIN = 1
  TBL_MIN_BUCKETS = 1
  MAX_REF = 1
  NULL = NULL
INVARIANTS
  LookupRight
PROPERTIES
  GraceEnds
  MutexReleased
