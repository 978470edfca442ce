SPECIFICATION FairSpec
CONSTANTS
  d1=d1 d2=d2
  Dps = {d1, d2}
  Skbs = {1, 2, 3, 4, 5, 6}
  ActLists <- Lists
  Flows <- Everything
  OVS_RECURSION_LIMIT = 3
  OVS_DEFERRED_ACTION_THRESHOLD = 2
  DEFERRED_ACTION_FIFO_SIZE = 3
INVARIANTS
  LevelInv
  SkbsOwned
  KeyDescribesPacket
PROPERTIES
  PacketDone
