SPECIFICATION PartSpec
CONSTANTS
  Packets <- MCPackets
  IN_PORT = 1
  MaskKinds <- MCMaskKinds
  ActionLists <- MCActionLists
  MAX_PASSES = 2
  CPUs = {1, 2}
  Portids = {1, 2}
  ActionIds = {1}
  IdLists <- MCIdLists
  Hashes = {0, 1}
  Kinds = {"plain", "udp"}
  MAX_PACKETS = 2
  MAX_LISTS = 2
CHECK_DEADLOCK FALSE
INVARIANTS
  EchoInstalls
  DumpRestores
  ActionsFit
  KeyUpToDate
  RightSocket
  SegmentsInOrder
