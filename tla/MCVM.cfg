SPECIFICATION MCSpec
CONSTANTS
  MAX_PID = 2
  MAX_VPN = 2
  MAX_PFN = 3
  Policy = {0, 1, 2, 3}
  Byte = {"A", "B"}
  InitByte = "A"
  UninitIPTE <- MCHeapIPTE
  UninitPFN = {5}
  MaxRequests = 6
INVARIANT TypeOK
INVARIANT MappingInv
INVARIANT CleanPageOnDisk
INVARIANT QueueInv
INVARIANT LRUStack
PROPERTY EvictionIsReplacement
PROPERTY FlatSpec
PROPERTY FIFOVictim
PROPERTY ClockSecondChance
PROPERTY ClockKeepsLoadOrder
CHECK_DEADLOCK FALSE
