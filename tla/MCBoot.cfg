SPECIFICATION BootSpec
CONSTANTS
  PAGE = 2
  PAGE_SIZE = 2
  ENTRIES = 5
  LOWMEM = 4
  HALF = 3
  MaxEnd = 26
  WORD = 20
  Areas <- LowAreas
  MaxAreas = 2
  KernelEnd = 9
CHECK_DEADLOCK FALSE
INVARIANTS
  KernelMapped
  LowIdentity
  TmpEntryFree
  TablesOnly
  TypeOK
  ZonesAreAvailable
  ZonesFitAllocator
  LossIsReported
