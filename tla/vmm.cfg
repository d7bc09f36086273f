SPECIFICATION Spec
CONSTANTS
  PAGE_SIZE = 2
  USABLE = usable
  KERNEL = kernel
  RESERVED = reserved
  MmapTypes <- MCMmapTypes
  BootInfos <- MCBootInfos
  W = 2
  Pool <- MCPool
  LowPages = 2
  MEM_PHYS_OFFSET = 8
  kernel_virtual_start = 9
  Window <- MCWindow
  FreeRanges <- MCFreeRanges
  MaxSpaces = 2
INVARIANTS
  TypeOK
  TablesAreTrees
  DirectMapHolds
PROPERTIES
  ImplementsSpaces
