SPECIFICATION Spec
CONSTANTS
  PAGE_SIZE = 2
  MaxPage = 8
  USABLE = usable
  KERNEL = kernel
  MmapTypes <- MCMmapTypes
  BootInfos <- SingleInfos
  Counts <- Single
  UsedRanges <- None
  MaxHolders = 2
  Writes <- Zeroed
  WORD = 64
INVARIANTS
  HeldExclusively
  PagesConserved
  SafeOutOfReach
PROPERTIES
  ImplementsAllocator
