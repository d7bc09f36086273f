SPECIFICATION Spec
CONSTANTS
  PAGE_SIZE = 3
  USABLE = usable
  KERNEL = kernel
  MmapTypes <- MCMmapTypes
  Structs <- MCStructs
  Garbage = garbage
  LIMIT_MEMORY_MAP_SIZE = 4
INVARIANTS
  ReportedAreUnknown
