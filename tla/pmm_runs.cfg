SPECIFICATION Spec
CONSTANTS
  PAGE_SIZE = 2
  MaxPage = 5
  USABLE = usable
  KERNEL = kernel
  MmapTypes <- MCMmapTypes
  BootInfos <- RunInfos
  Counts <- Runs
  UsedRanges <- RunRanges
  MaxHolders = 2
  Writes <- Clear
  WORD = 4
INVARIANTS
  LoopAgrees
  GrantsInMemory
PROPERTIES
  GrantFollowsFreeRun
