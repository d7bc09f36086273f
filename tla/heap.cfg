SPECIFICATION Spec
CONSTANTS
  ALIGNMENT = 2
  ALIGN_INFO = 2
  MAJOR = 3
  MINOR = 4
  l_pageSize = 8
  l_pageCount = 3
  UINT = 64
  Arenas <- MCArenas
  Requests <- MCRequests
INVARIANTS
  MinorsApart
  UsageExact
  MajorsInUse
  OutgrowsOnlyHuge
PROPERTIES
  NoNeedlessMajor
  ImplementsBlocks
