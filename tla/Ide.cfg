CONSTANTS
  Radix = 2
  NR_SEC_CACHE = 2
  SectorWords = 2
  WritebackTicks = 2
  TickLimit = 1
  Data <- MCData
  Zero <- MCZero
  Image <- MCImage
  Accessed <- MCPair
  Written <- MCWrites
  Writable = TRUE
  NoReq = NoReq
SPECIFICATION FairSpec
INVARIANT CleanLinesMatchDisk
PROPERTY ImplementsStore
