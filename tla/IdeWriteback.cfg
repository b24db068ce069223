CONSTANTS
  Radix = 2
  NR_SEC_CACHE = 2
  SectorWords = 2
  WritebackTicks = 2
  TickLimit = 2
  Data <- MCBlank
  Zero <- MCZero
  Image <- MCBlankImage
  Accessed <- Sectors
  Written <- MCBlank
  Writable = FALSE
  NoReq = NoReq
SPECIFICATION Spec
INVARIANT CountInSector
PROPERTY SpinsOnlyInsideAWrite
CHECK_DEADLOCK FALSE
