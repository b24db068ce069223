CONSTANTS
  NR_BP = 3
  NAddr = 3
  Handler = 2
  Breaks = {1}
  Vals = {0, 1}
  MaxSteps = 2
  RunsOut = TRUE
  Duplicates = FALSE
  Watches = TRUE
  None = None
SPECIFICATION StopsSpec
INVARIANTS PoolIsShared CodeIsKept ListedIsArmed
PROPERTIES NotFoundIsTheGuests BreakpointsStop
CHECK_DEADLOCK FALSE
