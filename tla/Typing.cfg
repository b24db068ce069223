SPECIFICATION Spec
CONSTANTS
  Letters = {a, b}
  Other = Other
  SIZE = 3
  Null = Null
  Bottom = 3
  Rise = 2
  Period = 2
  MaxOwed = 1
INVARIANTS WaitsWithInterruptsOn ListsShareThePool PoolLasts
PROPERTIES StruckByItsOwnPress GamePlays
