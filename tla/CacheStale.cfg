CONSTANTS
  NTags = 2
  NSets = 2
  BlockSize = 2
  Lens = {1, 2}
  Byte = {0, 1}
  NWays = 1
  WritesCross = TRUE
SPECIFICATION Spec
PROPERTY ImplementsFlatMemory
