CONSTANTS
  NTags = 3
  NSets = 1
  BlockSize = 2
  Lens = {1, 2}
  Byte = {0, 1}
  NWays = 2
  WritesCross = FALSE
SPECIFICATION Spec
INVARIANTS TagsUnique Coherent
PROPERTY ImplementsFlatMemory
