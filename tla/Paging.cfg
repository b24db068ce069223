SPECIFICATION Spec
CONSTANTS
  PAGE_SIZE = 2
  NR_PTE = 2
  NR_FRAMES = 6
  KMEM_FRAMES = 2
  VideoPages = {1}
  KOFFSET_PAGE = 10
  StackPages = 1
  TLB_SIZE = 2
  Programs <- MCPrograms
  MaxHeap = 18
  None = None
  Zero = Zero
INVARIANTS TlbAgrees FramesAreOwn ProgramIsLoaded AccessesCrossPages
