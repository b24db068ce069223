SPECIFICATION DevicesSpec
CONSTANTS
  Rows = 2
  Lines = 3
  Cols = 2
  Lens = {1, 2}
  Indices = {0, 1}
  Entries = 2
  Palettes <- MCPalettes
  DefaultPalette <- MCDefault
  CrtcIndices = {0, 1}
  CrtcValues = {0, 1}
  NR_CRTC = 2
  BlockSize = 4
  StreamSize = 3
  NBlocks = 3
INVARIANTS CleanLinesAreShown PaletteLoaded CrtcReadsRegister FillsTheIdleChunk
PROPERTIES ImplementsDisplay ImplementsSoundQueue SoundStaysOn
