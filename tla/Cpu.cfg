SPECIFICATION CpuSpec
CONSTANTS
  Width = 3
  Half = 4
  DataHalf = 4
  IntHalf = 4
  ByteBase = 4
  ExpBits = 3
  FracBits = 2
  Loads <- MCLoads
  NR_REG = 2
  DividendBits = 10
INVARIANTS ComparisonsDecide LongArithmetic ResultsAreExact
PROPERTY ImplementsFloatStack
