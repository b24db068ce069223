SPECIFICATION Spec
CONSTANTS
  Base = 8
  Width = 3
  Numbers = {1, 6}
  Unary = {"!", "~", "-", "*"}
  Binary = {"*", "/", "-", "<<", "<", "==", "&", "^", "|", "&&", "||"}
  Memory <- MCMemory
  MaxTokens = 7
INVARIANT ValuesAreOfC
PROPERTY ReadableIsPrinted
