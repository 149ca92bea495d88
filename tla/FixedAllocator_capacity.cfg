CONSTANTS
  BlockCount = 10
  FlagBits = 10
  IntBits = 8

SPECIFICATION Spec
INVARIANT FullOnlyAtBlockCount
