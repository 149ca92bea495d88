CONSTANTS
  MaxAttempt = 1
  Setup = "malloc"
  Memory = 6
  AllOnes = 15
  BlockCount = 4
  FlagBits = 5
  IntBits = 4

SPECIFICATION Spec
INVARIANT MallocIsEnough
