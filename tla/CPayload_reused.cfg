CONSTANTS
  r1 = r1
  r2 = r2
  Slot <- MCSlot
  BlockCount = 4
  FlagBits = 5
  IntBits = 3
  Clears = FALSE

SPECIFICATION Spec
INVARIANT NoSharedBlock
