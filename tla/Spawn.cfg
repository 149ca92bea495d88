CONSTANTS
  MaxAttempt = 4
  Setup = "iobuf"
  Memory = 6
  AllOnes = 15
  BlockCount = 4
  FlagBits = 5
  IntBits = 4

SPECIFICATION Spec
INVARIANTS
  TypeOK
  Wired
  EnoughIoBlocks
PROPERTY ServersFollow
