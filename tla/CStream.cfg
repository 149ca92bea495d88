CONSTANTS
  MaxLen = 4
  BlockSize = 5
  Lengths = {0, 1, 2, 5, 9}
  MaxPackets = 3

SPECIFICATION FairSpec

INVARIANTS
  TypeOK
  Framing
  NoFalseEnd

PROPERTIES
  AllArrive
