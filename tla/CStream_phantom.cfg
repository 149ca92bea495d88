CONSTANTS
  MaxLen = 4
  BlockSize = 5
  Lengths = {0, 1, 2, 5, 9}
  MaxPackets = 2

SPECIFICATION Spec

INVARIANTS
  ReceivedWasSent
