CONSTANTS
  MaxCalls = 3
  Size = 3
  ReadSizes = {1, 2, 5}

SPECIFICATION FairSpec

INVARIANTS
  TypeOK
  PacketsWhole

PROPERTIES
  KeepsPromise
  CallReturns
  VmFollowsClient
