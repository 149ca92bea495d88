CONSTANTS
  MaxCalls = 5
  HasherType = {Sha256, CkbBlake2b}
  Data = {d1, d2}
  Sha256 = Sha256
  CkbBlake2b = CkbBlake2b
  d1 = d1
  d2 = d2

SPECIFICATION Spec
INVARIANTS
  TypeOK
  ReplyFitsView
  ServiceFitsView
