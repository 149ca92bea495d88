CONSTANTS
  Width = 5
  Group = 2
  MaxStream = 4

SPECIFICATION Spec
INVARIANTS
  TypeOK
  Agreement
PROPERTY RoundTrip
