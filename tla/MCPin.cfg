CONSTANTS
  d1 = d1
  d2 = d2
  b1 = b1
  b2 = b2
  b3 = b3
  Values = {d1, d2}
  Buffers = {b1, b2, b3}
  CHUNK = 2
  MaxLen = 5
  None = None
SPECIFICATION Spec
INVARIANTS TypeOK LenIsCount
PROPERTIES NeverMoves OperationsEnd Implements
CHECK_DEADLOCK TRUE
