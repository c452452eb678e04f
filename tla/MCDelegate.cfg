CONSTANTS
  None = None
  P = P
  Q = Q
  vec = vec
  byte = byte
  one = one
  two = two
  static = static
  get = get
  put = put
  len = len
  Cases <- MCCases
SPECIFICATION Spec
INVARIANTS TypeOK Complete TrueSignatures FailsRightly
