CONSTANTS
  a = a
  b = b
  c = c
  d = d
  old = old
  was = was
  None = None
  Bad = Bad
  Names = {a, b, c, d}
  SuffixNames = {old, was}
  Scopes <- MCMethods
SPECIFICATION Spec
INVARIANT CallsKeepTheirMeaning
