CONSTANTS
  a = a
  b = b
  s = s
  X = X
  Y = Y
  Z = Z
  Names = {a, b, s}
  Types = {X, Y, Z}
  Parts = {"left", "right"}
  Groups <- MCCrossing
  MaxDepth = 3
SPECIFICATION Spec
INVARIANT ParametersKept
CHECK_DEADLOCK FALSE
