CONSTANTS
  a = a
  b = b
  s = s
  X = X
  Y = Y
  Z = Z
  Names = {a, b, s}
  Types = {X, Y, Z}
  Parts = {"left", "right"}
  Groups <- MCStraight
  MaxDepth = 4
SPECIFICATION Spec
INVARIANTS TypeOK NoAliasing ParametersKept
CHECK_DEADLOCK FALSE
