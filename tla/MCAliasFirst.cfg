CONSTANTS
  p1 = p1
  p2 = p2
  Places = {p1, p2}
  Home = p1
  Sites <- AliasFirst
  Lapses = {}
  MaxFrames = 2
  MaxBorn = 4
  MaxLoops = 1
  None = None
SPECIFICATION Spec
INVARIANT TakesBackOwn
CHECK_DEADLOCK FALSE
