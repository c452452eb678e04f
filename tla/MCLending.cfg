CONSTANTS
  p1 = p1
  p2 = p2
  Places = {p1, p2}
  Home = p1
  Sites <- MCSites
  Lapses = {"return call", "leave args"}
  MaxFrames = 2
  MaxBorn = 4
  MaxLoops = 1
  None = None
SPECIFICATION Spec
INVARIANTS TypeOK PointersLive TakesBackOwn SlotOwn
PROPERTY DroppedUnlessLapsed
CHECK_DEADLOCK FALSE
