CONSTANTS
    Bodies <- LateBodies
    MaxTurns = 1
SPECIFICATION Spec
INVARIANT SameOrder
