CONSTANTS
    Bodies <- MCBodies
    MaxTurns = 2
SPECIFICATION Spec
INVARIANTS
    TypeOK
    SameOrder
    SameOperands
    CutCarriesValues
