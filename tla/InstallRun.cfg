CONSTANTS
    Proc = {p1, p2}
    Dead = Dead
    None = None
    MaxLive = 2
    Rows <- MCRows
    SurfaceOf <- MCSurfaceOf
    NSource = 2
    Faults = 1
SPECIFICATION Spec
CHECK_DEADLOCK FALSE
SYMMETRY Symmetry
INVARIANTS AtMostOneOwner TerminalHonest
PROPERTIES InterruptedWorkInspected NeverNeither
