SPECIFICATION Spec
CONSTANTS
    Callers = {c1, c2}
    Configs <- DefaultConfigs
    RequestBound = 9
    AdminBound = 0
SYMMETRY Symmetry
INVARIANTS
    NoDeadEnd
CHECK_DEADLOCK FALSE
