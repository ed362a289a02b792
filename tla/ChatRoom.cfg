SPECIFICATION Spec
CONSTANTS
    Conns = {c1, c2}
    MaxClock = 2
    None = None
SYMMETRY Symmetry
INVARIANTS
    ListedWhileOpen
    CastsDoNoHarm
PROPERTIES
    CastComplete
CHECK_DEADLOCK FALSE
