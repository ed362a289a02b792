SPECIFICATION Spec
CONSTANTS
    Conns = {c1, c2}
    MaxClock = 2
    None = None
INVARIANTS
    AddresseeOnly
CHECK_DEADLOCK FALSE
