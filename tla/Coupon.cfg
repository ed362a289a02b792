SPECIFICATION FairSpec
CONSTANTS
    Phones = {p1, p2}
    Ids = {1, 2}
    Stock = 1
    MaxLoads = 2
    MaxSwipes = 2
    MaxFaults = 1
    Unique = TRUE
INVARIANTS
    PaidDispense
    
    ChargedForSale
PROPERTIES
    PaidIsDispensed
CHECK_DEADLOCK FALSE
