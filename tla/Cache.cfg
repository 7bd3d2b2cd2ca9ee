SPECIFICATION Spec
CONSTANTS
    Clients = {c1, c2}
    Keys = {k1, k2}
    Matching = {k1, k2}
    Lifetimes = {0, 1}
    None = None
    MaxTime = 2
    MaxOps = 3
CHECK_DEADLOCK FALSE
INVARIANTS
    ReadExplained
    KeptUntilDue
    
PROPERTIES
    ExpiredCollected
