SPECIFICATION Spec
CONSTANTS
    Texts = {x, y}
    Usages = {u1, u2}
    Empty = Empty
    NoUsage = NoUsage
    MaxYields = 4
CHECK_DEADLOCK FALSE
INVARIANTS
    ContentTold
    UsageTold
    CallsBeforeResults
PROPERTIES
    ImplementsRun
