SPECIFICATION Spec
CONSTANTS
    Subscribers = {s1, s2}
    Capacity = 2
    ContentTypes = {"chunk"}
    Outputs = {out}
    Errors = {err1}
    NoOutput = NoOutput
    NoError = NoError
    MaxPublish = 2
    DefaultTTL = 1
    TerminalTTL = 2
    StoreFaults = {"noexpire", "lostreply", "fail"}
SYMMETRY Symmetry
CHECK_DEADLOCK FALSE
INVARIANTS
    OneOutcome
    Accounted
    DrainedKnowsOutcome
    StoredWithoutHole
PROPERTIES
    ImplementsFeed
