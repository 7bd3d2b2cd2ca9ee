SPECIFICATION TaskSpec
CONSTANTS
    Subscribers = {s1, s2}
    Capacity = 1
    ContentTypes = {"chunk"}
    Outputs = {out}
    Errors = {err1}
    NoOutput = NoOutput
    NoError = NoError
    MaxPublish = 3
    DefaultTTL = 1
    TerminalTTL = 2
    StoreFaults = {}
    RegistryDelay = 1
    NoChannel = NoChannel
CHECK_DEADLOCK FALSE
INVARIANTS
    
    StreamTellsOutcome
    Reachable
    DetachedFromClient
PROPERTIES
    ExecutorContract
    CancelledTaskEnds
    RequestAnswered
    RegistriesForget
