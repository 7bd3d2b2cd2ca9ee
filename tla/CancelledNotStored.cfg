SPECIFICATION TaskSpec
CONSTANTS
    Subscribers = {s1, s2}
    Capacity = 2
    ContentTypes = {"chunk"}
    Outputs = {out}
    Errors = {err1}
    NoOutput = NoOutput
    NoError = NoError
    MaxPublish = 2
    DefaultTTL = 2
    TerminalTTL = 4
    StoreFaults = {}
    RegistryDelay = 1
    NoChannel = NoChannel
CHECK_DEADLOCK FALSE
INVARIANTS
    EndIsStored
