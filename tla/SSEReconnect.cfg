SPECIFICATION ReconnectSpec
CONSTANTS
    Subscribers = {s1, s2}
    Capacity = 2
    ContentTypes = {"chunk"}
    Outputs = {out}
    Errors = {}
    NoOutput = NoOutput
    NoError = NoError
    MaxPublish = 4
    DefaultTTL = 1
    TerminalTTL = 2
    StoreFaults = {}
    RegistryDelay = 1
    NoChannel = NoChannel
    MaxReplay = 1
    Radix = 2
    MaxDrops = 0
    NoEvents = NoEvents
SYMMETRY Symmetry
CHECK_DEADLOCK FALSE
INVARIANTS
    ReconnectTypeOK
    NoDuplicates
    LossesExplained
    StoredIsPushed
