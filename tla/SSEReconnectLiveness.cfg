SPECIFICATION ReconnectSpec
CONSTANTS
    Subscribers = {s1, s2}
    Capacity = 2
    ContentTypes = {"chunk"}
    Outputs = {out}
    Errors = {}
    NoOutput = NoOutput
    NoError = NoError
    MaxPublish = 2
    DefaultTTL = 1
    TerminalTTL = 2
    StoreFaults = {"fail"}
    RegistryDelay = 1
    NoChannel = NoChannel
    MaxReplay = 10
    Radix = 10
    MaxDrops = 1
    NoEvents = NoEvents
CHECK_DEADLOCK FALSE
PROPERTIES
    OutcomeTold
