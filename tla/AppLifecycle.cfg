SPECIFICATION Spec
CONSTANTS
    Clients = {c1, c2}
    MaxSignals = 2
CHECK_DEADLOCK FALSE
INVARIANTS
    ServesWhenReady
    RoutedToServer
    RedisOutlivesRequests
PROPERTIES
    SignalEnds
