SPECIFICATION Spec
CONSTANTS
    Instances = {i1, i2}
    Tasks = {t1, t2}
    Requests = {q1, q2}
    NoTask = NoTask
    NoInstance = NoInstance
    MaxFaults = 1
CHECK_DEADLOCK FALSE
INVARIANTS
    RegistryIsTrue
    AnswerExplained
PROPERTIES
    
    AskedStops
