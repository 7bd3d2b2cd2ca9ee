SPECIFICATION Spec
CONSTANTS
    N = 3
    Finalizers = 2
    Limits = {0, 1, 2}
    MaxCalls = 3
CHECK_DEADLOCK FALSE
INVARIANTS
    FinalizersLast
    AnswerTruthful
PROPERTIES
    CallReturns
