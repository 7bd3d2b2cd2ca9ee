SPECIFICATION Spec
CONSTANTS
    NVersions = 2
    NModels = 2
    Writers = {w1, w2}
    Requests = {q1}
    MaxWrites = 2
SYMMETRY Symmetry
CHECK_DEADLOCK FALSE
INVARIANTS
    NothingReverts
    RunsWhatWasPublished
    NothingRunsOnceTaken
