CONSTANTS
    NumSources = 1
    MaxWork = 2
    MaxGeneration = 2
    MaxRevision = 2
    RoundWrap = 1
    Faults = {}
SPECIFICATION Spec
PROPERTIES
    PausedUntilReplaced
