CONSTANTS
    NumSources = 1
    MaxWork = 1
    MaxGeneration = 1
    MaxRevision = 1
    RoundWrap = 1
    Faults = {"clock"}
SPECIFICATION Spec
PROPERTIES
    FailedPollMarksStale
