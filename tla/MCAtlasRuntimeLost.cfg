CONSTANTS
    NumSources = 1
    MaxWork = 2
    MaxGeneration = 1
    MaxRevision = 2
    RoundWrap = 1
    Faults = {"publication"}
SPECIFICATION Spec
INVARIANTS
    ClassifyingIsScheduled
