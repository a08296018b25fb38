CONSTANTS
    NumSources = 2
    MaxWork = 2
    MaxGeneration = 2
    MaxRevision = 1
    RoundWrap = 1
    Faults = {"clock"}
SPECIFICATION Spec
INVARIANTS
    EveryRevisionPublished
    ClassifyingIsScheduled
    RoundRobinIsFair
PROPERTIES
    RoundFinishes
    ClassificationEnds
