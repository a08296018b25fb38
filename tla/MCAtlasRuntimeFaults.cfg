CONSTANTS
    NumSources = 2
    MaxWork = 1
    MaxGeneration = 2
    MaxRevision = 1
    RoundWrap = 2
    Faults = {"rpc", "publication"}
SPECIFICATION Spec
INVARIANTS
    SliceNeverSuperseded
    PublishedNeverAhead
    EverySourceAttempted
