SPECIFICATION Spec
CONSTANTS
    Sources = {1, 2}
    Threads = {1}
    Txs = {1, 2}
    MaxEntries <- MCMaxEntries
    MaxSupported = 3
    MaxBlocks = 1
    MaxTxSteps = 2
    MaxClockSteps = 1
    MaxCollections = 2
INVARIANTS SnapshotIsMempoolOfTip DecoderWithinLimit
PROPERTY RefusedForCause
