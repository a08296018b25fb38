SPECIFICATION Spec
CONSTANTS
    Variants <- MCVariants
    TxidOf <- MCTxidOf
    Outpoints <- MCOutpoints
    ParentOf <- MCParentOf
    Inputs <- MCInputs
    ScriptBytes <- MCScriptBytes
    RawBytes <- MCRawBytes
    Collections <- MCCollections
    NoScript = {11, 13}
    MaxRawBytes = 3
    GetTxOutBytes = 1
    MaxPendingBytes = 2
    MaxUniquePrevouts = 3
    MaxParentsPerWave = 1
    MaxConfirmedPerWave = 2
    MaxSliceSize = 3
    MaxGeneration = 2
INVARIANTS
    NothingLost
    WithinLimits
    FactsServeCandidates
    OnlyMembersKept
    FetchedScriptsAreUsed
PROPERTIES
    NullOnlyOutsideMempool
    GenerationSettles
CHECK_DEADLOCK FALSE
