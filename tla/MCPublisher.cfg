SPECIFICATION Spec
CONSTANTS
    None = None
    t1 = t1
    t2 = t2
    w1 = w1
    w2 = w2
    w3 = w3
    Txids <- MCTxids
    Wtxids <- MCWtxids
    Results <- MCResults
    Errors <- MCErrors
    Variants <- MCVariants
    ClassificationInputs <- MCClassificationInputs
    MembershipTasks = {"membership"}
    ClassificationTasks = {"classification"}
    MaxGeneration = 2
    MaxRevision = 2
    MaxClock = 4
INVARIANTS
    TypeOK
    CachedResponseCoherent
    SnapshotMatchesState
    NotModifiedMeansUnchanged
    AcceptedDetailMatchesHeldSnapshot
PROPERTIES
    PublicationOrder
    ImplementsAtomicPublisher
