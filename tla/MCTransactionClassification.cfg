SPECIFICATION Spec
CONSTANTS
    Transactions <- MCTransactions
    SpentScripts <- MCSpentScripts
    MaxExemplars = 1
    MaxGenerations = 2
INVARIANTS
    ClaimsHoldWhateverIsMissing
    PrimaryIsFirstRejection
    ClassificationIsPublishable
    CarriersAreFound
