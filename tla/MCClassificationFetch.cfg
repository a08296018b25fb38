SPECIFICATION Spec
CONSTANTS
    a = a  b = b  c = c  d = d
    Keys = {a, b, c, d}
    Existing = {a, c, d}
    MaxId = 6
    MaxResponseBytes = 2
    MaxWaves = 2
    Waves <- MCWaves
    Lanes <- MCLanes
    BatchSize <- MCBatchSize
    EstimatedBytes <- MCEstimatedBytes
INVARIANTS AnswersAreTrue RequestsOwnTheirIds RequestsAreAccounted
PROPERTY WaveEnds
