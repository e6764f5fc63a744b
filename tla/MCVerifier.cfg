\* Two rows of one table, compared one by one by two workers.
CONSTANTS
    t1 = t1
    v1 = v1
    Tables = {t1}
    PKs = {1, 2}
    Values = {v1}
    NoRow = NoRow
    Other = Other
    MaxLog = 2
    BinlogBatchSize = 1
    WriteRetries = 2
    VerifierBatchSize = 1
    VerifierConcurrency = 2
    SmallEnough = 0
    MaxIterations = 2
SPECIFICATION FairVerificationSpec
INVARIANT VerificationTypeOK
PROPERTY VerificationEnds
