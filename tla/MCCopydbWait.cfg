\* One verification in the background.
CONSTANTS
    t1 = t1
    v1 = v1
    Tables = {t1}
    PKs = {1, 2}
    Values = {v1}
    NoRow = NoRow
    Other = Other
    MaxLog = 1
    BinlogBatchSize = 1
    WriteRetries = 1
    VerifierBatchSize = 1
    VerifierConcurrency = 2
    SmallEnough = 0
    MaxIterations = 2
SPECIFICATION CopydbSpec
INVARIANT FinishedCanBeAwaited
