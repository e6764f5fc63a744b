\* A row moves behind the cursor.
CONSTANTS
    t1 = t1
    v1 = v1
    Tables = {t1}
    PKs = {1, 2, 3}
    Values = {v1}
    NoRow = NoRow
    Other = Other
    MaxLog = 1
    BinlogBatchSize = 1
    WriteRetries = 1
    IterationBatchSize = 1
    Concurrency = 1
    CopyRetries = 1
    MaxRestarts = 0
SPECIFICATION MovingSpec
INVARIANT IdenticalAfterStreaming
