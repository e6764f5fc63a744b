\* One table of two rows that are copied one by one, one run after a failed one.
CONSTANTS
    t1 = t1
    v1 = v1
    Tables = {t1}
    PKs = {1, 2}
    Values = {v1}
    NoRow = NoRow
    Other = Other
    MaxLog = 2
    BinlogBatchSize = 1
    WriteRetries = 1
    IterationBatchSize = 1
    Concurrency = 1
    CopyRetries = 1
    MaxRestarts = 1
SPECIFICATION FairSpec
INVARIANT WaitsAreServed
PROPERTIES
    RunEnds
    LocksAreReleased
    ImplementsDataMove
