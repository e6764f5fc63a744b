\* One table of two rows.
CONSTANTS
    t1 = t1
    v1 = v1
    v2 = v2
    Tables = {t1}
    PKs = {1, 2}
    Values = {v1, v2}
    NoRow = NoRow
    Other = Other
    MaxLog = 2
    BinlogBatchSize = 2
    WriteRetries = 2
    IterationBatchSize = 1
    Concurrency = 1
    CopyRetries = 2
    MaxRestarts = 0
SYMMETRY ValuesSymmetry
SPECIFICATION Spec
INVARIANTS
    TypeOK
    FerryInv
    CutoverConsistent
    RowsTrackHistory
    BatchIsCurrent
    StopPointCoversLog
