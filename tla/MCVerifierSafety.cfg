\* Two rows of one table, two values.
CONSTANTS
    t1 = t1
    v1 = v1
    v2 = v2
    Tables = {t1}
    PKs = {1, 2}
    Values = {v1, v2}
    NoRow = NoRow
    Other = Other
    MaxLog = 2
    BinlogBatchSize = 1
    WriteRetries = 2
    VerifierBatchSize = 1
    VerifierConcurrency = 1
    SmallEnough = 0
    MaxIterations = 2
SYMMETRY VerifiedValuesSymmetry
CONSTRAINT Unfinished
VIEW WhatMatters
SPECIFICATION VerificationSpec
INVARIANTS
    DifferencesAreTracked
    ResultIsRight
