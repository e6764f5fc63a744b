\* Three workers, four indices.
CONSTANTS
    w1 = w1
    w2 = w2
    w3 = w3
    Workers = {w1, w2, w3}
    Items = 4
    Nil = Nil
SPECIFICATION FairPoolSpec
INVARIANTS
    PoolTypeOK
    PoolInv
    ErrorTellsOutcome
    ResultsTellOutcome
    NoIndexTwice
    NobodyBlocks
PROPERTIES
    EveryStepCounts
    PoolReturns
