\* A tenant with two join tables, two joined rows and one transaction.
CONSTANTS
    JoinTables = {"carts", "orders"}
    JoinIds = {1}
    JoinedPks = {1, 2}
    Tenants = {1, 2}
    ShardingValue = 1
    NullKey = NullKey
    v1 = v1
    v2 = v2
    Versions <- TwoVersions
    NoRow = NoRow
    BatchSize = 1
    InitialContents <- OneReference
    MaxChanges = 1
    InitialTargets <- EmptyOrStale
    MaxFatals = 2
SPECIFICATION FairSpec
CHECK_DEADLOCK FALSE
INVARIANTS
    ShardingTypeOK
    NoErrorIsPassed
    SourceIsCurrent
    MovedIsComplete
    MovedIsExact
    OnlyTheTenantIsCopied
    LockedRunGoesOn
PROPERTIES
    LockIsReleased
    ImplementsTenantMove
