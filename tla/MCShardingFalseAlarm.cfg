\* Two transactions between the first copy and the lock.
CONSTANTS
    JoinTables = {"carts"}
    JoinIds = {1}
    JoinedPks = {1, 2}
    Tenants = {1, 2}
    ShardingValue = 1
    NullKey = NullKey
    v1 = v1
    v2 = v2
    Versions <- TwoVersions
    NoRow = NoRow
    BatchSize = 1
    InitialContents <- OneReference
    MaxChanges = 2
    InitialTargets <- EmptyOrStale
    MaxFatals = 1
SPECIFICATION Spec
CHECK_DEADLOCK FALSE
INVARIANT
    MismatchIsReal
