\* One request and one slot, whose login may fail.
SPECIFICATION Spec
CONSTANTS
    r1 = r1
    r2 = r2
    Requests = {r1}
    Endpoints <- AllEndpoints
    MaxQueries = 2
    Totals <- TwoVersions
    Pages = {1}
    PageSizes = {2}
    PoolSize = 1
    PoolWait = 1
    QueryTime = 1
    TTL = 2
INVARIANTS
    PoolStaysWhole
