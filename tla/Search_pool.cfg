\* Two requests that compete for one slot, one dbt run.
SPECIFICATION FairSpec
CONSTANTS
    r1 = r1
    r2 = r2
    Requests <- TwoRequests
    Endpoints <- AllEndpoints
    MaxQueries = 2
    Totals <- TwoVersions
    Pages = {1, 2}
    PageSizes = {2}
    PoolSize = 1
    PoolWait = 1
    QueryTime = 1
    TTL = 1
INVARIANTS
    TypeOK
    FreshEnough
    SlotsAccounted
    PagesAgree
PROPERTIES
    EveryRequestAnswered
