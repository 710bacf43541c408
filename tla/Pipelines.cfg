\* Two runs of each DAG over three run ids, two faults.
SPECIFICATION FairSpec
CONSTANTS
    i1 = i1
    i2 = i2
    f1 = f1
    f2 = f2
    Incremental <- TwoIncremental
    FullRefresh <- TwoFullRefresh
    MaxIds = 3
    MaxFaults = 2
INVARIANTS
    TypeOK
    NeverAbandoned
    FullRefreshIsOwn
    NothingStranded
PROPERTIES
    EveryIdCompletes
CHECK_DEADLOCK FALSE
