\* A total that grows after the first response.
SPECIFICATION Spec
CONSTANTS
    s1 = s1
    s2 = s2
    NoTotal = NoTotal
    States <- OneState
    BatchSize = 2
    MaxWorkers = 1
    Cloud = FALSE
    ApiMoves <- Growth
    MaxTotal = 5
    MaxFaults = 0
INVARIANTS
    GrowthIsFetched
