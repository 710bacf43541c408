\* Object store, two states on two threads, growing totals, retries.
SPECIFICATION RetriedSpec
CONSTANTS
    s1 = s1
    s2 = s2
    NoTotal = NoTotal
    States <- TwoStates
    BatchSize = 2
    MaxWorkers = 2
    Cloud = TRUE
    ApiMoves <- Growth
    MaxTotal = 3
    MaxFaults = 1
INVARIANTS
    PersistenceOrder
PROPERTIES
    ImplementsBatchLog
    ProcessEnds
    ResumesUnlessOrphaned
