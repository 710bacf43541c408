\* One state (UDYAM_TEST_STATE), object store, totals that grow and shrink, three faults.
SPECIFICATION Spec
CONSTANTS
    s1 = s1
    s2 = s2
    NoTotal = NoTotal
    States <- OneState
    BatchSize = 2
    MaxWorkers = 1
    Cloud = TRUE
    ApiMoves <- AnyMove
    MaxTotal = 4
    MaxFaults = 3
INVARIANTS
    ExitZeroIsWhole
PROPERTIES
    ProgressIsKept
    ImplementsBatchLog
