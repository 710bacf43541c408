\* Local backend, two states sharing one thread, growing totals, three faults.
SPECIFICATION Spec
CONSTANTS
    s1 = s1
    s2 = s2
    NoTotal = NoTotal
    States <- TwoStates
    BatchSize = 2
    MaxWorkers = 1
    Cloud = FALSE
    ApiMoves <- Growth
    MaxTotal = 3
    MaxFaults = 3
SYMMETRY Symmetric
INVARIANTS
    TypeOK
    Inductive
    ArtifactsTile
    PersistenceOrder
    ExitZeroIsWhole
    CompletedCountsAll
    CompletedIsExact
    NeverFailsUnprovoked
PROPERTIES
    LinesAreKept
    ProgressIsKept
