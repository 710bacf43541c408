\* Object store: a kill between the object and its manifest line.
SPECIFICATION RetriedSpec
CONSTANTS
    s1 = s1
    s2 = s2
    NoTotal = NoTotal
    States <- OneState
    BatchSize = 2
    MaxWorkers = 1
    Cloud = TRUE
    ApiMoves <- NoMoves
    MaxTotal = 3
    MaxFaults = 1
PROPERTIES
    ResumesAlways
