\* Compaction and two loaders of a growing run, retried after kills and errors.
SPECIFICATION FairSpec
CONSTANTS
    l1 = l1
    l2 = l2
    Waves <- Growing
    Loaders <- TwoLoaders
    MaxRows = 3
    MaxFaults = 2
INVARIANTS
    TypeOK
    ManifestsAreWhole
    OkIsStaged
    TwiceOnlyByOverlap
    LoadedHasRows
    OkAloneIsFinal
PROPERTIES
    RebuildAddsNothing
    EventuallyLoaded
