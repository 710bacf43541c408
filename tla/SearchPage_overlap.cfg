\* Two states, three pages, two requests of a kind on their way.
SPECIFICATION FairSpec
CONSTANTS
    s1 = s1
    s2 = s2
    States <- TwoStates
    MaxPages = 3
    MaxInFlight = 2
    MaxDrift = 2
INVARIANTS
    TypeOK
    LatestUnlessOverlapped
    DistrictsOfState
    ButtonsFitTable
PROPERTIES
    SearchSettles
