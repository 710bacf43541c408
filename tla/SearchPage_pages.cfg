\* One state, two pages, one request on its way.
SPECIFICATION Spec
CONSTANTS
    s1 = s1
    s2 = s2
    States <- OneState
    MaxPages = 2
    MaxInFlight = 1
    MaxDrift = 2
INVARIANTS
    PagesStartAtOne
