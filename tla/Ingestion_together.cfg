\* One batch, one loader, one kill.
SPECIFICATION Spec
CONSTANTS
    l1 = l1
    l2 = l2
    Waves <- Single
    Loaders <- OneLoader
    MaxRows = 3
    MaxFaults = 1
INVARIANTS
    CommittedTogether
