SPECIFICATION RecentSpec
CONSTANTS
    Keys = {k1, k2, k3}
    Callers = {c1, c2}
    MaxItems = 2
    TTLs = {0}
    MaxTime = 1
    MaxBodies = 3
    StorageFaults = TRUE
    None = None
INVARIANTS TypeOK IndexConsistent RecencyOrder
PROPERTY EvictsLeastRecent
SYMMETRY Symmetry
