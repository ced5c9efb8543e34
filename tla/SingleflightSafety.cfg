SPECIFICATION SFSpec
CONSTANTS
    Keys = {k1, k2}
    Callers = {c1, c2, c3}
    MaxItems = 1
    TTLs = {0}
    MaxTime = 1
    MaxBodies = 2
    StorageFaults = TRUE
    None = None
PROPERTY FetchesOnce
INVARIANTS SFTypeOK FlightsConsistent NoRedundantPull IndexMatchesDisk
SYMMETRY Symmetry
