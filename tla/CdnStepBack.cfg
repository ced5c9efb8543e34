SPECIFICATION HistSpec
CONSTANTS
    Keys = {k1}
    Clients = {c1, c2}
    Admins = {a1}
    Callers = {c1, c2, a1}
    MaxItems = 1
    TTLs = {1}
    MaxAge = 1
    RulePrefixes = {{k1}}
    MaxTime = 2
    MaxBodies = 2
    StorageFaults = FALSE
    Restarts = TRUE
    None = None
INVARIANTS NodeTypeOK 
SYMMETRY ClientSymmetry
