SPECIFICATION CrashSpec
CONSTANTS
    Keys = {k1}
    RulePrefixes = {{k1}}
    Writers = {w1, w2}
    MaxAge = 2
    MaxTime = 4
    Faults = TRUE
    None = None
INVARIANTS StoreTypeOK Mirrored AckedOutlastsCrashes
SYMMETRY WriterSymmetry
