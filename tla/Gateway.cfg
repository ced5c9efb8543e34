SPECIFICATION HistSpec
CONSTANTS
    Clients = {c1, c2}
    Requests <- MCRequests
    Configs <- MCConfigs
    MaxPulls = 2
    Sends <- MCSends
    v1 = v1
    v2 = v2
    None = None
INVARIANTS GateTypeOK   FlushURLReaches 
SYMMETRY ClientSymmetry
