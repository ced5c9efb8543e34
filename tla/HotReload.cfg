SPECIFICATION HistSpec
CONSTANTS
    Configs = {v1, v2}
    Blank = blank
    Torn = torn
    Missing = missing
    MaxSaves = 4
    Budget = 2
    MaxOpen = 1
INVARIANTS ServersTypeOK NoLostUpdate NoRequestCut
PROPERTIES ReloadsInTheEnd ShutdownEnds
