SPECIFICATION HistSpec
CONSTANTS
    Configs = {v1, v2}
    Blank = blank
    Torn = torn
    Missing = missing
    MaxSaves = 2
    Budget = 2
    MaxOpen = 1
PROPERTY EveryChangeReloads
