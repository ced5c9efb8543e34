SPECIFICATION HistFairSpec
CONSTANTS
    Pullers = {p1, p2}
    N = 3
    Retry = 1
    Timeout = 1
INVARIANTS PullTypeOK FailsOnlyUnserved
PROPERTY PullEnds
