SPECIFICATION HistSpec
CONSTANTS
    Clients = {c1, c2}
    Modes = {"domain", "ip"}
    Algorithms = {"sliding_window", "token_bucket"}
    Rate = 1
    Burst = 2
    Window = 2
    Idle = 4
    MaxTime = 7
    Remembered = 4
    None = None
INVARIANTS LimitTypeOK WindowHolds BucketHolds
PROPERTY NoUnjustRejection
SYMMETRY ClientSymmetry
