CONSTANTS
    Clients = {c1, c2}
    MaxRev = 3
    LowerCap = 1
    UpperCap = 2
    IdleCap = 1
    ChanSize = 1
    References = FALSE
    Faults = {"compact"}
SPECIFICATION Spec
INVARIANT RingComplete
