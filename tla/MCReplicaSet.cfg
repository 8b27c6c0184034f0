CONSTANTS
    MaxPods = 4
    MaxInc = 2
    MaxReplicas = 2
    Burst = 2
    MaxEvents = 1
    NoPod = NoPod
    NoEvent = NoEvent
    NoRS = NoRS
    NoEntry = NoEntry
SPECIFICATION Spec
INVARIANTS
    TypeOK
    
    
    InformerTracks
PROPERTIES
    Settles
CHECK_DEADLOCK FALSE
