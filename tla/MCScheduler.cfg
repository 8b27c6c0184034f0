CONSTANTS
    Names = {a, b}
    MaxInc = 2
    Plugins = {"fit"}
    MaxEvents = 6
    MaxStream = 1
    MaxInFlight = 2
    NoPod = NoPod
    NoInfo = NoInfo
    NoUid = NoUid
SPECIFICATION Spec
SYMMETRY Symmetry
CHECK_DEADLOCK FALSE
INVARIANTS
    TypeOK
    OnePlace
    EventsKept
    InFlightHeld
    NoEventMissed
    PreemptorReleased
    WakeupNotLost
    NoPodLost
    AssumedIsBeingBound

    
