CONSTANTS
    Nodes = {n1, n2}
    LeaseDuration = 8
    RenewDeadline = 2
    RetryPeriod = 1
    ReleaseOnCancel = TRUE
    MaxReply = 1
    MaxEvent = 1
    Restarts = TRUE
SPECIFICATION Spec
SYMMETRY Symmetry
INVARIANTS
    TypeOK
    OneLeader
    LeaderHoldsLease
 
CHECK_DEADLOCK FALSE
