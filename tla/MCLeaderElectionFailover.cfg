CONSTANTS
    Nodes = {n1, n2}
    LeaseDuration = 3
    RenewDeadline = 2
    RetryPeriod = 1
    ReleaseOnCancel = FALSE
    MaxReply = 0
    MaxEvent = 0
    Restarts = FALSE
SPECIFICATION FairSpec
PROPERTY Failover
CHECK_DEADLOCK FALSE
