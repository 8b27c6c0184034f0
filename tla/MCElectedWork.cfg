CONSTANTS
    Nodes = {n1, n2}
    LeaseDuration = 6
    RenewDeadline = 2
    RetryPeriod = 1
    ReleaseOnCancel = FALSE
    MaxReply = 1
    MaxEvent = 1
    Restarts = FALSE
SPECIFICATION WorkSpec
INVARIANT OnlyTheLeaderWorks
CHECK_DEADLOCK FALSE
