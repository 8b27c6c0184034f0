CONSTANTS
    Keys = {k1, k2}
    Workers = {w1, w2}
    BaseDelay = 3
    MaxDelay = 2
    MinReprocess = 1
    Width = 2
    MaxFailures = 1
SPECIFICATION FairSpec
INVARIANTS
    TypeOK
    ExclusiveKeys
    DirtySplit
    NothingForgotten
    PermitIsUsed
    DeadlineCovered
PROPERTIES
    AddAfterOnlySooner
    ImplementsDedupQueue
    Served
