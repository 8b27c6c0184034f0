CONSTANTS
    Keys = {k1}
    Workers = {w1}
    BaseDelay = 1
    MaxDelay = 1
    MinReprocess = 1
    Width = 2
    MaxFailures = 1
SPECIFICATION FairSpec
PROPERTY WorkersExit
