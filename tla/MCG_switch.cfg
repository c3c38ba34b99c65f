SPECIFICATION FairSpec
CONSTANTS
    a = a
    b = b
    c = c
    Node <- Two
    FirstNodes <- JustTwo
    HA = 2
    MaxInc = 3
    MaxKeys = 4
    Disturb <- Coarse
    MaxDisturb = 2
PROPERTY ImplementsReplicaGroup
PROPERTY BucketsReturn
PROPERTY Recovers
CHECK_DEADLOCK FALSE
