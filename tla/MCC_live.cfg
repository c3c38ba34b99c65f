SPECIFICATION FairSpec
CONSTANTS
    Access = {a1, a2}
    Worker = 1
    Reclaims <- BothReclaims
    Disturb <- AllDisturbances
    MaxDisturb = 1
PROPERTIES Converges
CHECK_DEADLOCK FALSE
