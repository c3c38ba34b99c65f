SPECIFICATION FairSpec
CONSTANTS
    Redundancies <- AllRedundancies
    Reclaims <- BothReclaims
    Disturb <- AllDisturbances
    MaxDisturb = 2
INVARIANTS FilerAuthenticates AdminOpens
PROPERTIES ClaimsFollowReclaim Converges
CHECK_DEADLOCK FALSE
