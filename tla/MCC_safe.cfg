SPECIFICATION Spec
CONSTANTS
    Access = {a1, a2}
    Worker = 1
    Reclaims <- BothReclaims
    Disturb <- AllDisturbances
    MaxDisturb = 2
INVARIANTS ReadyWorks RevokedLeavesNothing ReclaimHonoured
PROPERTIES OthersKept RotationChangesKey
CHECK_DEADLOCK FALSE
