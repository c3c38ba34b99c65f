SPECIFICATION Spec
CONSTANTS
    Access = {a1}
    Worker = 1
    Reclaims <- JustRetain
    Disturb <- NoDisturbance
    MaxDisturb = 0
INVARIANTS ReadyHasKey
CHECK_DEADLOCK FALSE
