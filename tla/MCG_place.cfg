SPECIFICATION Spec
CONSTANTS
    a = a
    b = b
    c = c
    Node <- Masters
    FirstNodes <- AnyStart
    HA = 2
    MaxInc = 1
    MaxKeys = 2
    Disturb <- NoSwitch
    MaxDisturb = 2
SYMMETRY Symmetry
INVARIANT ObjectKept
INVARIANT RejoinsAsItself
PROPERTY ReadyIsWhole
CHECK_DEADLOCK FALSE
