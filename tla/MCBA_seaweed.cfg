SPECIFICATION Spec
CONSTANTS
    a1 = a1
    Access <- OneAccess
    SecretName = {"s1"}
    SecretOf <- OwnSecret
    Key = {k1, k2, k3, k4, k5}
    NoKey = NoKey
    Rotation = {"r0", "r1"}
    NoRotation = "r0"
    Backend = "SeaweedFS"
    Workers = 1
    Disturb <- AllDisturb
    MaxDisturb = 4
SYMMETRY KeySymmetry
CHECK_DEADLOCK FALSE
INVARIANTS TypeOK PairConsistent DeletionRevokes
