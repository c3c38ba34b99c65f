SPECIFICATION Spec
CONSTANTS
    a1 = a1
    Access <- OneAccess
    SecretName = {"s1"}
    SecretOf <- OwnSecret
    Key = {k1, k2, k3}
    NoKey = NoKey
    Rotation = {"r0", "r1"}
    NoRotation = "r0"
    Backend = "Garage"
    Workers = 1
    Disturb = {"secretWrite", "vanish"}
    MaxDisturb = 2
INVARIANTS PairConsistent
