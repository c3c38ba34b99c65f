SPECIFICATION FairSpec
CONSTANTS
    a1 = a1
    Access <- OneAccess
    SecretName = {"s1"}
    SecretOf <- OwnSecret
    Key = {k1, k2, k3, k4}
    NoKey = NoKey
    Rotation = {"r0", "r1"}
    NoRotation = "r0"
    Backend = "Garage"
    Workers = 1
    Disturb <- AllDisturb
    MaxDisturb = 3
CHECK_DEADLOCK FALSE
INVARIANTS KeyTracked PairKept
PROPERTIES CredentialsSurviveOutage Converges RevocationEnforced DeletionCompletes
