SPECIFICATION FairSpec
CONSTANTS
    Claim <- OneClaim
    Bucket = {"b1"}
    BucketOf <- TheBucket
    Greenfield = {}
    Access <- OneAccess
    ClaimOf <- OneUser
    Shared = {"b1"}
    BucketReclaim = "Retain"
    StoreReclaim = "Retain"
    Disturb <- AllDisturb
    MaxDisturb = 3
CHECK_DEADLOCK FALSE
PROPERTIES KeysSurviveOutage RevocationReaches
