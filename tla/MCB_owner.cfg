SPECIFICATION FairSpec
CONSTANTS
    Claim <- OneClaim
    Bucket = {"b1"}
    BucketOf <- TheBucket
    Greenfield = {"c1"}
    Access <- OneAccess
    ClaimOf <- OneUser
    Shared = {}
    BucketReclaim = "Delete"
    StoreReclaim = "Delete"
    Disturb <- AllDisturb
    MaxDisturb = 3
CHECK_DEADLOCK FALSE
INVARIANTS TypeOK OrderlyTeardown
PROPERTIES BucketFollowsStore BindingConverges TeardownCompletes
