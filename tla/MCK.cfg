SPECIFICATION FairSpec
CONSTANTS
    b1 = b1
    b2 = b2
    n = n
    Bucket <- TwoBuckets
    Name <- OneName
    NameOf <- SameName
    Drivers <- BothDrivers
    Wishes <- SomeWishes
    Disturb <- AllDisturbances
    MaxDisturb = 3
INVARIANTS TypeOK OneHolder AppliedIsEnforced NoKeyLeft
PROPERTIES DataKept ReclaimComplete EntryKept BucketsSettle
CHECK_DEADLOCK FALSE
