\* One key: both callers, the sweep and Stop compete for the same bucket.
SPECIFICATION FairSpec
CONSTANTS
    k1 = k1
    t1 = t1
    t2 = t2
    b1 = b1
    b2 = b2
    b3 = b3
    NoBucket = NoBucket
    Keys <- OneKey
    Threads <- TwoThreads
    Buckets <- ThreeBuckets
    MaxTokens = 2
    RefillRate = 2
    IdleLimit = 4
    CleanupPeriod = 1
    MaxTime = 6
INVARIANTS
    TypeOK
    BucketBudget
    KeyBudget
PROPERTIES
    SweepForgetsNoDebt
    ImplementsTokenBudget
    EveryCallReturns
