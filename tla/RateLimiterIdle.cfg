\* The old bucket the sweep is said to remove.
SPECIFICATION Spec
CONSTANTS
    k1 = k1
    t1 = t1
    t2 = t2
    b1 = b1
    b2 = b2
    b3 = b3
    NoBucket = NoBucket
    Keys <- OneKey
    Threads <- TwoThreads
    Buckets <- ThreeBuckets
    MaxTokens = 1
    RefillRate = 1
    IdleLimit = 2
    CleanupPeriod = 1
    MaxTime = 6
PROPERTIES
    SweepRemovesIdle
