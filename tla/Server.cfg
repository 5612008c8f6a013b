\* Start, signals, and a goroutine that calls Shutdown itself, as the tests do.
SPECIFICATION FairSpec
CONSTANTS
    c1 = c1
    r1 = r1
    h1 = h1
    h2 = h2
    Main = Main
    Callers <- OneCaller
    Rpcs <- OneRpc
    Hooks <- TwoHooks
    EnableMetrics = TRUE
INVARIANTS
    TypeOK
    DrainBeforeCleanup
    CleanupComplete
    RegistrationOrder
    NothingListens
    NotServingWhileDraining
PROPERTIES
    SignalEndsStart
    ImplementsContract
