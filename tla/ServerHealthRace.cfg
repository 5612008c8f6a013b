\* A goroutine calls Shutdown while Start is still starting.
SPECIFICATION Spec
CONSTANTS
    c1 = c1
    r1 = r1
    h1 = h1
    h2 = h2
    Main = Main
    Callers <- OneCaller
    Rpcs <- OneRpc
    Hooks <- OneHook
    EnableMetrics = FALSE
INVARIANTS
    NotServingAfterShutdown
