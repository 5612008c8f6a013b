\* A goroutine calls Shutdown; does Start return?
SPECIFICATION FairSpec
CONSTANTS
    c1 = c1
    r1 = r1
    h1 = h1
    h2 = h2
    Main = Main
    Callers <- OneCaller
    Rpcs <- OneRpc
    Hooks <- NoHook
    EnableMetrics = FALSE
PROPERTIES
    ShutdownEndsStart
