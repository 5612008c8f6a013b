\* Any sources, both databases up or down, two calls in flight when the signal comes.
SPECIFICATION ServiceSpec
CONSTANTS
    r1 = r1
    r2 = r2
    Rpcs <- TwoRpcs
    Hooks <- Databases
    Texts <- SomeTexts
    Sources <- SomeSources
INVARIANTS
    TypeOK
    EnvironmentWins
    HandlersFindConnections
    Released
\* The process ends.
CHECK_DEADLOCK FALSE
