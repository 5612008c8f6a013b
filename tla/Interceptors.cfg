\* Two calls of any method with any credentials through the whole chain.
SPECIFICATION Spec
CONSTANTS
    c1 = c1
    c2 = c2
    Calls <- TwoCalls
    Added <- Both
SYMMETRY Symmetry
INVARIANTS
    TypeOK
    GaugeIsExact
    PanicsAreContained
    LoggedAsAnswered
    CountedByCode
    OnlyAdmitted
\* Every call ends.
CHECK_DEADLOCK FALSE
