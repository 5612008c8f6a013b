\* Can a client that leaves take the process down?
SPECIFICATION Spec
CONSTANTS
    s1 = s1
    s2 = s2
    alert = alert
    note = note
    Subs <- OneSub
    Types <- OneType
    Wanted <- Alerts
    EventsCap = 2
    ChanCap = 1
    MaxEvents = 3
INVARIANTS
    NeverCrashes
\* The bounded broadcaster stops, and so may the process.
CHECK_DEADLOCK FALSE
