\* Two clients, one of them with a filter: they read, stop reading or leave.
SPECIFICATION FairSpec
CONSTANTS
    s1 = s1
    s2 = s2
    alert = alert
    note = note
    Subs <- TwoSubs
    Types <- TwoTypes
    Wanted <- AllOrAlerts
    EventsCap = 2
    ChanCap = 1
    MaxEvents = 3
INVARIANTS
    TypeOK
    InOrder
PROPERTIES
    NothingTakenIsLost
    ForwarderReleased
    TakenIsDelivered
\* The bounded broadcaster stops, and so may the process.
CHECK_DEADLOCK FALSE
