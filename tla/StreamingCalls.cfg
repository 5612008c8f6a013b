\* Every method; streams that hold one message in each direction.
SPECIFICATION FairSpec
CONSTANTS
    u1 = u1
    u2 = u2
    u3 = u3
    u4 = u4
    Users <- FourUsers
    Status <- UserStatus
    PageSizes <- FourPageSizes
    DefaultPageSize = 3
    Events = 3
    Sizes = {1, 3}
    Items = 4
    Commands <- Conversation
    Window = 1
INVARIANTS
    TypeOK
    EachAnswersItsRequest
    EofMeansComplete
    SummaryCoversAll
    AtMostOneLate
PROPERTIES
    CallEnds
\* The call ends.
CHECK_DEADLOCK FALSE
