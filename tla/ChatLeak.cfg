\* Does the reader of an ended stream end?
SPECIFICATION FairSpec
CONSTANTS
    s1 = s1
    s2 = s2
    Streams <- OneStream
    ChanCap = 2
    RoomCap = 3
    MaxMsgs = 4
PROPERTIES
    EndedIsClosed
\* Streams end, and their readers with them or stuck for ever.
CHECK_DEADLOCK FALSE
