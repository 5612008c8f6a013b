\* Two streams share the room, which overflows; clients send, stop reading, half-close, cancel.
SPECIFICATION FairSpec
CONSTANTS
    s1 = s1
    s2 = s2
    Streams <- TwoStreams
    ChanCap = 1
    RoomCap = 2
    MaxMsgs = 2
INVARIANTS
    TypeOK
    EchoesFollowStore
    EofDrains
    RoomIsRecent
PROPERTIES
    EofEndsStream
\* Streams end, and their readers with them or stuck for ever.
CHECK_DEADLOCK FALSE
