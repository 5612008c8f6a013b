-------------------------------- MODULE Chat --------------------------------
(***************************************************************************)
(* Chat of example/server/main.go: for each stream a reader goroutine that *)
(* receives messages, stores them in the room that all streams share and   *)
(* passes them to the handler through messageChan, and the handler, which  *)
(* echoes them.                                                            *)
(***************************************************************************)
EXTENDS Integers, Sequences, SequencesExt

CONSTANTS
    Streams,   \* streams that clients may open
    ChanCap,   \* capacity of messageChan (10)
    RoomCap,   \* messages a room keeps (100)
    MaxMsgs    \* bound on the messages a client sends, in the guard of ClientSend

ASSUME BoundsAssumption ==
    /\ ChanCap \in Nat \ {0}
    /\ RoomCap \in Nat \ {0}
    /\ MaxMsgs \in Nat

VARIABLES
    sent,         \* how many messages each client has sent
    wire,         \* messages on their way to stream.Recv
    halfClosed,   \* the client has called CloseSend: Recv will return EOF
    done,         \* stream.Context() is done
    reader,       \* progress of each reader goroutine
    hand,         \* the message in the reader's hand
    messageChan,  \* the channel from reader to handler
    closed,       \* messageChan has been closed
    handler,      \* progress of each handler
    echoing,      \* the message in the handler's stream.Send
    outcome,      \* why the handler returned
    room,         \* s.chatRooms["default"]
    echoed,       \* history: messages echoed on each stream, in order
    stored        \* history: messages ever stored in the room, in order

clientVars  == <<sent, wire, halfClosed, done>>
readerVars  == <<reader, hand, room, stored>>
handlerVars == <<handler, echoing, outcome, echoed>>
vars == <<clientVars, readerVars, messageChan, closed, handlerVars>>

(* The n-th message of a stream; 0 stands for no message.                  *)
Numbers == 0 .. MaxMsgs

TypeOK ==
    /\ sent \in [Streams -> Numbers]
    /\ halfClosed \in [Streams -> BOOLEAN]
    /\ done \in [Streams -> BOOLEAN]
    /\ reader \in [Streams -> {"none", "receiving", "storing", "forwarding", "exited"}]
    /\ hand \in [Streams -> Numbers]
    /\ closed \in [Streams -> BOOLEAN]
    /\ handler \in [Streams -> {"none", "selecting", "echoing", "returned"}]
    /\ echoing \in [Streams -> Numbers]
    /\ outcome \in [Streams -> {"none", "eof", "cancelled", "error"}]
    /\ \A s \in Streams :
          /\ wire[s] \in Seq(Numbers)
          /\ echoed[s] \in Seq(Numbers)
          /\ messageChan[s] \in Seq(Numbers) /\ Len(messageChan[s]) <= ChanCap
    /\ room \in Seq(Streams \X Numbers) /\ Len(room) <= RoomCap
    /\ stored \in Seq(Streams \X Numbers)

Init ==
    /\ sent = [s \in Streams |-> 0]
    /\ wire = [s \in Streams |-> <<>>]
    /\ halfClosed = [s \in Streams |-> FALSE]
    /\ done = [s \in Streams |-> FALSE]
    /\ reader = [s \in Streams |-> "none"]
    /\ hand = [s \in Streams |-> 0]
    /\ messageChan = [s \in Streams |-> <<>>]
    /\ closed = [s \in Streams |-> FALSE]
    /\ handler = [s \in Streams |-> "none"]
    /\ echoing = [s \in Streams |-> 0]
    /\ outcome = [s \in Streams |-> "none"]
    /\ room = <<>>
    /\ echoed = [s \in Streams |-> <<>>]
    /\ stored = <<>>

-----------------------------------------------------------------------------
(* A client opens a stream: the handler makes messageChan and the reader.  *)
Open(s) ==
    /\ handler[s] = "none"
    /\ handler' = [handler EXCEPT ![s] = "selecting"]
    /\ reader' = [reader EXCEPT ![s] = "receiving"]
    /\ UNCHANGED <<clientVars, hand, room, stored, messageChan, closed, echoing,
                   outcome, echoed>>

(* The client's goroutine that sends, as fast as the stream takes them ... *)
ClientSend(s) ==
    /\ handler[s] # "none"
    /\ ~halfClosed[s] /\ ~done[s]
    /\ sent[s] < MaxMsgs
    /\ sent' = [sent EXCEPT ![s] = @ + 1]
    /\ wire' = [wire EXCEPT ![s] = Append(@, sent[s] + 1)]
    /\ UNCHANGED <<halfClosed, done, readerVars, messageChan, closed, handlerVars>>

(* ... and closes its side behind the last message, or never.              *)
ClientCloseSend(s) ==
    /\ handler[s] # "none"
    /\ ~halfClosed[s] /\ ~done[s]
    /\ halfClosed' = [halfClosed EXCEPT ![s] = TRUE]
    /\ UNCHANGED <<sent, wire, done, readerVars, messageChan, closed, handlerVars>>

(* The client cancels, or gRPC ends the context of a returned handler.     *)
Cancel(s) ==
    /\ handler[s] # "none"
    /\ ~done[s]
    /\ done' = [done EXCEPT ![s] = TRUE]
    /\ UNCHANGED <<sent, wire, halfClosed, readerVars, messageChan, closed, handlerVars>>

-----------------------------------------------------------------------------
(* The reader: stream.Recv returns a message ...                           *)
Recv(s) ==
    /\ reader[s] = "receiving"
    /\ wire[s] # <<>>
    /\ hand' = [hand EXCEPT ![s] = Head(wire[s])]
    /\ wire' = [wire EXCEPT ![s] = Tail(@)]
    /\ reader' = [reader EXCEPT ![s] = "storing"]
    /\ UNCHANGED <<sent, halfClosed, done, room, stored, messageChan, closed, handlerVars>>

(* Mutant of RecvEnds: the deferred close is missing.                      *)
RecvEnds_NoClose(s) ==
    /\ reader[s] = "receiving"
    /\ (halfClosed[s] /\ wire[s] = <<>>) \/ done[s]
    /\ reader' = [reader EXCEPT ![s] = "exited"]
    /\ UNCHANGED <<clientVars, hand, room, stored, messageChan, closed, handlerVars>>

(* ... or io.EOF, or an error: the deferred close runs ...                 *)
RecvEnds(s) ==
    /\ reader[s] = "receiving"
    /\ (halfClosed[s] /\ wire[s] = <<>>) \/ done[s]
    /\ reader' = [reader EXCEPT ![s] = "exited"]
    /\ closed' = [closed EXCEPT ![s] = TRUE]
    /\ UNCHANGED <<clientVars, hand, room, stored, messageChan, handlerVars>>

(* Mutant of LastOf: the oldest messages are kept.                         *)
LastOf_Oldest(q, n) == IF Len(q) > n THEN SubSeq(q, 1, n) ELSE q

LastOf(q, n) == IF Len(q) > n THEN SubSeq(q, Len(q) - n + 1, Len(q)) ELSE q

(* ... the message is stored under chatMutex, and the room trimmed ...     *)
Store(s) ==
    /\ reader[s] = "storing"
    /\ room' = LastOf(Append(room, <<s, hand[s]>>), RoomCap)
    /\ stored' = Append(stored, <<s, hand[s]>>)
    /\ reader' = [reader EXCEPT ![s] = "forwarding"]
    /\ UNCHANGED <<clientVars, hand, messageChan, closed, handlerVars>>

(* Mutant of HasRoom: an unbounded channel.                                *)
HasRoom_Always(s) == TRUE

HasRoom(s) == Len(messageChan[s]) < ChanCap

(* ... and messageChan <- msg waits for room in the channel, only.         *)
Forward(s) ==
    /\ reader[s] = "forwarding"
    /\ HasRoom(s)
    /\ messageChan' = [messageChan EXCEPT ![s] = Append(@, hand[s])]
    /\ hand' = [hand EXCEPT ![s] = 0]
    /\ reader' = [reader EXCEPT ![s] = "receiving"]
    /\ UNCHANGED <<clientVars, room, stored, closed, handlerVars>>

-----------------------------------------------------------------------------
(* The handler's select: a message to echo ...                             *)
TakeMessage(s) ==
    /\ handler[s] = "selecting"
    /\ messageChan[s] # <<>>
    /\ messageChan' = [messageChan EXCEPT ![s] = Tail(@)]
    /\ echoing' = [echoing EXCEPT ![s] = Head(messageChan[s])]
    /\ handler' = [handler EXCEPT ![s] = "echoing"]
    /\ UNCHANGED <<clientVars, readerVars, closed, outcome, echoed>>

Return(s, why) ==
    /\ handler' = [handler EXCEPT ![s] = "returned"]
    /\ outcome' = [outcome EXCEPT ![s] = why]
    /\ echoing' = [echoing EXCEPT ![s] = 0]
    /\ UNCHANGED <<clientVars, readerVars, messageChan, closed, echoed>>

(* Mutant of Drained: what is left in a closed channel is dropped.         *)
Drained_AtClose(s) == closed[s]

Drained(s) == closed[s] /\ messageChan[s] = <<>>

(* ... the channel closed and drained (ok is false) ...                    *)
ChannelClosed(s) ==
    /\ handler[s] = "selecting"
    /\ Drained(s)
    /\ Return(s, "eof")

(* ... or the context done.                                                *)
ContextDone(s) ==
    /\ handler[s] = "selecting"
    /\ done[s]
    /\ Return(s, "cancelled")

(* stream.Send of the echo succeeds ...                                    *)
Echo(s) ==
    /\ handler[s] = "echoing"
    /\ handler' = [handler EXCEPT ![s] = "selecting"]
    /\ echoed' = [echoed EXCEPT ![s] = Append(@, echoing[s])]
    /\ echoing' = [echoing EXCEPT ![s] = 0]
    /\ UNCHANGED <<clientVars, readerVars, messageChan, closed, outcome>>

(* Mutant of EchoFails: the return is missing, the error only logged.      *)
EchoFails_GoesOn(s) ==
    /\ handler[s] = "echoing"
    /\ handler' = [handler EXCEPT ![s] = "selecting"]
    /\ echoing' = [echoing EXCEPT ![s] = 0]
    /\ UNCHANGED <<clientVars, readerVars, messageChan, closed, outcome, echoed>>

(* ... or fails, which ends the handler.                                   *)
EchoFails(s) ==
    /\ handler[s] = "echoing"
    /\ Return(s, "error")

-----------------------------------------------------------------------------
Client(s)  == Open(s) \/ ClientSend(s) \/ ClientCloseSend(s) \/ Cancel(s)
Reader(s)  == Recv(s) \/ RecvEnds(s) \/ Store(s) \/ Forward(s)
Select(s)  == TakeMessage(s) \/ ChannelClosed(s) \/ ContextDone(s)
Handler(s) == Select(s) \/ Echo(s) \/ EchoFails(s)

Next == \E s \in Streams : Client(s) \/ Reader(s) \/ Handler(s)

Spec == Init /\ [][Next]_vars

(* Goroutines run, and gRPC ends the context of a handler that returned; a *)
(* client need neither send nor read nor close.                            *)
Fairness ==
    \A s \in Streams :
        /\ WF_vars(Reader(s))
        /\ WF_vars(Select(s))
        /\ WF_vars(handler[s] = "returned" /\ Cancel(s))

FairSpec == Spec /\ Fairness

-----------------------------------------------------------------------------
(* What the first n entries of a room hold of a stream, for each n.        *)
Picked(s, q) ==
    LET picked[n \in 0 .. Len(q)] ==
            IF n = 0 THEN <<>>
            ELSE IF q[n][1] = s THEN Append(picked[n - 1], q[n][2]) ELSE picked[n - 1]
    IN  picked

OfStream(s, q) == Picked(s, q)[Len(q)]

(* What the handler has yet to echo.                                       *)
Pending(s) ==
    CASE handler[s] = "echoing"  -> <<echoing[s]>> \o messageChan[s]
      [] handler[s] = "returned" -> <<>>
      [] OTHER                   -> messageChan[s]

(* On one stream messages keep their order through the reader, the room,   *)
(* the channel and the handler, and none is echoed before it is stored,    *)
(* however the streams interleave.                                         *)
EchoesFollowStore ==
    \A s \in Streams : IsPrefix(echoed[s] \o Pending(s), OfStream(s, stored))

(* A client that half-closes gets every message echoed before the stream   *)
(* ends: EOF closes the channel behind the messages, not in front of them. *)
EofDrains ==
    \A s \in Streams : outcome[s] = "eof" /\ ~done[s] => Len(echoed[s]) = sent[s]

(* The shared room holds the most recent messages of all streams.          *)
RoomIsRecent ==
    /\ IsSuffix(room, stored)
    /\ Len(room) = RoomCap \/ room = stored

(* A client that half-closes is let go, unless it does not read its echoes.*)
EofEndsStream ==
    \A s \in Streams :
        \/ halfClosed[s] ~> handler[s] = "returned"
        \/ <>[](handler[s] = "echoing")

(* "Ensure channel is closed exactly once" (main.go:462): the channel of   *)
(* an ended stream is closed, its reader being gone.                       *)
EndedIsClosed ==
    \A s \in Streams : handler[s] = "returned" ~> closed[s]
=============================================================================
