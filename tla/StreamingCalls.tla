--------------------------- MODULE StreamingCalls ---------------------------
(***************************************************************************)
(* One call of a streaming RPC of the demo service, from the demo client's *)
(* stub to the handler and back: ListUsers, SubscribeToEvents, UploadData, *)
(* ProcessBatch and Interactive (example/client/main.go,                   *)
(* example/server/main.go and the stubs of demo_grpc.pb.go).  Chat and the *)
(* server side of SubscribeToEvents, which share state between calls, have *)
(* modules of their own.                                                   *)
(*                                                                         *)
(* The wire is a window of messages in each direction: Send blocks while   *)
(* the window is full and fails once the stream is over.  The messages of  *)
(* the client are represented by their numbers.                            *)
(***************************************************************************)
EXTENDS Integers, Sequences, FiniteSets, Functions

CONSTANTS
    Users,            \* s.users
    Status,           \* the status of each
    PageSizes,        \* page sizes a client may ask ListUsers for
    DefaultPageSize,  \* the 10 of ListUsers
    Events,           \* bound on the events a subscriber is sent
    Sizes,            \* the sizes a chunk or an item may have
    Items,            \* chunks or items that a client sends
    Commands,         \* the commands of an Interactive conversation
    Window            \* messages that fit in each direction of a stream

Statuses == {"active", "inactive", "suspended"}

ASSUME UsersAssumption ==
    /\ IsFiniteSet(Users) /\ Status \in [Users -> Statuses]
    /\ PageSizes \subseteq Int /\ DefaultPageSize \in Nat \ {0}
ASSUME StreamAssumption ==
    /\ Events \in Nat /\ Items \in Nat /\ Sizes \subseteq Nat
    /\ Commands \in Seq({"ping", "echo", "echo without text", "time", "users", "unknown"})
    /\ Window \in Nat \ {0}

VARIABLES
    call,        \* the method and the arguments of the call
    sender,      \* progress of the client's sending side
    receiver,    \* progress of its receiving side
    sent,        \* messages it has sent
    received,    \* messages it has received
    timeUp,      \* the 10 seconds of a subscription are over (eventCtx)
    late,        \* history: events received after that
    toServer,    \* numbers of the messages on their way to the handler
    halfClosed,  \* the client has called CloseSend
    toClient,    \* messages on their way to the client
    done,        \* the context of the call is done
    handler,     \* progress of the handler
    tally,       \* what UploadData or ProcessBatch has counted
    toSend       \* what the handler has to send before it goes on

clientVars == <<call, sender, receiver, sent, received, timeUp, late>>
serverVars == <<handler, tally, toSend>>
wireVars   == <<toServer, halfClosed, toClient, done>>
vars == <<clientVars, serverVars, wireVars>>

Calls ==
    [method : {"ListUsers"}, filter : {""} \cup Statuses, pageSize : PageSizes]
    \cup [method : {"SubscribeToEvents", "Interactive"}]
    \cup [method : {"UploadData"}, size : [1 .. Items -> Sizes], marked : BOOLEAN]
    \cup [method : {"ProcessBatch"}, size : [1 .. Items -> Sizes]]

Tally    == [received : 0 .. Items, bytes : Nat, failed : 0 .. Items]
Response == [id : 1 .. Len(Commands), success : BOOLEAN]
Message  == Users \cup [event : 1 .. Events] \cup Tally \cup Response

TypeOK ==
    /\ call \in Calls
    /\ sender \in {"sending", "exited"}
    /\ receiver \in {"waiting", "checking", "receiving", "eof", "failed", "left"}
    /\ sent \in Nat
    /\ received \in Seq(Message)
    /\ timeUp \in BOOLEAN
    /\ late \in 0 .. Events
    /\ toServer \in Seq(1 .. sent) /\ Len(toServer) <= Window
    /\ halfClosed \in BOOLEAN
    /\ toClient \in Seq(Message) /\ Len(toClient) <= Window
    /\ done \in BOOLEAN
    /\ handler \in {"receiving", "sending", "subscribed", "ok", "error"}
    /\ tally \in Tally /\ tally.failed <= tally.received
    /\ toSend \in Seq(Message)

-----------------------------------------------------------------------------
(* What the client has to send: one request, or the messages of a stream.  *)
ToSend ==
    CASE call.method \in {"ListUsers", "SubscribeToEvents"} -> 1
      [] call.method \in {"UploadData", "ProcessBatch"}     -> Items
      [] call.method = "Interactive"                        -> Len(Commands)

(* Mutant of Concurrent: the client sends everything before it reads.      *)
Concurrent_Never(c) == FALSE

(* Interactive has a goroutine for each side; the others send, then read.  *)
Concurrent(c) == c.method = "Interactive"

Init ==
    /\ call \in Calls
    /\ sender = "sending"
    /\ receiver = IF Concurrent(call) THEN "receiving" ELSE "waiting"
    /\ sent = 0
    /\ received = <<>>
    /\ timeUp = FALSE
    /\ late = 0
    /\ toServer = <<>>
    /\ halfClosed = FALSE
    /\ toClient = <<>>
    /\ done = FALSE
    /\ handler = "receiving"
    /\ tally = [received |-> 0, bytes |-> 0, failed |-> 0]
    /\ toSend = <<>>

Returned    == handler \in {"ok", "error"}
ClientEnded == sender = "exited" /\ receiver \in {"eof", "failed", "left"}

-----------------------------------------------------------------------------
(* The sending side: one Send per message ...                              *)
ClientSends ==
    /\ sender = "sending" /\ sent < ToSend
    /\ ~Returned /\ ~done
    /\ Len(toServer) < Window
    /\ sent' = sent + 1
    /\ toServer' = Append(toServer, sent + 1)
    /\ UNCHANGED <<call, sender, receiver, received, timeUp, late, serverVars,
                   halfClosed, toClient, done>>

(* ... which fails once the stream is over, and unless the other side has  *)
(* a goroutine of its own the client gives up ...                          *)
ClientSendFails ==
    /\ sender = "sending" /\ sent < ToSend
    /\ Returned \/ done
    /\ sender' = "exited"
    /\ receiver' = IF receiver = "waiting" THEN "failed" ELSE receiver
    /\ UNCHANGED <<call, sent, received, timeUp, late, serverVars, wireVars>>

(* ... and CloseSend, in the stub, in CloseAndRecv or by the goroutine.    *)
CloseSend ==
    /\ sender = "sending" /\ sent = ToSend
    /\ sender' = "exited"
    /\ halfClosed' = TRUE
    /\ receiver' = IF receiver # "waiting" THEN receiver
                   ELSE IF call.method = "SubscribeToEvents" THEN "checking" ELSE "receiving"
    /\ UNCHANGED <<call, sent, received, timeUp, late, serverVars, toServer, toClient, done>>

(* Mutant of TimeIsUp: the loop asks the context of the call.              *)
TimeIsUp_OfCall == done

(* The select of the subscriber's loop: eventCtx is a child of ctx.        *)
TimeIsUp == timeUp \/ done

(* The subscriber's loop leaves, and the client cancels the call ...       *)
Leave ==
    /\ receiver = "checking" /\ TimeIsUp
    /\ receiver' = "left"
    /\ done' = TRUE
    /\ UNCHANGED <<call, sender, sent, received, timeUp, late, serverVars,
                   toServer, halfClosed, toClient>>

(* ... or goes into a Recv that may block long after the 10 seconds.       *)
GoOn ==
    /\ receiver = "checking" /\ ~TimeIsUp
    /\ receiver' = "receiving"
    /\ UNCHANGED <<call, sender, sent, received, timeUp, late, serverVars, wireVars>>

(* Recv returns a message ...                                              *)
ClientReceives ==
    /\ receiver = "receiving" /\ toClient # <<>>
    /\ received' = Append(received, Head(toClient))
    /\ toClient' = Tail(toClient)
    /\ late' = IF timeUp THEN late + 1 ELSE late
    /\ receiver' = IF call.method = "SubscribeToEvents" THEN "checking" ELSE "receiving"
    /\ UNCHANGED <<call, sender, sent, timeUp, serverVars, toServer, halfClosed, done>>

(* ... or io.EOF behind the last one, or an error, or gives up at the      *)
(* deadline.                                                               *)
ClientStops ==
    /\ receiver = "receiving"
    /\ \/ handler = "ok" /\ toClient = <<>> /\ receiver' = "eof"
       \/ handler = "error" /\ toClient = <<>> /\ receiver' = "failed"
       \/ done /\ receiver' = "failed"
    /\ UNCHANGED <<call, sender, sent, received, timeUp, late, serverVars, wireVars>>

(* The context's deadline, and the one of eventCtx.                        *)
Deadline ==
    /\ ~done /\ ~ClientEnded
    /\ done' = TRUE
    /\ UNCHANGED <<clientVars, serverVars, toServer, halfClosed, toClient>>

EventDeadline ==
    /\ receiver \in {"checking", "receiving"}
    /\ call.method = "SubscribeToEvents" /\ ~timeUp
    /\ timeUp' = TRUE
    /\ UNCHANGED <<call, sender, receiver, sent, received, late, serverVars, wireVars>>

-----------------------------------------------------------------------------
(* ListUsers: the users that pass the filter, in the order of a map ...    *)
Passing(filter) ==
    {u \in Users : \/ filter = ""
                   \/ filter \in {"active", "inactive"} /\ Status[u] = filter}

(* Mutant of PageSize: a negative size is not replaced.                    *)
PageSize_ZeroOnly == IF call.pageSize = 0 THEN DefaultPageSize ELSE call.pageSize

PageSize == IF call.pageSize <= 0 THEN DefaultPageSize ELSE call.pageSize

(* ... of which a page is sent.                                            *)
Pages ==
    LET passing == Passing(call.filter)
        length  == IF PageSize < Cardinality(passing) THEN PageSize ELSE Cardinality(passing)
    IN  {page \in [1 .. length -> passing] : IsInjective(page)}

(* Mutant of Replies: a command that fails is not answered.                *)
Replies_OnlySuccess(n) ==
    IF Commands[n] \in {"ping", "echo", "time", "users"}
    THEN <<[id |-> n, success |-> TRUE]>>
    ELSE <<>>

(* Interactive: the switch over req.Command.                               *)
Replies(n) ==
    <<[id |-> n, success |-> Commands[n] \in {"ping", "echo", "time", "users"}]>>

(* Mutant of Count: an item that fails is not counted as received.         *)
Count_FailedUncounted(n, fails) ==
    [received |-> IF fails THEN tally.received ELSE tally.received + 1,
     bytes    |-> tally.bytes + call.size[n],
     failed   |-> IF fails THEN tally.failed + 1 ELSE tally.failed]

(* UploadData and ProcessBatch count what arrives; an item of a batch      *)
(* fails at random.                                                        *)
Count(n, fails) ==
    [received |-> tally.received + 1,
     bytes    |-> tally.bytes + call.size[n],
     failed   |-> IF fails THEN tally.failed + 1 ELSE tally.failed]

(* The client marks its last chunk IsLast, which ends the loop.            *)
IsLast(n) == call.method = "UploadData" /\ call.marked /\ n = Items

Counts(n) ==
    \E fails \in {FALSE, call.method = "ProcessBatch"} :
        /\ tally' = Count(n, fails)
        /\ IF IsLast(n)
           THEN handler' = "sending" /\ toSend' = <<Count(n, fails)>>
           ELSE handler' = "receiving" /\ UNCHANGED toSend

(* The handler (the generated _Handler for a single request) receives.     *)
HandlerReceives ==
    /\ handler = "receiving" /\ toServer # <<>>
    /\ toServer' = Tail(toServer)
    /\ LET n == Head(toServer) IN
       \/ /\ call.method = "ListUsers"
          /\ toSend' \in Pages
          /\ handler' = "sending"
          /\ UNCHANGED tally
       \/ /\ call.method = "SubscribeToEvents"
          /\ handler' = "subscribed"
          /\ UNCHANGED <<tally, toSend>>
       \/ /\ call.method = "Interactive"
          /\ toSend' = Replies(n)
          /\ handler' = "sending"
          /\ UNCHANGED tally
       \/ /\ call.method \in {"UploadData", "ProcessBatch"}
          /\ Counts(n)
    /\ UNCHANGED <<clientVars, halfClosed, toClient, done>>

(* Mutant of AtEnd: every error of Recv is taken for the end.              *)
AtEnd_AnyError == (halfClosed /\ toServer = <<>>) \/ done

(* Recv returns io.EOF.                                                    *)
AtEnd == halfClosed /\ toServer = <<>>

(* At io.EOF a conversation is over, an upload or a batch is summed up.    *)
HandlerReachesEnd ==
    /\ handler = "receiving" /\ AtEnd
    /\ \/ /\ call.method = "Interactive"
          /\ handler' = "ok"
          /\ UNCHANGED toSend
       \/ /\ call.method \in {"UploadData", "ProcessBatch"}
          /\ handler' = "sending"
          /\ toSend' = <<tally>>
    /\ UNCHANGED <<clientVars, tally, wireVars>>

(* The event stream (see EventStream) has an event for the client ...      *)
Publish ==
    /\ handler = "subscribed"
    /\ LET n == Len(received) + Len(toClient) + 1
       IN  n <= Events /\ toSend' = <<[event |-> n]>>
    /\ handler' = "sending"
    /\ UNCHANGED <<clientVars, tally, wireVars>>

(* ... until the context is done, and the handler returns nil.             *)
Unsubscribe ==
    /\ handler = "subscribed" /\ done
    /\ handler' = "ok"
    /\ UNCHANGED <<clientVars, tally, toSend, wireVars>>

(* Send, while there is something to send; the handler may learn late that *)
(* the stream is over ...                                                  *)
HandlerSends ==
    /\ handler = "sending" /\ toSend # <<>>
    /\ Len(toClient) < Window
    /\ toClient' = Append(toClient, Head(toSend))
    /\ toSend' = Tail(toSend)
    /\ UNCHANGED <<clientVars, handler, tally, toServer, halfClosed, done>>

(* ... and then the next Recv, the next event, or return nil.              *)
HandlerHasSent ==
    /\ handler = "sending" /\ toSend = <<>>
    /\ handler' = CASE call.method = "Interactive"       -> "receiving"
                    [] call.method = "SubscribeToEvents" -> "subscribed"
                    [] OTHER                             -> "ok"
    /\ UNCHANGED <<clientVars, tally, toSend, wireVars>>

(* Recv and Send fail once the stream is over: the handler returns that.   *)
HandlerFails ==
    /\ done
    /\ handler = "receiving" \/ (handler = "sending" /\ toSend # <<>>)
    /\ handler' = "error"
    /\ UNCHANGED <<clientVars, tally, toSend, wireVars>>

-----------------------------------------------------------------------------
Sender   == ClientSends \/ ClientSendFails \/ CloseSend
Receiver == Leave \/ GoOn \/ ClientReceives \/ ClientStops
Handler  == HandlerReceives \/ HandlerReachesEnd \/ Unsubscribe \/ HandlerSends
                \/ HandlerHasSent \/ HandlerFails

Next == Sender \/ Receiver \/ Handler \/ Publish \/ Deadline \/ EventDeadline

Spec == Init /\ [][Next]_vars

(* Both sides run.  Only a subscription, which has no end of its own,      *)
(* relies on its deadline; that of the other calls need never expire.      *)
FairSpec ==
    /\ Spec
    /\ WF_vars(Sender) /\ WF_vars(Receiver) /\ WF_vars(Handler)
    /\ WF_vars(call.method = "SubscribeToEvents" /\ Deadline)

-----------------------------------------------------------------------------
(* Interactive, "each message gets a reply": at every moment the responses *)
(* received and on their way answer the first requests, one each, in order,*)
(* the requests that fail included.                                        *)
EachAnswersItsRequest ==
    call.method = "Interactive" =>
        LET answers == received \o toClient
        IN  \A i \in 1 .. Len(answers) :
                /\ answers[i].id = i
                /\ answers[i].success <=> Commands[i] \notin {"unknown", "echo without text"}

(* A client that sees io.EOF has everything: an answer to each command it  *)
(* meant to send; every user that passes the filter once, or a page of the *)
(* size it asked for, or of the default one where it asked for none.  A    *)
(* stream cut short by an error never looks complete, and a subscription   *)
(* ends so only when its context is done.                                  *)
EofMeansComplete ==
    receiver = "eof" =>
        /\ call.method = "Interactive" => Len(received) = Len(Commands)
        /\ call.method = "ListUsers" =>
              /\ IsInjective(received)
              /\ Range(received) \subseteq Passing(call.filter)
              /\ \/ Range(received) = Passing(call.filter)
                 \/ Len(received) = call.pageSize
                 \/ call.pageSize <= 0 /\ Len(received) = DefaultPageSize
        /\ call.method = "SubscribeToEvents" => done

(* The bytes of the first n chunks or items, for each n.                   *)
BytesOfFirst(size) ==
    LET bytes[n \in 0 .. Items] == IF n = 0 THEN 0 ELSE bytes[n - 1] + size[n]
    IN  bytes

(* UploadData and ProcessBatch "process them all before sending a single   *)
(* response": a summary on its way, or received, covers all that the       *)
(* client meant to send, to the byte, whether the loop ended at IsLast or  *)
(* at io.EOF.  One cut short by a deadline has none.                       *)
SummaryCoversAll ==
    call.method \in {"UploadData", "ProcessBatch"} =>
        LET summaries == received \o toClient
        IN  /\ Len(summaries) <= 1
            /\ \A i \in 1 .. Len(summaries) :
                  /\ summaries[i].received = Items
                  /\ summaries[i].bytes = BytesOfFirst(call.size)[Items]

(* "Receiving events for 10 seconds" (client/main.go:169): at most one     *)
(* event is received after that, by the Recv that was under way.           *)
AtMostOneLate == late <= 1

(* However small the windows, the two sides never wait for each other's    *)
(* Send: client and handler come to an end, those of a subscription at the *)
(* latest with the deadline of the call, although the loop of the client   *)
(* looks at its 10 seconds only between two events.                        *)
CallEnds == <>(ClientEnded /\ Returned)
=============================================================================
