--------------------------- MODULE StreamingProofs ---------------------------
(***************************************************************************)
(* Proofs about StreamingCalls, for any users, any commands, any number of *)
(* messages and any window.                                                *)
(***************************************************************************)
EXTENDS StreamingCalls, SetInduction, FiniteSetTheorems, SequenceTheorems, TLAPS

(* What has been sent back, or is about to be, since the call began.       *)
Answers == received \o toClient \o toSend

(* The answer to the n-th command.                                         *)
Answer(n) == [id |-> n, success |-> Commands[n] \in {"ping", "echo", "time", "users"}]

(* The client sends what it has, the handler asks for the next message     *)
(* only when it has answered the last.                                     *)
Flow ==
    /\ sent <= ToSend
    /\ halfClosed => sent = ToSend /\ sender = "exited"
    /\ handler \in {"receiving", "subscribed", "ok"} => toSend = <<>>
    /\ handler = "subscribed" => call.method = "SubscribeToEvents"
    /\ receiver = "eof" => handler = "ok" /\ toClient = <<>>

(* No message is counted twice.                                            *)
Counting ==
    call.method \in {"UploadData", "ProcessBatch"} =>
        tally.received + Len(toServer) <= sent

(* A subscriber that has received an event in time asks for no other       *)
(* without a look at the time.                                             *)
Subscription ==
    /\ call.method = "SubscribeToEvents" =>
          /\ Len(received) + Len(toClient) + Len(toSend) <= Events
          /\ handler = "ok" => done
    /\ timeUp => call.method = "SubscribeToEvents"
    /\ late = 0 \/ (late = 1 /\ timeUp /\ receiver # "receiving" /\ received # <<>>)

(* The commands are answered in turn, and none is lost.                    *)
Conversation ==
    call.method = "Interactive" =>
        /\ sent = Len(Answers) + Len(toServer)
        /\ \A j \in 1 .. Len(toServer) : toServer[j] = Len(Answers) + j
        /\ \A i \in 1 .. Len(Answers) : Answers[i] = Answer(i)
        /\ handler = "ok" => toServer = <<>> /\ halfClosed

(* The users are sent once the request is there, as one page.              *)
Listing ==
    call.method = "ListUsers" =>
        /\ handler = "receiving" => received = <<>> /\ toClient = <<>>
        /\ handler \in {"sending", "ok"} => Answers \in Pages
        /\ Answers = <<>> \/ Answers \in Pages

(* What is counted is what was sent, in order and to the byte, and the     *)
(* summary is made when nothing is left to count.                          *)
Summing ==
    call.method \in {"UploadData", "ProcessBatch"} =>
        /\ tally.received + Len(toServer) = sent
        /\ \A j \in 1 .. Len(toServer) : toServer[j] = tally.received + j
        /\ tally.bytes = BytesOfFirst(call.size)[tally.received]
        /\ handler = "receiving" => Answers = <<>>
        /\ Answers # <<>> => Answers = <<tally>> /\ tally.received = Items

(* Who waits, and what for: the reader of a client with one goroutine for  *)
(* the end of the sending, the handler of a single request for that.       *)
Waiting ==
    /\ receiver = "waiting" => sender = "sending" /\ ~Concurrent(call)
    /\ sender = "exited" => halfClosed \/ Returned \/ done
    /\ receiver \in {"eof", "failed", "left"} => Returned \/ done
    /\ call.method \in {"ListUsers", "SubscribeToEvents"} =>
          /\ Len(toServer) <= sent
          /\ handler = "receiving" => Len(toServer) = sent

IInv ==
    /\ TypeOK /\ Flow /\ Counting /\ Subscription /\ Conversation /\ Listing
    /\ Summing /\ Waiting

-----------------------------------------------------------------------------
(* A message that moves from one queue to the next.                        *)
LEMMA PassedOn ==
    ASSUME NEW S, NEW a \in Seq(S), NEW b \in Seq(S), b # <<>>
    PROVE  Append(a, Head(b)) \o Tail(b) = a \o b
    <1>1. Head(b) \in S /\ Tail(b) \in Seq(S) /\ <<Head(b)>> \in Seq(S)
        BY HeadTailProperties
    <1>2. Append(a, Head(b)) = a \o <<Head(b)>>
        BY <1>1, AppendIsConcat
    <1>3. (a \o <<Head(b)>>) \o Tail(b) = a \o (<<Head(b)>> \o Tail(b))
        BY <1>1, ConcatAssociative
    <1>4. <<Head(b)>> \o Tail(b) = b
        <2>1. <<Head(b)>> \o Tail(b) \in Seq(S)
            BY <1>1, ConcatProperties
        <2>2. Len(<<Head(b)>> \o Tail(b)) = Len(b)
            BY <1>1
        <2>3. \A i \in 1 .. Len(b) : (<<Head(b)>> \o Tail(b))[i] = b[i]
            BY <1>1
        <2> QED BY <2>1, <2>2, <2>3, SeqEqual
    <1> QED BY <1>2, <1>3, <1>4

(* The calls and their arguments.                                          *)
LEMMA CallFacts ==
    ASSUME call \in Calls
    PROVE  /\ call.method \in {"ListUsers", "SubscribeToEvents", "Interactive",
                               "UploadData", "ProcessBatch"}
           /\ ToSend \in Nat
           /\ call.method = "ListUsers" => call.pageSize \in Int
           /\ call.method = "Interactive" => ToSend = Len(Commands)
           /\ call.method \in {"UploadData", "ProcessBatch"} =>
                  ToSend = Items /\ call.size \in [1 .. Items -> Sizes]
    <1>1. Len(Commands) \in Nat /\ Items \in Nat
        <2> DEFINE commands == {"ping", "echo", "echo without text", "time", "users", "unknown"}
        <2>1. Commands \in Seq(commands) /\ Items \in Nat
            BY StreamAssumption
        <2> HIDE DEF commands
        <2> QED BY <2>1, LenProperties
    <1>2. CASE call \in [method : {"ListUsers"}, filter : {""} \cup Statuses, pageSize : PageSizes]
        BY <1>2, UsersAssumption DEF ToSend
    <1>3. CASE call \in [method : {"SubscribeToEvents", "Interactive"}]
        BY <1>1, <1>3 DEF ToSend
    <1>4. CASE call \in [method : {"UploadData"}, size : [1 .. Items -> Sizes], marked : BOOLEAN]
        BY <1>1, <1>4 DEF ToSend
    <1>5. CASE call \in [method : {"ProcessBatch"}, size : [1 .. Items -> Sizes]]
        BY <1>1, <1>5 DEF ToSend
    <1> QED BY <1>2, <1>3, <1>4, <1>5 DEF Calls

(* What the handler sends are messages.                                    *)
LEMMA MessageFacts ==
    /\ \A s \in Seq(Users) : s \in Seq(Message)
    /\ \A t \in Tally : <<t>> \in Seq(Message)
    /\ \A n \in 1 .. Events : <<[event |-> n]>> \in Seq(Message)
    /\ \A n \in 1 .. Len(Commands) : Replies(n) \in Seq(Message)
    <1>1. ASSUME NEW s \in Seq(Users)
          PROVE  s \in Seq(Message)
        BY SeqMonotonic DEF Message
    <1>2. \A t \in Tally : t \in Message
        BY DEF Message
    <1>3. \A n \in 1 .. Events : [event |-> n] \in Message
        BY DEF Message
    <1>4. \A n \in 1 .. Len(Commands) : Answer(n) \in Message
        BY DEF Message, Response, Answer
    <1>5. \A n : Replies(n) = <<Answer(n)>>
        BY DEF Replies, Answer
    <1>6. \A m \in Message : <<m>> \in Seq(Message)
        OBVIOUS
    <1> QED BY <1>1, <1>2, <1>3, <1>4, <1>5, <1>6

(* A page: some of the users that pass, each once.                         *)
LEMMA PageFacts ==
    ASSUME call \in Calls, call.method = "ListUsers", NEW page \in Pages
    PROVE  /\ page \in Seq(Users)
           /\ IsInjective(page)
           /\ Range(page) \subseteq Passing(call.filter)
           /\ \/ Range(page) = Passing(call.filter)
              \/ Len(page) = call.pageSize
              \/ call.pageSize <= 0 /\ Len(page) = DefaultPageSize
           /\ Len(page) <= Cardinality(Users)
    <1> DEFINE passing == Passing(call.filter)
    <1> DEFINE length  == IF PageSize < Cardinality(passing) THEN PageSize ELSE Cardinality(passing)
    <1>1. /\ PageSize \in Nat
          /\ \/ PageSize = call.pageSize
             \/ call.pageSize <= 0 /\ PageSize = DefaultPageSize
        BY CallFacts, UsersAssumption DEF PageSize
    <1>2. /\ IsFiniteSet(passing) /\ Cardinality(passing) \in Nat /\ passing \subseteq Users
          /\ Cardinality(Users) \in Nat /\ Cardinality(passing) <= Cardinality(Users)
        <2>1. passing \subseteq Users
            BY DEF Passing
        <2> HIDE DEF passing
        <2> QED BY <2>1, UsersAssumption, FS_Subset, FS_CardinalityType
    <1>3. page \in [1 .. length -> passing] /\ IsInjective(page)
        BY DEF Pages
    <1> HIDE DEF passing
    <1>4. /\ length \in Nat /\ (length = PageSize \/ length = Cardinality(passing))
          /\ length <= Cardinality(Users)
        BY <1>1, <1>2
    <1> HIDE DEF length
    <1>5. page \in Seq(Users) /\ Len(page) = length /\ Len(page) <= Cardinality(Users)
        <2>1. page \in Seq(Users) /\ Len(page) = length
            BY <1>2, <1>3, <1>4
        <2> QED BY <1>4, <2>1, Zenon
    <1>6. Range(page) \subseteq passing
        BY <1>3 DEF Range
    <1>7. CASE length = PageSize
        BY <1>1, <1>3, <1>5, <1>6, <1>7 DEF passing
    <1>8. CASE length = Cardinality(passing)
        <2>1. IsFiniteSet(1 .. length) /\ Cardinality(1 .. length) = length
            BY <1>4, FS_Interval
        <2>2. page \in Injection(1 .. length, passing)
            BY <1>3 DEF Injection
        <2>3. page \in Surjection(1 .. length, passing)
            BY <1>2, <1>8, <2>1, <2>2, FS_Injection
        <2>4. Range(page) = passing
            BY <1>3, <2>3 DEF Surjection, Range
        <2> QED BY <1>3, <1>5, <2>4 DEF passing
    <1> QED BY <1>4, <1>7, <1>8

(* What BytesOfFirst computes, for any number of items: the function that  *)
(* it chooses exists, since one for n items extends to n + 1.              *)
LEMMA BytesFacts ==
    ASSUME NEW size
    PROVE  /\ BytesOfFirst(size)[0] = 0
           /\ \A n \in 1 .. Items :
                  BytesOfFirst(size)[n] = BytesOfFirst(size)[n - 1] + size[n]
    <1> DEFINE IsSum(f, n) == f = [i \in 0 .. n |-> IF i = 0 THEN 0 ELSE f[i - 1] + size[i]]
               T == {n \in Nat : \E f : IsSum(f, n)}
               bytes == CHOOSE f : f = [i \in 0 .. Items |-> IF i = 0 THEN 0 ELSE f[i - 1] + size[i]]
    <1>1. 0 \in T
        <2>1. IsSum([i \in 0 .. 0 |-> 0], 0)
            OBVIOUS
        <2> QED BY <2>1
    <1>2. ASSUME NEW n \in Nat, n \in T
          PROVE  n + 1 \in T
        <2>1. PICK f : IsSum(f, n)
            BY <1>2
        <2> DEFINE g == [i \in 0 .. n + 1 |-> IF i = n + 1 THEN f[n] + size[n + 1] ELSE f[i]]
        <2>2. ASSUME NEW i \in 0 .. n + 1
              PROVE  g[i] = IF i = 0 THEN 0 ELSE g[i - 1] + size[i]
            <3>1. CASE i = n + 1
                <4>1. g[i] = f[n] + size[n + 1] /\ i - 1 = n /\ n \in 0 .. n + 1 /\ n # n + 1
                    BY <3>1
                <4>2. g[n] = f[n]
                    BY <4>1
                <4> QED BY <3>1, <4>1, <4>2
            <3>2. CASE i \in 1 .. n
                <4>1. i - 1 \in 0 .. n /\ i \in 0 .. n /\ i # n + 1 /\ i - 1 # n + 1 /\ i # 0
                    BY <3>2
                <4>2. g[i] = f[i] /\ g[i - 1] = f[i - 1]
                    BY <4>1
                <4>3. f[i] = f[i - 1] + size[i]
                    BY <2>1, <4>1
                <4> QED BY <4>1, <4>2, <4>3
            <3>3. CASE i = 0
                BY <2>1, <3>3
            <3> QED BY <3>1, <3>2, <3>3
        <2>3. IsSum(g, n + 1)
            <3> HIDE DEF g
            <3>1. g = [i \in 0 .. n + 1 |-> g[i]]
                BY DEF g
            <3> QED BY <2>2, <3>1
        <2> HIDE DEF g
        <2> QED BY <2>3
    <1>3. Items \in T
        <2>1. Nat \subseteq T
            <3> HIDE DEF T
            <3> QED BY <1>1, <1>2, HoldsForAll
        <2>2. Items \in Nat
            BY StreamAssumption
        <2> HIDE DEF T
        <2> QED BY <2>1, <2>2
    <1>4. PICK f : IsSum(f, Items)
        BY <1>3
    <1>5. bytes = [i \in 0 .. Items |-> IF i = 0 THEN 0 ELSE bytes[i - 1] + size[i]]
        BY <1>4
    <1>6. bytes = BytesOfFirst(size)
        BY Zenon DEF BytesOfFirst
    <1> HIDE DEF bytes
    <1>7. Items \in Nat
        BY StreamAssumption
    <1>8. \A n \in 0 .. Items : bytes[n] = IF n = 0 THEN 0 ELSE bytes[n - 1] + size[n]
        <2> DEFINE sums == [i \in 0 .. Items |-> IF i = 0 THEN 0 ELSE bytes[i - 1] + size[i]]
        <2>1. \A n \in 0 .. Items : sums[n] = IF n = 0 THEN 0 ELSE bytes[n - 1] + size[n]
            OBVIOUS
        <2>2. bytes = sums
            BY <1>5
        <2> HIDE DEF sums
        <2> QED BY <2>1, <2>2, Zenon
    <1>9. 0 \in 0 .. Items /\ \A n \in 1 .. Items : n \in 0 .. Items /\ n # 0
        BY <1>7
    <1>10. bytes[0] = 0 /\ \A n \in 1 .. Items : bytes[n] = bytes[n - 1] + size[n]
        BY <1>8, <1>9
    <1> QED BY <1>6, <1>10

-----------------------------------------------------------------------------
(* Every queue by itself.                                                  *)
LEMMA QueueFacts ==
    ASSUME TypeOK
    PROVE  /\ received \in Seq(Message) /\ toClient \in Seq(Message) /\ toSend \in Seq(Message)
           /\ Len(received) \in Nat /\ Len(toClient) \in Nat /\ Len(toSend) \in Nat
           /\ Len(toServer) \in Nat /\ sent \in Nat
           /\ Answers \in Seq(Message)
           /\ Len(Answers) = Len(received) + Len(toClient) + Len(toSend)
    <1>1. received \in Seq(Message) /\ toClient \in Seq(Message) /\ toSend \in Seq(Message)
        BY DEF TypeOK
    <1>2. Len(toServer) \in Nat /\ sent \in Nat
        BY DEF TypeOK
    <1>3. received \o toClient \in Seq(Message) /\ Len(received \o toClient) = Len(received) + Len(toClient)
        BY <1>1, ConcatProperties
    <1>4. Answers \in Seq(Message) /\ Len(Answers) = Len(received \o toClient) + Len(toSend)
        BY <1>1, <1>3, ConcatProperties DEF Answers
    <1>5. Len(received) \in Nat /\ Len(toClient) \in Nat /\ Len(toSend) \in Nat
        BY <1>1, LenProperties
    <1> QED BY <1>1, <1>2, <1>3, <1>4, <1>5

(* On its way from the handler to the client an answer keeps its place.    *)
LEMMA AnswersKeepPlace ==
    ASSUME TypeOK
    PROVE  /\ ClientReceives => Answers' = Answers
           /\ HandlerSends => Answers' = Answers
           /\ UNCHANGED <<received, toClient, toSend>> => Answers' = Answers
    <1>1. ASSUME ClientReceives
          PROVE  Answers' = Answers
        <2>1. /\ toClient # <<>>
              /\ received' = Append(received, Head(toClient))
              /\ toClient' = Tail(toClient) /\ toSend' = toSend
            BY <1>1 DEF ClientReceives, serverVars
        <2>2. received' \o toClient' = received \o toClient
            BY <2>1, QueueFacts, PassedOn
        <2> QED BY <2>1, <2>2 DEF Answers
    <1>2. ASSUME HandlerSends
          PROVE  Answers' = Answers
        <2>1. /\ toSend # <<>>
              /\ toClient' = Append(toClient, Head(toSend))
              /\ toSend' = Tail(toSend) /\ received' = received
            BY <1>2 DEF HandlerSends, clientVars
        <2>2. toClient' \o toSend' = toClient \o toSend
            BY <2>1, QueueFacts, PassedOn
        <2>3. toClient' \in Seq(Message) /\ toSend' \in Seq(Message)
            <3>1. Head(toSend) \in Message /\ Tail(toSend) \in Seq(Message)
                BY <2>1, QueueFacts, HeadTailProperties
            <3> QED BY <2>1, <3>1, QueueFacts, AppendProperties
        <2>4. /\ received \in Seq(Message) /\ toClient \in Seq(Message)
              /\ toSend \in Seq(Message)
            BY QueueFacts
        <2>5. (received \o toClient') \o toSend' = received \o (toClient' \o toSend')
            BY <2>3, <2>4, ConcatAssociative
        <2>6. (received \o toClient) \o toSend = received \o (toClient \o toSend)
            BY <2>4, ConcatAssociative
        <2> QED BY <2>1, <2>2, <2>5, <2>6 DEF Answers
    <1>3. UNCHANGED <<received, toClient, toSend>> => Answers' = Answers
        BY DEF Answers
    <1> QED BY <1>1, <1>2, <1>3

-----------------------------------------------------------------------------
LEMMA TypeInit ==
    ASSUME Init
    PROVE  TypeOK
    <1>1. <<>> \in Seq(Message) /\ Len(<<>>) = 0 /\ <<>> \in Seq(1 .. 0)
        BY EmptySeq
    <1>2. 0 \in 0 .. Events /\ 0 \in 0 .. Items /\ 0 <= Window
        <2>1. Events \in Nat /\ Items \in Nat /\ Window \in Nat
            BY StreamAssumption
        <2> QED BY <2>1
    <1>3. tally \in Tally /\ tally.failed <= tally.received
        BY <1>2 DEF Init, Tally
    <1>4. receiver \in {"waiting", "receiving"}
        BY DEF Init
    <1> QED BY <1>1, <1>2, <1>3, <1>4 DEF Init, TypeOK

(* The numbers on their way to the handler.                                *)
LEMMA NumbersStep ==
    ASSUME TypeOK, [Next]_vars
    PROVE  sent' \in Nat /\ toServer' \in Seq(1 .. sent') /\ Len(toServer') <= Window
    <1>1. CASE ClientSends
        <2>1. /\ sent' = sent + 1 /\ sent \in Nat /\ toServer' = Append(toServer, sent + 1)
              /\ toServer \in Seq(1 .. sent) /\ Len(toServer) < Window
            BY <1>1 DEF ClientSends, TypeOK
        <2>2. toServer \in Seq(1 .. sent + 1)
            <3>1. 1 .. sent \subseteq 1 .. sent + 1
                BY <2>1
            <3> QED BY <2>1, <3>1, SeqMonotonic
        <2>3. sent + 1 \in 1 .. sent + 1
            BY <2>1
        <2>4. toServer' \in Seq(1 .. sent + 1) /\ Len(toServer') = Len(toServer) + 1
            BY <2>1, <2>2, <2>3, AppendProperties
        <2>5. Len(toServer) \in Nat /\ Window \in Nat
            BY <2>2, LenProperties, StreamAssumption
        <2> QED BY <2>1, <2>4, <2>5
    <1>2. CASE HandlerReceives
        <2>1. /\ sent' = sent /\ sent \in Nat /\ toServer # <<>> /\ toServer' = Tail(toServer)
              /\ toServer \in Seq(1 .. sent) /\ Len(toServer) <= Window
            BY <1>2 DEF HandlerReceives, clientVars, TypeOK
        <2>2. toServer' \in Seq(1 .. sent) /\ Len(toServer') = Len(toServer) - 1
            BY <2>1, HeadTailProperties
        <2>3. Len(toServer) \in Nat /\ Window \in Nat
            BY <2>1, LenProperties, StreamAssumption
        <2> QED BY <2>1, <2>2, <2>3
    <1>3. CASE UNCHANGED <<sent, toServer>>
        BY <1>3 DEF TypeOK
    <1>4. [Next]_vars => ClientSends \/ HandlerReceives \/ UNCHANGED <<sent, toServer>>
        BY DEF Next, Sender, Receiver, Handler, ClientSendFails, CloseSend, Leave, GoOn,
               ClientReceives, ClientStops, HandlerReachesEnd, Publish, Unsubscribe, HandlerSends,
               HandlerHasSent, HandlerFails, Deadline, EventDeadline,
               vars, clientVars, serverVars, wireVars
    <1> QED BY <1>1, <1>2, <1>3, <1>4

(* A counted message is one more, failed or not.                           *)
LEMMA CountFacts ==
    ASSUME TypeOK, tally.received < Items, call.size \in [1 .. Items -> Sizes],
           NEW n \in 1 .. Items, NEW fails \in BOOLEAN
    PROVE  /\ Count(n, fails) \in Tally
           /\ Count(n, fails).received = tally.received + 1
           /\ Count(n, fails).failed <= Count(n, fails).received
    <1>1. /\ tally.received \in 0 .. Items /\ tally.failed \in 0 .. Items /\ tally.bytes \in Nat
          /\ tally.failed <= tally.received
        BY DEF TypeOK, Tally
    <1>2. call.size[n] \in Nat /\ Items \in Nat
        <2>1. Sizes \subseteq Nat /\ Items \in Nat
            BY StreamAssumption
        <2> QED BY <2>1
    <1>3. /\ Count(n, fails).received = tally.received + 1
          /\ Count(n, fails).bytes = tally.bytes + call.size[n]
          /\ Count(n, fails).failed = IF fails THEN tally.failed + 1 ELSE tally.failed
        BY DEF Count
    <1>4. /\ tally.received + 1 \in 0 .. Items
          /\ tally.bytes + call.size[n] \in Nat
          /\ (IF fails THEN tally.failed + 1 ELSE tally.failed) \in 0 .. Items
          /\ (IF fails THEN tally.failed + 1 ELSE tally.failed) <= tally.received + 1
        BY <1>1, <1>2
    <1>5. Count(n, fails) \in Tally
        BY <1>4 DEF Count, Tally
    <1> QED BY <1>3, <1>4, <1>5

(* What the handler does with a message.                                   *)
LEMMA ReceiveFacts ==
    ASSUME TypeOK, Flow, Counting, HandlerReceives
    PROVE  /\ toSend = <<>> /\ toServer # <<>> /\ toServer' = Tail(toServer)
           /\ UNCHANGED <<clientVars, halfClosed, toClient, done>>
           /\ handler = "receiving"
           /\ Head(toServer) \in 1 .. ToSend
           /\ tally' \in Tally /\ tally'.failed <= tally'.received
           /\ call.method = "ListUsers" => toSend' \in Pages /\ handler' = "sending"
           /\ call.method = "SubscribeToEvents" => toSend' = <<>> /\ handler' = "subscribed"
           /\ call.method = "Interactive" =>
                  toSend' = <<Answer(Head(toServer))>> /\ handler' = "sending"
           /\ call.method \in {"UploadData", "ProcessBatch"} =>
                  /\ \/ handler' = "sending" /\ toSend' = <<tally'>>
                     \/ handler' = "receiving" /\ toSend' = <<>>
                  /\ tally'.received = tally.received + 1
    <1> DEFINE n == Head(toServer)
    <1>1. /\ handler = "receiving" /\ toServer # <<>> /\ toServer' = Tail(toServer)
          /\ UNCHANGED <<clientVars, halfClosed, toClient, done>>
        BY DEF HandlerReceives
    <1>2. toSend = <<>>
        BY <1>1 DEF Flow
    <1>3. n \in 1 .. ToSend
        <2>1. toServer \in Seq(1 .. sent) /\ sent \in Nat /\ sent <= ToSend
            BY DEF TypeOK, Flow
        <2>2. n \in 1 .. sent
            BY <1>1, <2>1, HeadTailProperties
        <2>3. ToSend \in Nat
            BY CallFacts DEF TypeOK
        <2> HIDE DEF n
        <2> QED BY <2>1, <2>2, <2>3
    <1>4. tally \in Tally /\ tally.failed <= tally.received
        BY DEF TypeOK
    <1>5. CASE call.method = "ListUsers"
        BY <1>1, <1>2, <1>3, <1>4, <1>5 DEF HandlerReceives
    <1>6. CASE call.method = "SubscribeToEvents"
        BY <1>1, <1>2, <1>3, <1>4, <1>6 DEF HandlerReceives
    <1>7. CASE call.method = "Interactive"
        BY <1>1, <1>2, <1>3, <1>4, <1>7 DEF HandlerReceives, Replies, Answer
    <1>8. CASE call.method \in {"UploadData", "ProcessBatch"}
        <2>1. Counts(n)
            BY <1>8 DEF HandlerReceives
        <2>2. PICK fails \in BOOLEAN :
                  /\ tally' = Count(n, fails)
                  /\ \/ handler' = "sending" /\ toSend' = <<Count(n, fails)>>
                     \/ handler' = "receiving" /\ toSend' = toSend
            BY <2>1 DEF Counts
        <2>3. ToSend = Items /\ call.size \in [1 .. Items -> Sizes]
            BY <1>8, CallFacts DEF TypeOK
        <2>4. tally.received < Items
            <3>1. tally.received + Len(toServer) <= sent /\ sent <= ToSend
                BY <1>8 DEF Counting, Flow
            <3>2. Len(toServer) \in Nat \ {0} /\ sent \in Nat
                BY <1>1, EmptySeq DEF TypeOK
            <3>3. tally.received \in 0 .. Items /\ Items \in Nat
                <4>1. Items \in Nat
                    BY StreamAssumption
                <4> QED BY <1>4, <4>1 DEF Tally
            <3> QED BY <2>3, <3>1, <3>2, <3>3
        <2>5. /\ Count(n, fails) \in Tally
              /\ Count(n, fails).received = tally.received + 1
              /\ Count(n, fails).failed <= Count(n, fails).received
            BY <1>3, <2>3, <2>4, CountFacts
        <2> HIDE DEF n
        <2> QED BY <1>1, <1>2, <1>3, <1>8, <2>2, <2>5 DEF n
    <1> QED BY <1>5, <1>6, <1>7, <1>8, CallFacts DEF TypeOK

(* The messages on their way back, and those about to be.                  *)
LEMMA QueuesStep ==
    ASSUME TypeOK, Flow, Counting, [Next]_vars
    PROVE  /\ received' \in Seq(Message) /\ toSend' \in Seq(Message)
           /\ toClient' \in Seq(Message) /\ Len(toClient') <= Window
    <1>1. /\ received \in Seq(Message) /\ toSend \in Seq(Message)
          /\ toClient \in Seq(Message) /\ Len(toClient) <= Window
          /\ Len(toClient) \in Nat /\ Window \in Nat /\ Events \in Nat
        <2>1. Window \in Nat /\ Events \in Nat
            BY StreamAssumption
        <2> QED BY <2>1, QueueFacts DEF TypeOK
    <1>2. CASE ClientReceives
        <2>1. /\ toClient # <<>> /\ received' = Append(received, Head(toClient))
              /\ toClient' = Tail(toClient) /\ toSend' = toSend
            BY <1>2 DEF ClientReceives, serverVars
        <2>2. /\ Head(toClient) \in Message /\ Tail(toClient) \in Seq(Message)
              /\ Len(Tail(toClient)) = Len(toClient) - 1
            BY <1>1, <2>1, HeadTailProperties
        <2>3. received' \in Seq(Message)
            BY <1>1, <2>1, <2>2, AppendProperties
        <2> QED BY <1>1, <2>1, <2>2, <2>3
    <1>3. CASE HandlerSends
        <2>1. /\ toSend # <<>> /\ toClient' = Append(toClient, Head(toSend))
              /\ toSend' = Tail(toSend) /\ received' = received /\ Len(toClient) < Window
            BY <1>3 DEF HandlerSends, clientVars
        <2>2. Head(toSend) \in Message /\ Tail(toSend) \in Seq(Message)
            BY <1>1, <2>1, HeadTailProperties
        <2>3. toClient' \in Seq(Message) /\ Len(toClient') = Len(toClient) + 1
            BY <1>1, <2>1, <2>2, AppendProperties
        <2> QED BY <1>1, <2>1, <2>2, <2>3
    <1>4. CASE Publish
        <2>1. PICK n \in Nat : n >= 1 /\ n <= Events /\ toSend' = <<[event |-> n]>>
            BY <1>4, QueueFacts DEF Publish
        <2>2. toSend' \in Seq(Message)
            BY <1>1, <2>1, MessageFacts
        <2>3. received' = received /\ toClient' = toClient
            BY <1>4 DEF Publish, clientVars, wireVars
        <2> QED BY <1>1, <2>2, <2>3
    <1>5. CASE HandlerReachesEnd
        <2>1. /\ toSend' = toSend \/ toSend' = <<tally>>
              /\ received' = received /\ toClient' = toClient
            BY <1>5 DEF HandlerReachesEnd, clientVars, wireVars
        <2>2. tally \in Tally
            BY DEF TypeOK
        <2>3. toSend' \in Seq(Message)
            BY <1>1, <2>1, <2>2, MessageFacts
        <2> QED BY <1>1, <2>1, <2>3
    <1>6. CASE HandlerReceives
        <2>1. received' = received /\ toClient' = toClient
            BY <1>6, ReceiveFacts DEF clientVars
        <2>2. toSend' \in Seq(Message)
            <3>1. CASE call.method = "ListUsers"
                <4>1. toSend' \in Pages /\ call \in Calls
                    BY <1>6, <3>1, ReceiveFacts DEF TypeOK
                <4>2. toSend' \in Seq(Users)
                    BY <3>1, <4>1, PageFacts
                <4> QED BY <4>2, MessageFacts
            <3>2. CASE call.method = "SubscribeToEvents"
                BY <1>6, <3>2, ReceiveFacts
            <3>3. CASE call.method = "Interactive"
                <4>1. toSend' = Replies(Head(toServer))
                    BY <1>6, <3>3, ReceiveFacts DEF Replies, Answer
                <4>2. Head(toServer) \in 1 .. Len(Commands)
                    BY <1>6, <3>3, ReceiveFacts, CallFacts DEF TypeOK
                <4> QED BY <4>1, <4>2, MessageFacts
            <3>4. CASE call.method \in {"UploadData", "ProcessBatch"}
                <4>1. (toSend' = <<tally'>> \/ toSend' = <<>>) /\ tally' \in Tally
                    BY <1>6, <3>4, ReceiveFacts
                <4>2. <<tally'>> \in Seq(Message) /\ <<>> \in Seq(Message)
                    BY <4>1, MessageFacts
                <4> QED BY <4>1, <4>2
            <3> QED BY <3>1, <3>2, <3>3, <3>4, CallFacts DEF TypeOK
        <2> QED BY <1>1, <2>1, <2>2
    <1>7. CASE UNCHANGED <<received, toClient, toSend>>
        BY <1>1, <1>7
    <1>8. [Next]_vars =>
              \/ HandlerReceives \/ ClientReceives \/ HandlerSends \/ Publish \/ HandlerReachesEnd
              \/ UNCHANGED <<received, toClient, toSend>>
        BY DEF Next, Sender, Receiver, Handler, ClientSends, ClientSendFails, CloseSend, Leave,
               GoOn, ClientStops, Unsubscribe, HandlerHasSent, HandlerFails, Deadline,
               EventDeadline, vars, clientVars, serverVars, wireVars
    <1> QED BY <1>2, <1>3, <1>4, <1>5, <1>6, <1>7, <1>8

-----------------------------------------------------------------------------
LEMMA SameCall ==
    ASSUME [Next]_vars
    PROVE  call' = call /\ ToSend' = ToSend
    <1>1. call' = call
        BY DEF Next, Sender, Receiver, Handler, ClientSends, ClientSendFails, CloseSend, Leave,
               GoOn, ClientReceives, ClientStops, HandlerReceives, HandlerReachesEnd, Publish,
               Unsubscribe, HandlerSends, HandlerHasSent, HandlerFails, Deadline, EventDeadline,
               vars, clientVars, serverVars, wireVars
    <1> QED BY <1>1 DEF ToSend

LEMMA FlowStep ==
    ASSUME TypeOK, Flow, Counting, [Next]_vars
    PROVE  Flow'
    <1>1. ToSend' = ToSend /\ ToSend \in Nat /\ sent \in Nat /\ call' = call
        BY SameCall, CallFacts DEF TypeOK
    <1> USE <1>1 DEF Flow
    <1>2. CASE ClientSends
        BY <1>2 DEF ClientSends, serverVars
    <1>3. CASE ClientSendFails
        BY <1>3 DEF ClientSendFails, serverVars, wireVars
    <1>4. CASE CloseSend
        BY <1>4 DEF CloseSend, serverVars
    <1>5. CASE Leave
        BY <1>5 DEF Leave, serverVars
    <1>6. CASE GoOn
        BY <1>6 DEF GoOn, serverVars, wireVars
    <1>7. CASE ClientReceives
        BY <1>7 DEF ClientReceives, serverVars
    <1>8. CASE ClientStops
        BY <1>8 DEF ClientStops, serverVars, wireVars
    <1>9. CASE HandlerReceives
        <2>1. /\ UNCHANGED <<sent, sender, receiver, halfClosed, toClient>>
              /\ handler = "receiving" /\ toSend = <<>>
            BY <1>9, ReceiveFacts DEF clientVars
        <2>2. /\ handler' # "ok"
              /\ handler' \in {"receiving", "subscribed"} => toSend' = <<>>
              /\ handler' = "subscribed" => call.method = "SubscribeToEvents"
            BY <1>9, ReceiveFacts, CallFacts DEF TypeOK
        <2> QED BY <2>1, <2>2
    <1>10. CASE HandlerReachesEnd
        BY <1>10 DEF HandlerReachesEnd, clientVars, wireVars
    <1>11. CASE Publish
        BY <1>11 DEF Publish, clientVars, wireVars
    <1>12. CASE Unsubscribe
        BY <1>12 DEF Unsubscribe, clientVars, wireVars
    <1>13. CASE HandlerSends
        BY <1>13 DEF HandlerSends, clientVars
    <1>14. CASE HandlerHasSent
        BY <1>14 DEF HandlerHasSent, clientVars, wireVars
    <1>15. CASE HandlerFails
        BY <1>15 DEF HandlerFails, clientVars, wireVars
    <1>16. CASE Deadline
        BY <1>16 DEF Deadline, clientVars, serverVars
    <1>17. CASE EventDeadline
        BY <1>17 DEF EventDeadline, serverVars, wireVars
    <1>18. CASE UNCHANGED vars
        BY <1>18 DEF vars, clientVars, serverVars, wireVars
    <1> QED BY <1>2, <1>3, <1>4, <1>5, <1>6, <1>7, <1>8, <1>9, <1>10, <1>11, <1>12, <1>13, <1>14,
               <1>15, <1>16, <1>17, <1>18 DEF Next, Sender, Receiver, Handler

LEMMA CountingStep ==
    ASSUME TypeOK, Flow, Counting, [Next]_vars
    PROVE  Counting'
    <1> SUFFICES ASSUME call.method \in {"UploadData", "ProcessBatch"}
                 PROVE  tally'.received + Len(toServer') <= sent'
        BY SameCall DEF Counting
    <1>1. /\ tally.received \in Nat /\ Len(toServer) \in Nat /\ sent \in Nat
          /\ tally.received + Len(toServer) <= sent
        <2>1. tally.received \in 0 .. Items /\ Items \in Nat
            <3>1. Items \in Nat
                BY StreamAssumption
            <3> QED BY <3>1 DEF TypeOK, Tally
        <2> QED BY <2>1, QueueFacts DEF Counting
    <1>2. CASE ClientSends
        <2>1. /\ sent' = sent + 1 /\ tally' = tally /\ toServer' = Append(toServer, sent + 1)
              /\ toServer \in Seq(1 .. sent)
            BY <1>2 DEF ClientSends, serverVars, TypeOK
        <2>2. Len(toServer') = Len(toServer) + 1
            BY <2>1
        <2> QED BY <1>1, <2>1, <2>2
    <1>3. CASE HandlerReceives
        <2>1. /\ sent' = sent /\ toServer # <<>> /\ toServer' = Tail(toServer)
              /\ tally'.received = tally.received + 1 /\ toServer \in Seq(1 .. sent)
            BY <1>3, ReceiveFacts DEF clientVars, TypeOK
        <2>2. Len(toServer') = Len(toServer) - 1
            BY <2>1, HeadTailProperties
        <2> QED BY <1>1, <2>1, <2>2
    <1>4. CASE UNCHANGED <<sent, toServer, tally>>
        BY <1>1, <1>4
    <1>5. [Next]_vars => ClientSends \/ HandlerReceives \/ UNCHANGED <<sent, toServer, tally>>
        BY DEF Next, Sender, Receiver, Handler, ClientSendFails, CloseSend, Leave, GoOn,
               ClientReceives, ClientStops, HandlerReachesEnd, Publish, Unsubscribe, HandlerSends,
               HandlerHasSent, HandlerFails, Deadline, EventDeadline,
               vars, clientVars, serverVars, wireVars
    <1> QED BY <1>2, <1>3, <1>4, <1>5

(* How far a subscription has come.                                        *)
LEMMA EventsStep ==
    ASSUME TypeOK, Flow, Counting, Subscription, [Next]_vars,
           call.method = "SubscribeToEvents"
    PROVE  Len(received') + Len(toClient') + Len(toSend') <= Events
    <1>1. /\ Len(received) \in Nat /\ Len(toClient) \in Nat /\ Len(toSend) \in Nat
          /\ Events \in Nat /\ Len(received) + Len(toClient) + Len(toSend) <= Events
        <2>1. Events \in Nat
            BY StreamAssumption
        <2> QED BY <2>1, QueueFacts DEF Subscription
    <1>2. CASE Publish
        <2>1. PICK n \in Nat :
                  n = Len(received) + Len(toClient) + 1 /\ n <= Events /\ toSend' = <<[event |-> n]>>
            BY <1>1, <1>2 DEF Publish
        <2>2. received' = received /\ toClient' = toClient
            BY <1>2 DEF Publish, clientVars, wireVars
        <2>3. Len(toSend') = 1
            BY <2>1
        <2> QED BY <1>1, <2>1, <2>2, <2>3
    <1>3. CASE HandlerReceives
        BY <1>1, <1>3, ReceiveFacts DEF clientVars
    <1>4. CASE ClientReceives
        <2>1. /\ received' = Append(received, Head(toClient)) /\ toClient # <<>>
              /\ toClient' = Tail(toClient) /\ toSend' = toSend
            BY <1>4 DEF ClientReceives, serverVars
        <2>2. Len(received') = Len(received) + 1 /\ Len(toClient') = Len(toClient) - 1
            <3>1. received \in Seq(Message) /\ toClient \in Seq(Message)
                BY QueueFacts
            <3> QED BY <2>1, <3>1, HeadTailProperties, AppendProperties
        <2> QED BY <1>1, <2>1, <2>2
    <1>5. CASE HandlerSends
        <2>1. /\ toClient' = Append(toClient, Head(toSend)) /\ toSend # <<>>
              /\ toSend' = Tail(toSend) /\ received' = received
            BY <1>5 DEF HandlerSends, clientVars
        <2>2. Len(toClient') = Len(toClient) + 1 /\ Len(toSend') = Len(toSend) - 1
            <3>1. toClient \in Seq(Message) /\ toSend \in Seq(Message)
                BY QueueFacts
            <3> QED BY <2>1, <3>1, HeadTailProperties, AppendProperties
        <2> QED BY <1>1, <2>1, <2>2
    <1>6. CASE UNCHANGED <<received, toClient, toSend>>
        BY <1>1, <1>6
    <1>7. HandlerReachesEnd => call.method # "SubscribeToEvents"
        BY DEF HandlerReachesEnd
    <1>8. [Next]_vars =>
              \/ HandlerReceives \/ ClientReceives \/ HandlerSends \/ Publish \/ HandlerReachesEnd
              \/ UNCHANGED <<received, toClient, toSend>>
        BY DEF Next, Sender, Receiver, Handler, ClientSends, ClientSendFails, CloseSend, Leave,
               GoOn, ClientStops, Unsubscribe, HandlerHasSent, HandlerFails, Deadline,
               EventDeadline, vars, clientVars, serverVars, wireVars
    <1> QED BY <1>2, <1>3, <1>4, <1>5, <1>6, <1>7, <1>8

LEMMA SubscriptionStep ==
    ASSUME TypeOK, Flow, Counting, Subscription, [Next]_vars
    PROVE  Subscription'
    <1>1. call' = call
        BY SameCall
    <1>2. call.method = "SubscribeToEvents" =>
              Len(received') + Len(toClient') + Len(toSend') <= Events
        BY EventsStep
    <1>3. call.method = "SubscribeToEvents" /\ handler' = "ok" => done'
        <2>1. HandlerReceives => call.method # "SubscribeToEvents" \/ handler' # "ok"
            BY ReceiveFacts
        <2>2. (handler = "ok" => done) \/ call.method # "SubscribeToEvents"
            BY DEF Subscription
        <2> QED BY <2>1, <2>2
            DEF Next, Sender, Receiver, Handler, ClientSends, ClientSendFails, CloseSend, Leave,
                GoOn, ClientReceives, ClientStops, HandlerReachesEnd, Publish, Unsubscribe,
                HandlerSends, HandlerHasSent, HandlerFails, Deadline, EventDeadline,
                HandlerReceives, vars, clientVars, serverVars, wireVars
    <1>4. timeUp' => call.method = "SubscribeToEvents"
        BY DEF Subscription, Next, Sender, Receiver, Handler, ClientSends, ClientSendFails,
               CloseSend, Leave, GoOn, ClientReceives, ClientStops, HandlerReceives,
               HandlerReachesEnd, Publish, Unsubscribe, HandlerSends, HandlerHasSent, HandlerFails,
               Deadline, EventDeadline, vars, clientVars, serverVars, wireVars
    <1>5. late' = 0 \/ (late' = 1 /\ timeUp' /\ receiver' # "receiving" /\ received' # <<>>)
        <2>1. /\ timeUp => call.method = "SubscribeToEvents"
              /\ late = 0 \/ (late = 1 /\ timeUp /\ receiver # "receiving" /\ received # <<>>)
            BY DEF Subscription
        <2>2. CASE ClientReceives
            <3>1. /\ receiver = "receiving" /\ timeUp' = timeUp
                  /\ late' = IF timeUp THEN late + 1 ELSE late
                  /\ received' = Append(received, Head(toClient))
                  /\ receiver' = IF call.method = "SubscribeToEvents" THEN "checking" ELSE "receiving"
                BY <2>2 DEF ClientReceives
            <3>2. received' # <<>>
                <4>1. received \in Seq(Message) /\ toClient \in Seq(Message) /\ toClient # <<>>
                    BY <2>2, QueueFacts DEF ClientReceives
                <4> QED BY <3>1, <4>1, HeadTailProperties, AppendProperties
            <3> QED BY <2>1, <3>1, <3>2
        <2>3. CASE CloseSend
            BY <2>1, <2>3 DEF CloseSend
        <2>4. CASE GoOn
            BY <2>1, <2>4 DEF GoOn, TimeIsUp
        <2>5. CASE ~(ClientReceives \/ CloseSend \/ GoOn)
            <3>1. /\ late' = late /\ received' = received
                  /\ timeUp => timeUp'
                  /\ receiver' = receiver \/ receiver' # "receiving"
                BY <2>5 DEF Next, Sender, Receiver, Handler, ClientSends, ClientSendFails, Leave,
                    ClientStops, HandlerReceives, HandlerReachesEnd, Publish, Unsubscribe,
                    HandlerSends, HandlerHasSent, HandlerFails, Deadline, EventDeadline,
                    vars, clientVars, serverVars, wireVars
            <3> QED BY <2>1, <3>1
        <2> QED BY <2>2, <2>3, <2>4, <2>5
    <1> QED BY <1>1, <1>2, <1>3, <1>4, <1>5 DEF Subscription

(* The actions of which a conversation, or a list, takes no part.          *)
LEMMA OnlyOfSubscriptions ==
    ASSUME Flow, call.method # "SubscribeToEvents"
    PROVE  ~Publish /\ ~Unsubscribe
    BY DEF Flow, Publish, Unsubscribe

(* What becomes of the answers.                                            *)
LEMMA AnswersStep ==
    ASSUME TypeOK, Flow, Counting, [Next]_vars, call.method \in {"Interactive", "ListUsers"}
    PROVE  \/ Answers' = Answers /\ UNCHANGED <<sent, toServer>> /\ ~HandlerReceives /\ ~ClientSends
           \/ Answers' = Answers /\ ClientSends
           \/ HandlerReceives
    <1>1. HandlerReachesEnd => toSend' = toSend
        BY DEF HandlerReachesEnd
    <1>2. Answers' = Answers \/ HandlerReceives
        BY <1>1, OnlyOfSubscriptions, AnswersKeepPlace
           DEF Next, Sender, Receiver, Handler, ClientSends, ClientSendFails, CloseSend, Leave,
               GoOn, ClientStops, HandlerReachesEnd, HandlerHasSent, HandlerFails, Deadline,
               EventDeadline, vars, clientVars, serverVars, wireVars
    <1>3. ClientSends \/ HandlerReceives \/ UNCHANGED <<sent, toServer>>
        BY DEF Next, Sender, Receiver, Handler, ClientSendFails, CloseSend, Leave, GoOn,
               ClientReceives, ClientStops, HandlerReachesEnd, Publish, Unsubscribe, HandlerSends,
               HandlerHasSent, HandlerFails, Deadline, EventDeadline,
               vars, clientVars, serverVars, wireVars
    <1> QED BY <1>2, <1>3

LEMMA ConversationStep ==
    ASSUME TypeOK, Flow, Counting, Conversation, [Next]_vars
    PROVE  Conversation'
    <1> SUFFICES ASSUME call.method = "Interactive"
                 PROVE  /\ sent' = Len(Answers') + Len(toServer')
                        /\ \A j \in 1 .. Len(toServer') : toServer'[j] = Len(Answers') + j
                        /\ \A i \in 1 .. Len(Answers') : Answers'[i] = Answer(i)
                        /\ handler' = "ok" => toServer' = <<>> /\ halfClosed'
        BY SameCall DEF Conversation, Answer
    <1>1. /\ sent = Len(Answers) + Len(toServer)
          /\ \A j \in 1 .. Len(toServer) : toServer[j] = Len(Answers) + j
          /\ \A i \in 1 .. Len(Answers) : Answers[i] = Answer(i)
          /\ handler = "ok" => toServer = <<>> /\ halfClosed
          /\ Len(Answers) \in Nat /\ Len(toServer) \in Nat
          /\ toServer \in Seq(1 .. sent) /\ Answers \in Seq(Message)
        BY QueueFacts DEF Conversation, TypeOK
    <1>2. CASE Answers' = Answers /\ UNCHANGED <<sent, toServer>> /\ ~HandlerReceives /\ ~ClientSends
        <2>1. handler' = "ok" => toServer = <<>> /\ halfClosed'
            BY <1>1, <1>2, OnlyOfSubscriptions
               DEF Next, Sender, Receiver, Handler, ClientSendFails, CloseSend, Leave, GoOn,
                   ClientReceives, ClientStops, HandlerReachesEnd, HandlerSends, HandlerHasSent,
                   HandlerFails, Deadline, EventDeadline, AtEnd,
                   vars, clientVars, serverVars, wireVars
        <2> QED BY <1>1, <1>2, <2>1
    <1>3. CASE Answers' = Answers /\ ClientSends
        <2>1. /\ sent' = sent + 1 /\ toServer' = Append(toServer, sent + 1)
              /\ handler' # "ok"
            BY <1>3 DEF ClientSends, serverVars, Returned
        <2>2. /\ Len(toServer') = Len(toServer) + 1
              /\ \A j \in 1 .. Len(toServer) : toServer'[j] = toServer[j]
              /\ toServer'[Len(toServer) + 1] = sent + 1
            BY <1>1, <2>1
        <2>3. ASSUME NEW j \in 1 .. Len(toServer')
              PROVE  toServer'[j] = Len(Answers) + j
            <3>1. CASE j = Len(toServer) + 1
                <4>1. toServer'[j] = sent + 1
                    BY <2>2, <3>1
                <4>2. sent + 1 = Len(Answers) + j
                    BY <1>1, <3>1
                <4> QED BY <4>1, <4>2
            <3>2. CASE j \in 1 .. Len(toServer)
                BY <1>1, <2>2, <3>2
            <3> QED BY <1>1, <2>2, <3>1, <3>2
        <2> QED BY <1>1, <1>3, <2>1, <2>2, <2>3
    <1>4. CASE HandlerReceives
        <2>1. /\ toSend = <<>> /\ toServer # <<>> /\ toServer' = Tail(toServer)
              /\ received' = received /\ toClient' = toClient /\ sent' = sent
              /\ toSend' = <<Answer(Head(toServer))>> /\ handler' = "sending"
            BY <1>4, ReceiveFacts DEF clientVars
        <2>2. Head(toServer) = Len(Answers) + 1
            BY <1>1, <2>1
        <2>3. Answers' = Append(Answers, Answer(Len(Answers) + 1))
            <3>1. /\ received \o toClient \in Seq(Message)
                  /\ Answers = received \o toClient
                <4>1. received \in Seq(Message) /\ toClient \in Seq(Message)
                    BY QueueFacts
                <4>2. received \o toClient \in Seq(Message)
                    BY <4>1, ConcatProperties
                <4> QED BY <2>1, <4>2, ConcatEmptySeq DEF Answers
            <3>2. Answer(Len(Answers) + 1) \in Message
                <4>1. Head(toServer) \in 1 .. Len(Commands)
                    BY <1>4, ReceiveFacts, CallFacts DEF TypeOK
                <4> QED BY <2>2, <4>1 DEF Message, Response, Answer
            <3>3. Answers' = (received \o toClient) \o <<Answer(Len(Answers) + 1)>>
                BY <2>1, <2>2 DEF Answers
            <3> QED BY <3>1, <3>2, <3>3, AppendIsConcat
        <2>4. /\ Len(toServer') = Len(toServer) - 1
              /\ \A j \in 1 .. Len(toServer') : toServer'[j] = toServer[j + 1]
            BY <1>1, <2>1
        <2>5. /\ Len(Answers') = Len(Answers) + 1
              /\ \A i \in 1 .. Len(Answers) : Answers'[i] = Answers[i]
              /\ Answers'[Len(Answers) + 1] = Answer(Len(Answers) + 1)
            <3> HIDE DEF Answers, Answer
            <3> QED BY <1>1, <2>3
        <2>6. ASSUME NEW j \in 1 .. Len(toServer')
              PROVE  toServer'[j] = Len(Answers') + j
            <3>1. j + 1 \in 1 .. Len(toServer) /\ j \in Nat
                BY <1>1, <2>4
            <3>2. toServer'[j] = Len(Answers) + (j + 1)
                BY <1>1, <2>4, <3>1
            <3> QED BY <1>1, <2>5, <3>1, <3>2
        <2>7. ASSUME NEW i \in 1 .. Len(Answers')
              PROVE  Answers'[i] = Answer(i)
            <3>1. i \in 1 .. Len(Answers) \/ i = Len(Answers) + 1
                BY <1>1, <2>5
            <3> QED BY <1>1, <2>5, <3>1
        <2> QED BY <1>1, <2>1, <2>4, <2>5, <2>6, <2>7
    <1> QED BY <1>2, <1>3, <1>4, AnswersStep

LEMMA ListingStep ==
    ASSUME TypeOK, Flow, Counting, Listing, [Next]_vars
    PROVE  Listing'
    <1> SUFFICES ASSUME call.method = "ListUsers"
                 PROVE  /\ handler' = "receiving" => received' = <<>> /\ toClient' = <<>>
                        /\ handler' \in {"sending", "ok"} => Answers' \in Pages
                        /\ Answers' = <<>> \/ Answers' \in Pages
        <2>1. Pages' = Pages
            BY SameCall DEF Pages, Passing, PageSize
        <2> QED BY <2>1, SameCall DEF Listing
    <1>1. /\ handler = "receiving" => received = <<>> /\ toClient = <<>> /\ toSend = <<>>
          /\ handler \in {"sending", "ok"} => Answers \in Pages
          /\ Answers = <<>> \/ Answers \in Pages
        BY DEF Listing, Flow
    <1>2. CASE HandlerReceives
        <2>1. /\ received' = <<>> /\ toClient' = <<>> /\ toSend' \in Pages /\ handler' = "sending"
            BY <1>1, <1>2, ReceiveFacts DEF clientVars
        <2>2. toSend' \in Seq(Users)
            BY <2>1, PageFacts DEF TypeOK
        <2>3. Answers' = toSend'
            <3>1. <<>> \o <<>> = <<>>
                BY <2>2, EmptySeq, ConcatEmptySeq
            <3> QED BY <2>1, <2>2, <3>1, ConcatEmptySeq DEF Answers
        <2> QED BY <2>1, <2>3
    <1>3. CASE Answers' = Answers
        <2>1. CASE HandlerReceives
            BY <1>2, <2>1
        <2>2. CASE ~HandlerReceives
            BY <1>1, <1>3, <2>2, OnlyOfSubscriptions
               DEF Next, Sender, Receiver, Handler, ClientSends, ClientSendFails, CloseSend, Leave,
                   GoOn, ClientReceives, ClientStops, HandlerReachesEnd, HandlerSends,
                   HandlerHasSent, HandlerFails, Deadline, EventDeadline,
                   vars, clientVars, serverVars, wireVars
        <2> QED BY <2>1, <2>2
    <1> QED BY <1>2, <1>3, AnswersStep

(* The handler counts the next message, and the last one it may expect.    *)
LEMMA SummedUp ==
    ASSUME TypeOK, Flow, Counting, Summing, HandlerReceives,
           call.method \in {"UploadData", "ProcessBatch"}
    PROVE  /\ Head(toServer) = tally.received + 1
           /\ tally'.received = tally.received + 1
           /\ tally'.bytes = BytesOfFirst(call.size)[tally.received + 1]
           /\ \/ handler' = "receiving" /\ toSend' = <<>>
              \/ handler' = "sending" /\ toSend' = <<tally'>> /\ tally'.received = Items
    <1> DEFINE n == Head(toServer)
               bytes == BytesOfFirst(call.size)
    <1>1. /\ toServer # <<>> /\ toServer \in Seq(1 .. sent) /\ Len(toServer) \in Nat
          /\ n \in 1 .. Items
        BY ReceiveFacts, QueueFacts, CallFacts DEF TypeOK
    <1>2. /\ \A j \in 1 .. Len(toServer) : toServer[j] = tally.received + j
          /\ tally.bytes = bytes[tally.received]
        BY DEF Summing
    <1>3. n = tally.received + 1 /\ tally.received \in Nat
        <2>1. n = toServer[1] /\ 1 \in 1 .. Len(toServer)
            BY <1>1
        <2>2. tally.received \in 0 .. Items /\ Items \in Nat
            <3>1. Items \in Nat
                BY StreamAssumption
            <3> QED BY <3>1 DEF TypeOK, Tally
        <2> QED BY <1>2, <2>1, <2>2
    <1>4. bytes[n] = bytes[n - 1] + call.size[n]
        BY <1>1, BytesFacts
    <1>5. PICK fails \in BOOLEAN :
              /\ tally' = Count(n, fails)
              /\ IF IsLast(n)
                 THEN handler' = "sending" /\ toSend' = <<Count(n, fails)>>
                 ELSE handler' = "receiving" /\ toSend' = toSend
        BY DEF HandlerReceives, Counts
    <1>6. tally'.received = tally.received + 1 /\ tally'.bytes = tally.bytes + call.size[n]
        BY <1>5 DEF Count
    <1>7. tally'.bytes = bytes[n]
        <2>1. n - 1 = tally.received
            BY <1>3
        <2> HIDE DEF n, bytes
        <2> QED BY <1>2, <1>4, <1>6, <2>1
    <1>8. IsLast(n) => n = Items
        BY DEF IsLast
    <1>9. toSend = <<>>
        BY ReceiveFacts
    <1> HIDE DEF n, bytes
    <1>10. tally'.bytes = bytes[tally.received + 1]
        BY <1>3, <1>7
    <1>11. \/ handler' = "receiving" /\ toSend' = <<>>
           \/ handler' = "sending" /\ toSend' = <<tally'>> /\ tally'.received = Items
        BY <1>3, <1>5, <1>6, <1>8, <1>9
    <1> QED BY <1>3, <1>6, <1>10, <1>11 DEF n, bytes

LEMMA SummingStep ==
    ASSUME TypeOK, Flow, Counting, Summing, [Next]_vars
    PROVE  Summing'
    <1> DEFINE bytes == BytesOfFirst(call.size)
    <1> SUFFICES ASSUME call.method \in {"UploadData", "ProcessBatch"}
                 PROVE  /\ tally'.received + Len(toServer') = sent'
                        /\ \A j \in 1 .. Len(toServer') : toServer'[j] = tally'.received + j
                        /\ tally'.bytes = bytes[tally'.received]
                        /\ handler' = "receiving" => Answers' = <<>>
                        /\ Answers' # <<>> => Answers' = <<tally'>> /\ tally'.received = Items
        <2>1. BytesOfFirst(call.size)' = bytes
            BY SameCall DEF BytesOfFirst
        <2> QED BY <2>1, SameCall DEF Summing
    <1>1. /\ tally.received + Len(toServer) = sent
          /\ \A j \in 1 .. Len(toServer) : toServer[j] = tally.received + j
          /\ tally.bytes = bytes[tally.received]
          /\ handler = "receiving" => Answers = <<>>
          /\ Answers # <<>> => Answers = <<tally>> /\ tally.received = Items
        BY DEF Summing
    <1>2. /\ Len(toServer) \in Nat /\ toServer \in Seq(1 .. sent) /\ sent \in Nat
          /\ tally.received \in Nat
        <2>1. tally.received \in 0 .. Items /\ Items \in Nat
            <3>1. Items \in Nat
                BY StreamAssumption
            <3> QED BY <3>1 DEF TypeOK, Tally
        <2> QED BY <2>1, QueueFacts DEF TypeOK
    <1> HIDE DEF bytes
    <1>3. CASE ClientSends
        <2>1. /\ sent' = sent + 1 /\ toServer' = Append(toServer, sent + 1)
              /\ UNCHANGED <<tally, handler, received, toClient, toSend>>
            BY <1>3 DEF ClientSends, serverVars
        <2>2. /\ Len(toServer') = Len(toServer) + 1
              /\ \A j \in 1 .. Len(toServer) : toServer'[j] = toServer[j]
              /\ toServer'[Len(toServer) + 1] = sent + 1
            BY <1>2, <2>1
        <2>3. ASSUME NEW j \in 1 .. Len(toServer')
              PROVE  toServer'[j] = tally'.received + j
            <3>1. CASE j = Len(toServer) + 1
                <4>1. toServer'[j] = sent + 1
                    BY <2>2, <3>1
                <4>2. sent + 1 = tally.received + j
                    BY <1>1, <1>2, <3>1
                <4> QED BY <2>1, <4>1, <4>2
            <3>2. CASE j \in 1 .. Len(toServer)
                BY <1>1, <2>1, <2>2, <3>2
            <3> QED BY <1>2, <2>2, <3>1, <3>2
        <2>4. tally'.received + Len(toServer') = sent'
            BY <1>1, <1>2, <2>1, <2>2
        <2>5. Answers' = Answers
            BY <2>1 DEF Answers
        <2> QED BY <1>1, <2>1, <2>3, <2>4, <2>5
    <1>4. CASE HandlerReceives
        <2>1. /\ handler = "receiving" /\ toServer # <<>> /\ toServer' = Tail(toServer)
              /\ sent' = sent /\ received' = received /\ toClient' = toClient
            BY <1>4, ReceiveFacts DEF clientVars
        <2>2. /\ tally'.received = tally.received + 1
              /\ tally'.bytes = bytes[tally.received + 1]
              /\ \/ handler' = "receiving" /\ toSend' = <<>>
                 \/ handler' = "sending" /\ toSend' = <<tally'>> /\ tally'.received = Items
            BY <1>4, SummedUp DEF bytes
        <2>3. received \o toClient = <<>>
            <3>1. Answers = <<>> /\ toSend = <<>>
                BY <1>1, <1>4, <2>1, ReceiveFacts
            <3>2. received \in Seq(Message) /\ toClient \in Seq(Message)
                BY QueueFacts
            <3>3. received \o toClient \in Seq(Message)
                BY <3>2, ConcatProperties
            <3> QED BY <3>1, <3>3, ConcatEmptySeq DEF Answers
        <2>4. Answers' = toSend'
            <3>1. toSend' \in Seq(Message)
                BY <1>4, QueuesStep
            <3>2. Answers' = <<>> \o toSend'
                BY <2>1, <2>3 DEF Answers
            <3> QED BY <3>1, <3>2, ConcatEmptySeq
        <2>5. /\ Len(toServer') = Len(toServer) - 1
              /\ \A j \in 1 .. Len(toServer') : toServer'[j] = toServer[j + 1]
            BY <1>2, <2>1
        <2>6. ASSUME NEW j \in 1 .. Len(toServer')
              PROVE  toServer'[j] = tally'.received + j
            <3>1. j + 1 \in 1 .. Len(toServer) /\ j \in Nat
                BY <1>2, <2>5
            <3>2. toServer'[j] = tally.received + (j + 1)
                BY <1>1, <2>5, <3>1
            <3>3. tally.received + (j + 1) = tally'.received + j
                <4> DEFINE r == tally.received
                <4>1. tally'.received = r + 1 /\ r \in Nat
                    BY <1>2, <2>2
                <4>2. (r + 1) + j = r + (j + 1)
                    <5> HIDE DEF r
                    <5> QED BY <3>1, <4>1
                <4> QED BY <4>1, <4>2, Zenon
            <3> QED BY <3>2, <3>3, Zenon
        <2>7. tally'.received + Len(toServer') = sent'
            BY <1>1, <1>2, <2>1, <2>2, <2>5
        <2> QED BY <2>2, <2>4, <2>6, <2>7
    <1>5. CASE HandlerReachesEnd
        <2>1. /\ handler = "receiving" /\ handler' = "sending" /\ toSend' = <<tally>>
              /\ halfClosed /\ toServer = <<>>
              /\ UNCHANGED <<sent, received, toClient, toServer, tally>>
            BY <1>5 DEF HandlerReachesEnd, AtEnd, clientVars, wireVars
        <2>2. tally.received = Items
            <3>1. sent = ToSend /\ ToSend = Items
                BY <2>1, CallFacts DEF Flow, TypeOK
            <3>2. Len(toServer) = 0
                BY <2>1
            <3> QED BY <1>1, <1>2, <3>1, <3>2
        <2>3. Answers' = <<tally>>
            <3>1. Answers = <<>> /\ toSend = <<>>
                BY <1>1, <2>1 DEF Flow
            <3>2. received \in Seq(Message) /\ toClient \in Seq(Message)
                BY QueueFacts
            <3>3. received \o toClient \in Seq(Message)
                BY <3>2, ConcatProperties
            <3>4. received \o toClient = <<>>
                BY <3>1, <3>3, ConcatEmptySeq DEF Answers
            <3>5. toSend' \in Seq(Message)
                BY QueuesStep
            <3>6. Answers' = <<>> \o toSend'
                BY <2>1, <3>4 DEF Answers
            <3> QED BY <2>1, <3>5, <3>6, ConcatEmptySeq
        <2> QED BY <1>1, <2>1, <2>2, <2>3
    <1>6. CASE ~(ClientSends \/ HandlerReceives \/ HandlerReachesEnd)
        <2>1. UNCHANGED <<sent, toServer, tally>> /\ (handler' = "receiving" => handler = "receiving")
            BY <1>6, OnlyOfSubscriptions
               DEF Next, Sender, Receiver, Handler, ClientSendFails, CloseSend, Leave, GoOn,
                   ClientReceives, ClientStops, HandlerSends, HandlerHasSent,
                   HandlerFails, Deadline, EventDeadline, vars, clientVars, serverVars, wireVars
        <2>2. Answers' = Answers
            BY <1>6, OnlyOfSubscriptions, AnswersKeepPlace
               DEF Next, Sender, Receiver, Handler, ClientSendFails, CloseSend, Leave,
                   GoOn, ClientStops, HandlerHasSent, HandlerFails, Deadline,
                   EventDeadline, vars, clientVars, serverVars, wireVars
        <2> QED BY <1>1, <2>1, <2>2
    <1> QED BY <1>3, <1>4, <1>5, <1>6

(* The rest of the type invariant.                                         *)
LEMMA EnumsStep ==
    ASSUME TypeOK, [Next]_vars
    PROVE  /\ sender' \in {"sending", "exited"}
           /\ receiver' \in {"waiting", "checking", "receiving", "eof", "failed", "left"}
           /\ timeUp' \in BOOLEAN /\ halfClosed' \in BOOLEAN /\ done' \in BOOLEAN
           /\ handler' \in {"receiving", "sending", "subscribed", "ok", "error"}
    <1>0. /\ sender \in {"sending", "exited"}
          /\ receiver \in {"waiting", "checking", "receiving", "eof", "failed", "left"}
          /\ timeUp \in BOOLEAN /\ halfClosed \in BOOLEAN /\ done \in BOOLEAN
          /\ handler \in {"receiving", "sending", "subscribed", "ok", "error"}
        BY DEF TypeOK
    <1>1. CASE Sender
        BY <1>0, <1>1 DEF Sender, ClientSends, ClientSendFails, CloseSend, serverVars, wireVars
    <1>2. CASE Receiver
        BY <1>0, <1>2 DEF Receiver, Leave, GoOn, ClientReceives, ClientStops, serverVars, wireVars
    <1>3. CASE HandlerReceives
        BY <1>0, <1>3 DEF HandlerReceives, Counts, clientVars
    <1>4. CASE HandlerReachesEnd \/ Unsubscribe \/ HandlerSends \/ HandlerHasSent \/ HandlerFails
        BY <1>0, <1>4 DEF HandlerReachesEnd, Unsubscribe, HandlerSends, HandlerHasSent,
                          HandlerFails, clientVars, wireVars
    <1>5. CASE Publish \/ Deadline \/ EventDeadline \/ UNCHANGED vars
        BY <1>0, <1>5 DEF Publish, Deadline, EventDeadline, vars, clientVars, serverVars, wireVars
    <1> QED BY <1>1, <1>2, <1>3, <1>4, <1>5 DEF Next, Handler

LEMMA TallyStep ==
    ASSUME TypeOK, Flow, Counting, [Next]_vars
    PROVE  tally' \in Tally /\ tally'.failed <= tally'.received
    <1>1. CASE HandlerReceives
        BY <1>1, ReceiveFacts
    <1>2. CASE tally' = tally
        BY <1>2 DEF TypeOK
    <1> QED BY <1>1, <1>2
        DEF Next, Sender, Receiver, Handler, ClientSends, ClientSendFails, CloseSend, Leave, GoOn,
            ClientReceives, ClientStops, HandlerReachesEnd, Publish, Unsubscribe, HandlerSends,
            HandlerHasSent, HandlerFails, Deadline, EventDeadline,
            vars, clientVars, serverVars, wireVars

LEMMA TypeStep ==
    ASSUME TypeOK, Flow, Counting, Subscription, [Next]_vars
    PROVE  TypeOK'
    <1>1. received' \in Seq(Message) /\ toSend' \in Seq(Message) /\ toClient' \in Seq(Message)
        BY QueuesStep
    <1>2. late' \in 0 .. Events
        <2>1. /\ late' = 0 \/ (late' = 1 /\ timeUp' /\ received' # <<>>)
              /\ timeUp' => Len(received') + Len(toClient') + Len(toSend') <= Events
            BY SubscriptionStep DEF Subscription
        <2>2. /\ Len(received') \in Nat /\ Len(toClient') \in Nat /\ Len(toSend') \in Nat
              /\ received' # <<>> => Len(received') >= 1
            BY <1>1, EmptySeq
        <2>3. Events \in Nat
            BY StreamAssumption
        <2> QED BY <2>1, <2>2, <2>3
    <1>3. call' \in Calls
        BY SameCall DEF TypeOK
    <1> QED BY <1>1, <1>2, <1>3, QueuesStep, NumbersStep, EnumsStep, TallyStep DEF TypeOK

(* Whoever waits goes on waiting for the same.                             *)
LEMMA WaitingStep ==
    ASSUME TypeOK, Flow, Counting, Waiting, [Next]_vars
    PROVE  Waiting'
    <1>1. call' = call
        BY SameCall
    <1>2. receiver' = "waiting" => sender' = "sending" /\ ~Concurrent(call)
        BY DEF Waiting, Next, Sender, Receiver, Handler, ClientSends, ClientSendFails, CloseSend,
               Leave, GoOn, ClientReceives, ClientStops, HandlerReceives, HandlerReachesEnd,
               Publish, Unsubscribe, HandlerSends, HandlerHasSent, HandlerFails, Deadline,
               EventDeadline, vars, clientVars, serverVars, wireVars
    <1>3. Returned \/ done => Returned' \/ done'
        BY DEF Returned, Next, Sender, Receiver, Handler, ClientSends, ClientSendFails, CloseSend,
               Leave, GoOn, ClientReceives, ClientStops, HandlerReceives, HandlerReachesEnd,
               Publish, Unsubscribe, HandlerSends, HandlerHasSent, HandlerFails, Deadline,
               EventDeadline, vars, clientVars, serverVars, wireVars
    <1>4. sender' = "exited" => halfClosed' \/ Returned' \/ done'
        BY <1>3 DEF Waiting, Next, Sender, Receiver, Handler, ClientSends, ClientSendFails,
               CloseSend, Leave, GoOn, ClientReceives, ClientStops, HandlerReceives,
               HandlerReachesEnd, Publish, Unsubscribe, HandlerSends, HandlerHasSent, HandlerFails,
               Deadline, EventDeadline, vars, clientVars, serverVars, wireVars
    <1>5. receiver' \in {"eof", "failed", "left"} => Returned' \/ done'
        <2>1. CASE ClientStops
            BY <1>3, <2>1 DEF ClientStops, Returned
        <2>2. CASE ~ClientStops
            BY <1>3, <2>2 DEF Waiting, Next, Sender, Receiver, Handler, ClientSends,
               ClientSendFails, CloseSend, Leave, GoOn, ClientReceives, HandlerReceives,
               HandlerReachesEnd, Publish, Unsubscribe, HandlerSends, HandlerHasSent, HandlerFails,
               Deadline, EventDeadline, vars, clientVars, serverVars, wireVars
        <2> QED BY <2>1, <2>2
    <1>6. ASSUME call.method \in {"ListUsers", "SubscribeToEvents"}
          PROVE  /\ Len(toServer') <= sent'
                 /\ handler' = "receiving" => Len(toServer') = sent'
        <2>1. /\ Len(toServer) \in Nat /\ sent \in Nat /\ toServer \in Seq(1 .. sent)
              /\ Len(toServer) <= sent
              /\ handler = "receiving" => Len(toServer) = sent
            BY <1>6, QueueFacts DEF Waiting, TypeOK
        <2>2. CASE ClientSends
            <3>1. /\ sent' = sent + 1 /\ toServer' = Append(toServer, sent + 1)
                  /\ handler' = handler
                BY <2>2 DEF ClientSends, serverVars
            <3>2. Len(toServer') = Len(toServer) + 1
                BY <2>1, <3>1
            <3> QED BY <2>1, <3>1, <3>2
        <2>3. CASE HandlerReceives
            <3>1. /\ sent' = sent /\ toServer # <<>> /\ toServer' = Tail(toServer)
                  /\ handler' # "receiving"
                BY <1>6, <2>3, ReceiveFacts DEF clientVars
            <3>2. Len(toServer') = Len(toServer) - 1
                BY <2>1, <3>1, HeadTailProperties
            <3>3. Len(toServer') <= sent'
                <4> DEFINE before == Len(toServer)
                           after  == Len(toServer')
                <4>1. after = before - 1 /\ before \in Nat /\ before <= sent /\ sent \in Nat
                    BY <2>1, <3>2
                <4>2. sent' = sent
                    BY <3>1
                <4> HIDE DEF before, after
                <4>3. after <= sent'
                    BY <4>1, <4>2
                <4> QED BY <4>3 DEF after
            <3> QED BY <3>1, <3>3
        <2>4. CASE ~(ClientSends \/ HandlerReceives)
            <3>1. UNCHANGED <<sent, toServer>> /\ (handler' = "receiving" => handler = "receiving")
                BY <1>6, <2>4
                   DEF Next, Sender, Receiver, Handler, ClientSendFails, CloseSend, Leave, GoOn,
                       ClientReceives, ClientStops, HandlerReachesEnd, Publish, Unsubscribe,
                       HandlerSends, HandlerHasSent, HandlerFails, Deadline, EventDeadline,
                       vars, clientVars, serverVars, wireVars
            <3> QED BY <2>1, <3>1
        <2> QED BY <2>2, <2>3, <2>4
    <1> QED BY <1>1, <1>2, <1>4, <1>5, <1>6 DEF Waiting, Concurrent

-----------------------------------------------------------------------------
LEMMA InitInv ==
    ASSUME Init
    PROVE  IInv
    <1>1. TypeOK
        BY TypeInit
    <1>2. Len(<<>>) = 0
        BY EmptySeq
    <1>3. /\ ToSend \in Nat /\ Events \in Nat
        <2>1. Events \in Nat
            BY StreamAssumption
        <2> QED BY <1>1, <2>1, CallFacts DEF TypeOK
    <1>4. Len(Answers) = 0
        BY <1>1, <1>2, QueueFacts DEF Init
    <1>5. Flow
        BY <1>3 DEF Init, Flow
    <1>6. Counting
        BY <1>2 DEF Init, Counting
    <1>7. Subscription
        BY <1>2, <1>3 DEF Init, Subscription
    <1>8. Conversation
        BY <1>2, <1>4 DEF Init, Conversation
    <1>9. Listing
        <2>1. Answers = <<>>
            BY <1>1, <1>4, QueueFacts, EmptySeq
        <2> QED BY <2>1 DEF Init, Listing
    <1>10. Summing
        <2>1. Answers = <<>>
            BY <1>1, <1>4, QueueFacts, EmptySeq
        <2>2. BytesOfFirst(call.size)[0] = 0
            BY BytesFacts
        <2> QED BY <1>2, <2>1, <2>2 DEF Init, Summing
    <1>11. Waiting
        BY <1>2 DEF Init, Waiting
    <1> QED BY <1>1, <1>5, <1>6, <1>7, <1>8, <1>9, <1>10, <1>11 DEF IInv

(* The inductive invariant of StreamingCalls.                              *)
THEOREM Inductive == Spec => []IInv
    <1>1. IInv /\ [Next]_vars => IInv'
        BY TypeStep, FlowStep, CountingStep, SubscriptionStep, ConversationStep, ListingStep,
           SummingStep, WaitingStep DEF IInv
    <1> QED BY InitInv, <1>1, PTL DEF Spec

(* The type invariant: no window is ever exceeded, and the counters of     *)
(* UploadData and ProcessBatch stay within what the client sends.          *)
THEOREM TypeCorrect == Spec => []TypeOK
    <1>1. IInv => TypeOK
        BY DEF IInv
    <1> QED BY Inductive, <1>1, PTL

(* A subscriber receives at most one event after its 10 seconds: there is  *)
(* no way back to Recv but through the select.                             *)
THEOREM TimeIsLookedAt == Spec => []AtMostOneLate
    <1>1. IInv => AtMostOneLate
        BY DEF IInv, Subscription, AtMostOneLate
    <1> QED BY Inductive, <1>1, PTL

(* The responses of an Interactive conversation answer its first requests, *)
(* one each and in order.                                                  *)
THEOREM AnsweredInTurn == Spec => []EachAnswersItsRequest
    <1>1. IInv => EachAnswersItsRequest
        <2> SUFFICES ASSUME IInv, call.method = "Interactive",
                            NEW i \in 1 .. Len(received \o toClient)
                     PROVE  /\ (received \o toClient)[i].id = i
                            /\ (received \o toClient)[i].success <=>
                                   Commands[i] \notin {"unknown", "echo without text"}
            BY DEF EachAnswersItsRequest
        <2>1. /\ received \o toClient \in Seq(Message) /\ toSend \in Seq(Message)
              /\ Len(received \o toClient) \in Nat /\ Len(toSend) \in Nat
            <3>1. /\ received \in Seq(Message) /\ toClient \in Seq(Message)
                  /\ toSend \in Seq(Message)
                BY QueueFacts DEF IInv
            <3> QED BY <3>1, ConcatProperties, LenProperties
        <2>2. /\ Len(Answers) = Len(received \o toClient) + Len(toSend)
              /\ Answers[i] = (received \o toClient)[i]
            BY <2>1, ConcatProperties DEF Answers
        <2>3. i \in 1 .. Len(Answers)
            BY <2>1, <2>2
        <2>4. Answers[i] = Answer(i)
            BY <2>3 DEF IInv, Conversation
        <2>5. i \in 1 .. Len(Commands)
            <3>1. /\ sent = Len(Answers) + Len(toServer) /\ sent <= Len(Commands)
                  /\ Len(toServer) \in Nat /\ Len(Answers) \in Nat /\ Len(Commands) \in Nat
                BY CallFacts, QueueFacts, LenProperties DEF IInv, TypeOK, Conversation, Flow
            <3> QED BY <2>3, <3>1
        <2>6. Commands[i] \in {"ping", "echo", "echo without text", "time", "users", "unknown"}
            BY <2>5, StreamAssumption, ElementOfSeq
        <2>7. /\ Answer(i).id = i
              /\ Answer(i).success <=> Commands[i] \in {"ping", "echo", "time", "users"}
            BY DEF Answer
        <2>8. (received \o toClient)[i] = Answer(i)
            BY <2>2, <2>4
        <2>9. /\ (received \o toClient)[i].id = i
              /\ (received \o toClient)[i].success <=> Commands[i] \in {"ping", "echo", "time", "users"}
            BY <2>7, <2>8, Zenon
        <2>10. Commands[i] \in {"ping", "echo", "time", "users"}
                  <=> Commands[i] \notin {"unknown", "echo without text"}
            BY <2>6
        <2> QED BY <2>9, <2>10, Zenon
    <1> QED BY Inductive, <1>1, PTL

(* A client that sees io.EOF has every answer to its commands, all users   *)
(* that pass its filter or a page of the size it asked for, or a           *)
(* subscription whose context is done.                                     *)
THEOREM EofIsTheEnd == Spec => []EofMeansComplete
    <1>1. IInv => EofMeansComplete
        <2> SUFFICES ASSUME IInv, receiver = "eof"
                     PROVE  /\ call.method = "Interactive" => Len(received) = Len(Commands)
                            /\ call.method = "ListUsers" =>
                                  /\ IsInjective(received)
                                  /\ Range(received) \subseteq Passing(call.filter)
                                  /\ \/ Range(received) = Passing(call.filter)
                                     \/ Len(received) = call.pageSize
                                     \/ call.pageSize <= 0 /\ Len(received) = DefaultPageSize
                            /\ call.method = "SubscribeToEvents" => done
            BY DEF EofMeansComplete
        <2>1. handler = "ok" /\ toClient = <<>> /\ toSend = <<>>
            BY DEF IInv, Flow
        <2>2. Answers = received
            <3>1. received \in Seq(Message)
                BY DEF IInv, TypeOK
            <3> QED BY <2>1, <3>1, ConcatEmptySeq DEF Answers
        <2>3. CASE call.method = "Interactive"
            <3>1. /\ sent = Len(received) + Len(toServer) /\ toServer = <<>> /\ halfClosed
                  /\ sent = ToSend /\ ToSend = Len(Commands)
                BY <2>1, <2>2, <2>3, CallFacts DEF IInv, TypeOK, Conversation, Flow
            <3>2. Len(received) \in Nat /\ Len(<<>>) = 0
                BY QueueFacts, EmptySeq DEF IInv
            <3> QED BY <2>3, <3>1, <3>2
        <2>4. CASE call.method = "ListUsers"
            <3>1. received \in Pages /\ call \in Calls
                BY <2>1, <2>2, <2>4 DEF IInv, TypeOK, Listing
            <3> QED BY <2>4, <3>1, PageFacts
        <2>5. CASE call.method = "SubscribeToEvents"
            BY <2>1, <2>5 DEF IInv, Subscription
        <2> QED BY <2>3, <2>4, <2>5
    <1> QED BY Inductive, <1>1, PTL

(* A summary, on its way or received, covers all that the client meant to  *)
(* send, to the byte: for any number of items and any sizes.               *)
THEOREM SummaryIsComplete == Spec => []SummaryCoversAll
    <1>1. IInv => SummaryCoversAll
        <2> SUFFICES ASSUME IInv, call.method \in {"UploadData", "ProcessBatch"}
                     PROVE  /\ Len(received \o toClient) <= 1
                            /\ \A i \in 1 .. Len(received \o toClient) :
                                  /\ (received \o toClient)[i].received = Items
                                  /\ (received \o toClient)[i].bytes = BytesOfFirst(call.size)[Items]
            BY DEF SummaryCoversAll
        <2>1. /\ received \o toClient \in Seq(Message) /\ toSend \in Seq(Message)
              /\ Len(received \o toClient) \in Nat /\ Len(toSend) \in Nat
            <3>1. /\ received \in Seq(Message) /\ toClient \in Seq(Message)
                  /\ toSend \in Seq(Message)
                BY QueueFacts DEF IInv
            <3> QED BY <3>1, ConcatProperties, LenProperties
        <2>2. /\ Len(Answers) = Len(received \o toClient) + Len(toSend)
              /\ \A i \in 1 .. Len(received \o toClient) : Answers[i] = (received \o toClient)[i]
            BY <2>1, ConcatProperties DEF Answers
        <2>3. /\ tally.bytes = BytesOfFirst(call.size)[tally.received]
              /\ Answers # <<>> => Answers = <<tally>> /\ tally.received = Items
            BY DEF IInv, Summing
        <2>4. CASE Answers = <<>>
            <3>1. Len(received \o toClient) = 0
                BY <2>1, <2>2, <2>4, EmptySeq
            <3> QED BY <3>1
        <2>5. CASE Answers # <<>>
            <3>1. Answers = <<tally>> /\ tally.received = Items
                BY <2>3, <2>5
            <3>2. Len(Answers) = 1 /\ Answers[1] = tally
                BY <3>1
            <3>3. Len(received \o toClient) <= 1
                <4>1. Len(received \o toClient) + Len(toSend) = 1
                    BY <2>2, <3>2, Zenon
                <4> QED BY <2>1, <4>1
            <3>4. ASSUME NEW i \in 1 .. Len(received \o toClient)
                  PROVE  (received \o toClient)[i] = tally
                <4>1. i = 1
                    BY <2>1, <3>3
                <4> QED BY <2>2, <3>2, <4>1
            <3> QED BY <2>3, <3>1, <3>3, <3>4
        <2> QED BY <2>4, <2>5
    <1> QED BY Inductive, <1>1, PTL

-----------------------------------------------------------------------------
(* When each side can go on: the guards of Sender, Receiver and Handler.   *)
SenderCanGoOn ==
    sender = "sending" /\ (sent = ToSend \/ Len(toServer) < Window \/ Returned \/ done)

ReceiverCanGoOn ==
    \/ receiver = "checking"
    \/ receiver = "receiving" /\ (toClient # <<>> \/ Returned \/ done)

HandlerCanGoOn ==
    \/ handler = "receiving" /\ (toServer # <<>> \/ halfClosed \/ done)
    \/ handler = "sending" /\ (toSend = <<>> \/ Len(toClient) < Window \/ done)
    \/ handler = "subscribed" /\ done

(* However small the windows, client and handler never wait for each other *)
(* (main.go:535-603 sends between two receives, the client of Interactive  *)
(* receives in a goroutine): until both have ended one can go on, or both  *)
(* wait for an event to be published.                                      *)
NoStandstill ==
    \/ ClientEnded /\ Returned
    \/ SenderCanGoOn \/ ReceiverCanGoOn \/ HandlerCanGoOn
    \/ handler = "subscribed" /\ receiver = "receiving" /\ sender = "exited"

(* For any windows and any number of messages, no call of the five methods *)
(* comes to a standstill.                                                  *)
THEOREM NoSideWaitsForTheOther == Spec => []NoStandstill
    <1>1. IInv => NoStandstill
        <2> SUFFICES ASSUME IInv, ~SenderCanGoOn, ~ReceiverCanGoOn, ~HandlerCanGoOn,
                            ~(ClientEnded /\ Returned)
                     PROVE  handler = "subscribed" /\ receiver = "receiving" /\ sender = "exited"
            BY DEF NoStandstill
        <2>1. /\ sender \in {"sending", "exited"}
              /\ receiver \in {"waiting", "checking", "receiving", "eof", "failed", "left"}
              /\ handler \in {"receiving", "sending", "subscribed", "ok", "error"}
            BY DEF IInv, TypeOK
        <2>2. ~done
            BY <2>1 DEF IInv, Waiting, SenderCanGoOn, ReceiverCanGoOn, HandlerCanGoOn, Returned,
                        ClientEnded
        <2>3. ~Returned
            BY <2>1 DEF IInv, Waiting, SenderCanGoOn, ReceiverCanGoOn, Returned, ClientEnded
        <2>4. receiver \in {"waiting", "receiving"}
            BY <2>1, <2>2, <2>3 DEF IInv, Waiting, ReceiverCanGoOn
        <2>5. CASE sender = "exited"
            <3>1. receiver = "receiving" /\ toClient = <<>>
                BY <2>2, <2>3, <2>4, <2>5 DEF IInv, Waiting, ReceiverCanGoOn
            <3>2. handler # "receiving"
                BY <2>2, <2>3, <2>5 DEF IInv, Waiting, HandlerCanGoOn
            <3>3. handler # "sending"
                <4>1. Window \in Nat \ {0}
                    BY StreamAssumption
                <4>2. Len(toClient) < Window
                    BY <3>1, <4>1
                <4> QED BY <4>2 DEF HandlerCanGoOn
            <3> QED BY <2>1, <2>3, <2>5, <3>1, <3>2, <3>3 DEF Returned
        <2>6. CASE sender = "sending"
            <3>1. /\ sent # ToSend /\ sent \in Nat /\ ToSend \in Nat /\ sent < ToSend
                  /\ Len(toServer) \in Nat /\ Window \in Nat \ {0}
                  /\ ~(Len(toServer) < Window)
                <4>1. sent # ToSend /\ ~(Len(toServer) < Window)
                    BY <2>6 DEF SenderCanGoOn
                <4>2. sent \in Nat /\ ToSend \in Nat /\ sent <= ToSend /\ Len(toServer) \in Nat
                    BY CallFacts, QueueFacts DEF IInv, TypeOK, Flow
                <4>3. Window \in Nat \ {0}
                    BY StreamAssumption
                <4> QED BY <4>1, <4>2, <4>3
            <3>2. toServer # <<>> /\ Len(toServer) >= 1
                BY <3>1
            <3>3. call.method \notin {"ListUsers", "SubscribeToEvents"}
                <4>1. call.method \in {"ListUsers", "SubscribeToEvents"} =>
                          Len(toServer) <= sent /\ ToSend = 1
                    BY DEF IInv, Waiting, ToSend
                <4> QED BY <3>1, <3>2, <4>1
            <3>4. handler = "sending" /\ toSend # <<>> /\ ~(Len(toClient) < Window)
                <4>1. handler # "subscribed"
                    BY <3>3 DEF IInv, Flow
                <4>2. handler # "receiving"
                    BY <3>2 DEF HandlerCanGoOn
                <4> QED BY <2>1, <2>3, <4>1, <4>2 DEF Returned, HandlerCanGoOn
            <3>5. toClient # <<>>
                <4>1. CASE toClient = <<>>
                    <5>1. Len(toClient) = 0
                        BY <4>1
                    <5> QED BY <3>1, <3>4, <5>1
                <4> QED BY <4>1
            <3>6. receiver = "waiting" /\ call.method # "Interactive"
                BY <2>4, <3>5 DEF ReceiverCanGoOn, IInv, Waiting, Concurrent
            <3>7. call.method \in {"UploadData", "ProcessBatch"}
                BY <3>3, <3>6, CallFacts DEF IInv, TypeOK
            <3>8. Len(Answers) >= 2
                <4>1. /\ Len(received) \in Nat /\ Len(toClient) \in Nat /\ Len(toSend) \in Nat
                      /\ Len(Answers) = Len(received) + Len(toClient) + Len(toSend)
                      /\ toClient \in Seq(Message) /\ toSend \in Seq(Message)
                    BY QueueFacts DEF IInv
                <4>2. Len(toClient) >= 1 /\ Len(toSend) >= 1
                    BY <3>4, <3>5, <4>1, EmptySeq
                <4> QED BY <4>1, <4>2
            <3>9. Answers = <<>> \/ Answers = <<tally>>
                BY <3>7 DEF IInv, Summing
            <3>10. Len(Answers) <= 1
                <4>1. Len(<<>>) = 0 /\ Len(<<tally>>) = 1
                    OBVIOUS
                <4>2. Len(Answers) = 0 \/ Len(Answers) = 1
                    BY <3>9, <4>1, Zenon
                <4> DEFINE length == Len(Answers)
                <4>3. length = 0 \/ length = 1
                    BY <4>2
                <4> HIDE DEF length
                <4>4. length <= 1
                    BY <4>3
                <4> QED BY <4>4 DEF length
            <3> QED BY <3>8, <3>10, QueueFacts DEF IInv
        <2> QED BY <2>1, <2>5, <2>6
    <1> QED BY Inductive, <1>1, PTL

-----------------------------------------------------------------------------
(* The answers that a call has, at most.                                   *)
MaxAnswers ==
    CASE call.method = "ListUsers"         -> Cardinality(Users)
      [] call.method = "SubscribeToEvents" -> Events
      [] call.method = "Interactive"       -> Len(Commands)
      [] OTHER                             -> 1

(* The steps that each side has left, besides those for a message, ...     *)
SenderSteps   == IF sender = "sending" THEN 1 ELSE 0
ReceiverSteps ==
    CASE receiver = "waiting"   -> 3
      [] receiver = "checking"  -> 2
      [] receiver = "receiving" -> 1
      [] OTHER                  -> 0
HandlerSteps  ==
    CASE handler = "sending"                     -> 2
      [] handler \in {"receiving", "subscribed"} -> 1
      [] OTHER                                   -> 0

(* ... and with those, at most.                                            *)
Left ==
    3 * (ToSend - sent) + 2 * Len(toServer)
    + 5 * (MaxAnswers - Len(Answers)) + 3 * Len(toSend) + 2 * Len(toClient)
    + SenderSteps + ReceiverSteps + HandlerSteps

(* A call does not go on for ever, whatever its loops do: but for the two  *)
(* deadlines, which come once, each step of client and handler, and each   *)
(* event published, uses up one of a number of steps known from the start. *)
StepsRunOut == [][Left' < Left \/ (Left' = Left /\ (Deadline \/ EventDeadline))]_vars

LEMMA AnswersBounded ==
    ASSUME IInv
    PROVE  MaxAnswers \in Nat /\ Len(Answers) \in Nat /\ Len(Answers) <= MaxAnswers
    <1>1. /\ Len(Answers) \in Nat /\ Len(Answers) = Len(received) + Len(toClient) + Len(toSend)
          /\ Len(toServer) \in Nat /\ sent \in Nat
        <2>1. Answers \in Seq(Message)
            BY QueueFacts DEF IInv
        <2>2. Len(Answers) \in Nat
            BY <2>1, LenProperties
        <2> QED BY <2>2, QueueFacts DEF IInv
    <1>2. CASE call.method = "ListUsers"
        <2>1. MaxAnswers = Cardinality(Users) /\ Cardinality(Users) \in Nat
            BY <1>2, UsersAssumption, FS_CardinalityType DEF MaxAnswers
        <2>2. Answers = <<>> \/ Answers \in Pages
            BY <1>2 DEF IInv, Listing
        <2>3. Len(<<>>) = 0
            OBVIOUS
        <2>4. Len(Answers) = 0 \/ Len(Answers) <= Cardinality(Users)
            BY <1>2, <2>2, <2>3, PageFacts, Zenon DEF IInv, TypeOK
        <2> QED BY <1>1, <2>1, <2>4
    <1>3. CASE call.method = "SubscribeToEvents"
        <2>1. MaxAnswers = Events /\ Events \in Nat
            BY <1>3, StreamAssumption DEF MaxAnswers
        <2>2. Len(Answers) <= Events
            BY <1>1, <1>3 DEF IInv, Subscription
        <2> QED BY <1>1, <2>1, <2>2
    <1>4. CASE call.method = "Interactive"
        <2>1. MaxAnswers = ToSend /\ ToSend \in Nat
            BY <1>4, CallFacts DEF IInv, TypeOK, MaxAnswers
        <2>2. sent = Len(Answers) + Len(toServer) /\ sent <= ToSend
            BY <1>4 DEF IInv, Conversation, Flow
        <2> DEFINE a == Len(Answers)
                   s == Len(toServer)
        <2>3. sent = a + s /\ sent <= ToSend /\ a \in Nat /\ s \in Nat
            BY <1>1, <2>2
        <2> HIDE DEF a, s
        <2>4. a <= ToSend
            BY <2>1, <2>3
        <2> QED BY <1>1, <2>1, <2>4, Zenon DEF a
    <1>5. CASE call.method \in {"UploadData", "ProcessBatch"}
        <2>1. MaxAnswers = 1
            BY <1>5 DEF MaxAnswers
        <2>2. Answers = <<>> \/ Answers = <<tally>>
            BY <1>5 DEF IInv, Summing
        <2>3. Len(<<>>) = 0 /\ Len(<<tally>>) = 1
            OBVIOUS
        <2>4. Len(Answers) = 0 \/ Len(Answers) = 1
            BY <2>2, <2>3, Zenon
        <2> QED BY <1>1, <2>1, <2>4
    <1> QED BY <1>2, <1>3, <1>4, <1>5, CallFacts DEF IInv, TypeOK

LEMMA StepsAreNumbers ==
    ASSUME IInv
    PROVE  /\ SenderSteps \in Nat /\ ReceiverSteps \in Nat /\ HandlerSteps \in Nat
           /\ Left \in Nat
    <1>1. SenderSteps \in Nat /\ ReceiverSteps \in Nat /\ HandlerSteps \in Nat
        BY DEF IInv, TypeOK, SenderSteps, ReceiverSteps, HandlerSteps
    <1>2. ToSend \in Nat /\ sent \in Nat /\ sent <= ToSend
        BY CallFacts DEF IInv, TypeOK, Flow
    <1> DEFINE a == Len(Answers)
               s == Len(toServer)
               c == Len(toClient)
               h == Len(toSend)
    <1>3. s \in Nat /\ c \in Nat /\ h \in Nat
        BY QueueFacts DEF IInv
    <1>4. MaxAnswers \in Nat /\ a \in Nat /\ a <= MaxAnswers
        BY AnswersBounded
    <1>5. Left = 3 * (ToSend - sent) + 2 * s + 5 * (MaxAnswers - a) + 3 * h + 2 * c
                 + SenderSteps + ReceiverSteps + HandlerSteps
        BY Zenon DEF Left
    <1> HIDE DEF a, s, c, h
    <1> QED BY <1>1, <1>2, <1>3, <1>4, <1>5

(* One step.                                                               *)
LEMMA OneStepLess ==
    ASSUME IInv, IInv', Next
    PROVE  Left' < Left \/ (Left' = Left /\ (Deadline \/ EventDeadline))
    <1> DEFINE a == Len(Answers)
               s == Len(toServer)
               c == Len(toClient)
               h == Len(toSend)
               r == Len(received)
               a1 == Len(Answers')
               s1 == Len(toServer')
               c1 == Len(toClient')
               h1 == Len(toSend')
               r1 == Len(received')
               ss == SenderSteps
               rs == ReceiverSteps
               hs == HandlerSteps
               ss1 == SenderSteps'
               rs1 == ReceiverSteps'
               hs1 == HandlerSteps'
    <1>1. /\ ToSend' = ToSend /\ MaxAnswers' = MaxAnswers
          /\ ToSend \in Nat /\ sent \in Nat /\ MaxAnswers \in Nat
        BY SameCall, CallFacts, AnswersBounded DEF IInv, TypeOK, MaxAnswers
    <1>2. /\ s \in Nat /\ c \in Nat /\ h \in Nat /\ r \in Nat /\ a = r + c + h
          /\ toServer \in Seq(1 .. sent) /\ toClient \in Seq(Message) /\ toSend \in Seq(Message)
          /\ received \in Seq(Message)
        BY QueueFacts DEF IInv, TypeOK
    <1>3. /\ s1 \in Nat /\ c1 \in Nat /\ h1 \in Nat /\ r1 \in Nat /\ a1 = r1 + c1 + h1
        <2>1. /\ received' \in Seq(Message) /\ toClient' \in Seq(Message) /\ toSend' \in Seq(Message)
              /\ toServer' \in Seq(1 .. sent')
            BY DEF IInv, TypeOK
        <2>2. /\ received' \o toClient' \in Seq(Message)
              /\ Len(received' \o toClient') = r1 + c1
            BY <2>1, ConcatProperties
        <2>3. Len(Answers') = Len(received' \o toClient') + h1
            BY <2>1, <2>2, ConcatProperties DEF Answers
        <2> QED BY <2>1, <2>2, <2>3, LenProperties
    <1>4. /\ ss \in Nat /\ rs \in Nat /\ hs \in Nat
          /\ ss1 \in Nat /\ rs1 \in Nat /\ hs1 \in Nat
          /\ sent' \in Nat
        <2>1. ss1 \in Nat /\ rs1 \in Nat /\ hs1 \in Nat /\ sent' \in Nat
            BY DEF IInv, TypeOK, SenderSteps, ReceiverSteps, HandlerSteps
        <2> QED BY <2>1, StepsAreNumbers
    <1>5. Left = 3 * (ToSend - sent) + 2 * s + 5 * (MaxAnswers - a) + 3 * h + 2 * c
                 + ss + rs + hs
        BY Zenon DEF Left
    <1>6. Left' = 3 * (ToSend - sent') + 2 * s1 + 5 * (MaxAnswers - a1) + 3 * h1 + 2 * c1
                 + ss1 + rs1 + hs1
        BY <1>1 DEF Left
    <1>7. /\ sender \in {"sending", "exited"}
          /\ receiver \in {"waiting", "checking", "receiving", "eof", "failed", "left"}
          /\ handler \in {"receiving", "sending", "subscribed", "ok", "error"}
        BY DEF IInv, TypeOK
    <1> USE DEF SenderSteps, ReceiverSteps, HandlerSteps
    <1>8. (sender' = sender => ss1 = ss)
          /\ (receiver' = receiver => rs1 = rs)
          /\ (handler' = handler => hs1 = hs)
        OBVIOUS
    <1>9. UNCHANGED <<toServer>> => s1 = s
        OBVIOUS
    <1>10. UNCHANGED <<received, toClient, toSend>> => r1 = r /\ c1 = c /\ h1 = h
        OBVIOUS
    <1>11. CASE ClientSends
        <2>1. sent' = sent + 1 /\ toServer' = Append(toServer, sent + 1)
            BY <1>11 DEF ClientSends
        <2>2. s1 = s + 1
            BY <1>1, <1>2, <2>1
        <2>3. r1 = r /\ c1 = c /\ h1 = h
            BY <1>10, <1>11 DEF ClientSends, serverVars
        <2>4. ss1 = ss /\ rs1 = rs /\ hs1 = hs
            BY <1>8, <1>11 DEF ClientSends, serverVars
        <2> HIDE DEF a, s, c, h, r, a1, s1, c1, h1, r1, ss, rs, hs, ss1, rs1, hs1
        <2> QED BY <1>1, <1>2, <1>3, <1>4, <1>5, <1>6, <2>1, <2>2, <2>3, <2>4
    <1>12. CASE ClientSendFails
        <2>1. sent' = sent /\ s1 = s /\ r1 = r /\ c1 = c /\ h1 = h
            BY <1>9, <1>10, <1>12 DEF ClientSendFails, serverVars, wireVars
        <2>2. ss = 1 /\ ss1 = 0
            BY <1>12 DEF ClientSendFails
        <2>3. rs1 <= rs
            BY <1>7, <1>12 DEF ClientSendFails
        <2>4. hs1 = hs
            BY <1>8, <1>12 DEF ClientSendFails, serverVars
        <2> HIDE DEF a, s, c, h, r, a1, s1, c1, h1, r1, ss, rs, hs, ss1, rs1, hs1
        <2> QED BY <1>1, <1>2, <1>3, <1>4, <1>5, <1>6, <2>1, <2>2, <2>3, <2>4
    <1>13. CASE CloseSend
        <2>1. sent' = sent /\ s1 = s /\ r1 = r /\ c1 = c /\ h1 = h
            BY <1>9, <1>10, <1>13 DEF CloseSend, serverVars
        <2>2. ss = 1 /\ ss1 = 0
            BY <1>13 DEF CloseSend
        <2>3. rs1 <= rs
            BY <1>7, <1>13 DEF CloseSend
        <2>4. hs1 = hs
            BY <1>8, <1>13 DEF CloseSend, serverVars
        <2> HIDE DEF a, s, c, h, r, a1, s1, c1, h1, r1, ss, rs, hs, ss1, rs1, hs1
        <2> QED BY <1>1, <1>2, <1>3, <1>4, <1>5, <1>6, <2>1, <2>2, <2>3, <2>4
    <1>14. CASE Leave
        <2>1. sent' = sent /\ s1 = s /\ r1 = r /\ c1 = c /\ h1 = h
            BY <1>9, <1>10, <1>14 DEF Leave, serverVars
        <2>2. ss1 = ss /\ hs1 = hs
            BY <1>8, <1>14 DEF Leave, serverVars
        <2>3. rs = 2 /\ rs1 = 0
            BY <1>14 DEF Leave
        <2> HIDE DEF a, s, c, h, r, a1, s1, c1, h1, r1, ss, rs, hs, ss1, rs1, hs1
        <2> QED BY <1>1, <1>2, <1>3, <1>4, <1>5, <1>6, <2>1, <2>2, <2>3
    <1>15. CASE GoOn
        <2>1. sent' = sent /\ s1 = s /\ r1 = r /\ c1 = c /\ h1 = h
            BY <1>9, <1>10, <1>15 DEF GoOn, serverVars, wireVars
        <2>2. ss1 = ss /\ hs1 = hs
            BY <1>8, <1>15 DEF GoOn, serverVars
        <2>3. rs = 2 /\ rs1 = 1
            BY <1>15 DEF GoOn
        <2> HIDE DEF a, s, c, h, r, a1, s1, c1, h1, r1, ss, rs, hs, ss1, rs1, hs1
        <2> QED BY <1>1, <1>2, <1>3, <1>4, <1>5, <1>6, <2>1, <2>2, <2>3
    <1>16. CASE ClientReceives
        <2>1. toClient # <<>> /\ received' = Append(received, Head(toClient)) /\ toClient' = Tail(toClient)
            BY <1>16 DEF ClientReceives
        <2>2. r1 = r + 1 /\ c1 = c - 1
            BY <1>2, <2>1, HeadTailProperties, AppendProperties
        <2>3. sent' = sent /\ s1 = s /\ h1 = h
            BY <1>9, <1>16 DEF ClientReceives, serverVars
        <2>4. ss1 = ss /\ hs1 = hs
            BY <1>8, <1>16 DEF ClientReceives, serverVars
        <2>5. rs = 1 /\ rs1 <= 2
            BY <1>16 DEF ClientReceives
        <2> HIDE DEF a, s, c, h, r, a1, s1, c1, h1, r1, ss, rs, hs, ss1, rs1, hs1
        <2> QED BY <1>1, <1>2, <1>3, <1>4, <1>5, <1>6, <2>2, <2>3, <2>4, <2>5
    <1>17. CASE ClientStops
        <2>1. sent' = sent /\ s1 = s /\ r1 = r /\ c1 = c /\ h1 = h
            BY <1>9, <1>10, <1>17 DEF ClientStops, serverVars, wireVars
        <2>2. ss1 = ss /\ hs1 = hs
            BY <1>8, <1>17 DEF ClientStops, serverVars
        <2>3. rs = 1 /\ rs1 = 0
            BY <1>17 DEF ClientStops
        <2> HIDE DEF a, s, c, h, r, a1, s1, c1, h1, r1, ss, rs, hs, ss1, rs1, hs1
        <2> QED BY <1>1, <1>2, <1>3, <1>4, <1>5, <1>6, <2>1, <2>2, <2>3
    <1>18. CASE HandlerReceives
        <2>1. toServer # <<>> /\ toServer' = Tail(toServer) /\ toSend = <<>> /\ handler = "receiving"
            BY <1>18, ReceiveFacts DEF IInv
        <2>2. s1 = s - 1 /\ h = 0
            BY <1>2, <2>1, HeadTailProperties
        <2>3. sent' = sent /\ r1 = r /\ c1 = c
            BY <1>18 DEF HandlerReceives, clientVars
        <2>4. ss1 = ss /\ rs1 = rs
            BY <1>8, <1>18 DEF HandlerReceives, clientVars
        <2>5. hs = 1 /\ hs1 <= 2
            BY <1>7, <1>18, <2>1, ReceiveFacts, CallFacts DEF IInv, TypeOK
        <2> HIDE DEF a, s, c, h, r, a1, s1, c1, h1, r1, ss, rs, hs, ss1, rs1, hs1
        <2> QED BY <1>1, <1>2, <1>3, <1>4, <1>5, <1>6, <2>2, <2>3, <2>4, <2>5
    <1>19. CASE HandlerReachesEnd
        <2>1. sent' = sent /\ s1 = s /\ r1 = r /\ c1 = c
            BY <1>9, <1>19 DEF HandlerReachesEnd, clientVars, wireVars
        <2>2. ss1 = ss /\ rs1 = rs
            BY <1>8, <1>19 DEF HandlerReachesEnd, clientVars
        <2>3. \/ hs = 1 /\ hs1 = 0 /\ h1 = h
              \/ hs = 1 /\ hs1 = 2 /\ h = 0 /\ h1 = 1
            BY <1>19 DEF HandlerReachesEnd, IInv, Flow
        <2> HIDE DEF a, s, c, h, r, a1, s1, c1, h1, r1, ss, rs, hs, ss1, rs1, hs1
        <2> QED BY <1>1, <1>2, <1>3, <1>4, <1>5, <1>6, <2>1, <2>2, <2>3
    <1>20. CASE Publish
        <2>1. sent' = sent /\ s1 = s /\ r1 = r /\ c1 = c
            BY <1>9, <1>20 DEF Publish, clientVars, wireVars
        <2>2. ss1 = ss /\ rs1 = rs
            BY <1>8, <1>20 DEF Publish, clientVars
        <2>3. hs = 1 /\ hs1 = 2
            BY <1>20 DEF Publish
        <2>4. h = 0 /\ h1 = 1
            BY <1>20 DEF Publish, IInv, Flow
        <2> HIDE DEF a, s, c, h, r, a1, s1, c1, h1, r1, ss, rs, hs, ss1, rs1, hs1
        <2> QED BY <1>1, <1>2, <1>3, <1>4, <1>5, <1>6, <2>1, <2>2, <2>3, <2>4
    <1>21. CASE Unsubscribe
        <2>1. sent' = sent /\ s1 = s /\ r1 = r /\ c1 = c /\ h1 = h
            BY <1>9, <1>10, <1>21 DEF Unsubscribe, clientVars, wireVars
        <2>2. ss1 = ss /\ rs1 = rs
            BY <1>8, <1>21 DEF Unsubscribe, clientVars
        <2>3. hs = 1 /\ hs1 = 0
            BY <1>21 DEF Unsubscribe
        <2> HIDE DEF a, s, c, h, r, a1, s1, c1, h1, r1, ss, rs, hs, ss1, rs1, hs1
        <2> QED BY <1>1, <1>2, <1>3, <1>4, <1>5, <1>6, <2>1, <2>2, <2>3
    <1>22. CASE HandlerSends
        <2>1. toSend # <<>> /\ toClient' = Append(toClient, Head(toSend)) /\ toSend' = Tail(toSend)
            BY <1>22 DEF HandlerSends
        <2>2. c1 = c + 1 /\ h1 = h - 1
            BY <1>2, <2>1, HeadTailProperties, AppendProperties
        <2>3. sent' = sent /\ s1 = s /\ r1 = r
            BY <1>9, <1>22 DEF HandlerSends, clientVars
        <2>4. ss1 = ss /\ rs1 = rs /\ hs1 = hs
            BY <1>8, <1>22 DEF HandlerSends, clientVars
        <2> HIDE DEF a, s, c, h, r, a1, s1, c1, h1, r1, ss, rs, hs, ss1, rs1, hs1
        <2> QED BY <1>1, <1>2, <1>3, <1>4, <1>5, <1>6, <2>2, <2>3, <2>4
    <1>23. CASE HandlerHasSent
        <2>1. sent' = sent /\ s1 = s /\ r1 = r /\ c1 = c /\ h1 = h
            BY <1>9, <1>10, <1>23 DEF HandlerHasSent, clientVars, wireVars
        <2>2. ss1 = ss /\ rs1 = rs
            BY <1>8, <1>23 DEF HandlerHasSent, clientVars
        <2>3. hs = 2 /\ hs1 <= 1
            BY <1>23 DEF HandlerHasSent
        <2> HIDE DEF a, s, c, h, r, a1, s1, c1, h1, r1, ss, rs, hs, ss1, rs1, hs1
        <2> QED BY <1>1, <1>2, <1>3, <1>4, <1>5, <1>6, <2>1, <2>2, <2>3
    <1>24. CASE HandlerFails
        <2>1. sent' = sent /\ s1 = s /\ r1 = r /\ c1 = c /\ h1 = h
            BY <1>9, <1>10, <1>24 DEF HandlerFails, clientVars, wireVars
        <2>2. ss1 = ss /\ rs1 = rs
            BY <1>8, <1>24 DEF HandlerFails, clientVars
        <2>3. hs >= 1 /\ hs1 = 0
            BY <1>24 DEF HandlerFails
        <2> HIDE DEF a, s, c, h, r, a1, s1, c1, h1, r1, ss, rs, hs, ss1, rs1, hs1
        <2> QED BY <1>1, <1>2, <1>3, <1>4, <1>5, <1>6, <2>1, <2>2, <2>3
    <1>25. CASE Deadline \/ EventDeadline
        <2>1. UNCHANGED <<call, sender, receiver, sent, received, toServer, toClient, handler, toSend>>
            BY <1>25 DEF Deadline, EventDeadline, clientVars, serverVars, wireVars
        <2>2. Left' = Left
            BY <2>1 DEF Left, ToSend, MaxAnswers, Answers
        <2> QED BY <1>25, <2>2
    <1> QED BY <1>11, <1>12, <1>13, <1>14, <1>15, <1>16, <1>17, <1>18, <1>19, <1>20, <1>21, <1>22,
               <1>23, <1>24, <1>25 DEF Next, Sender, Receiver, Handler

(* Nothing is counted below zero, so the steps do run out: with            *)
(* NoSideWaitsForTheOther this is the argument for CallEnds, whatever the  *)
(* windows, the numbers of messages and the conversation.                  *)
THEOREM CallsAreBounded == Spec => [](Left \in Nat) /\ StepsRunOut
    <1>1. IInv => Left \in Nat
        BY StepsAreNumbers
    <1>2. IInv /\ IInv' /\ [Next]_vars =>
              [Left' < Left \/ (Left' = Left /\ (Deadline \/ EventDeadline))]_vars
        BY OneStepLess
    <1> QED BY Inductive, <1>1, <1>2, PTL DEF Spec, StepsRunOut
=============================================================================
