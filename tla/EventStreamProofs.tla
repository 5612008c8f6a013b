-------------------------- MODULE EventStreamProofs --------------------------
(***************************************************************************)
(* Proofs about EventStream, for any subscriptions, event types, filters   *)
(* and capacities of the channels.                                         *)
(***************************************************************************)
EXTENDS EventStream, SequenceTheorems, TLAPS

(* The maps of queues are functions, and no hand keeps what it has let go. *)
Shape ==
    /\ eventChan \in [Subs -> Seq(Event)]
    /\ delivered \in [Subs -> Seq(Event)]
    /\ \A s \in Subs : IF handler[s] = "sending" THEN sending[s] \in Event
                                                 ELSE sending[s] = NoEvent
    /\ \A s \in Subs : IF forwarder[s] = "holding" THEN holding[s] \in Event
                                                   ELSE holding[s] = NoEvent
    /\ \A s \in Subs : handler[s] = "none" => forwarder[s] = "none"

Before(q, r) == \A i \in DOMAIN q : \A j \in DOMAIN r : q[i].id < r[j].id
Below(q, n)  == \A i \in DOMAIN q : q[i].id <= n
Fits(s, q)   == \A i \in DOMAIN q : Wants(s, q[i])

(* Whatever is further from the broadcaster was made earlier ...           *)
Sorted(s) ==
    /\ Increasing(delivered[s]) /\ Increasing(eventChan[s])
    /\ Before(delivered[s], InSend(s)) /\ Before(delivered[s], eventChan[s])
    /\ Before(delivered[s], InHand(s)) /\ Before(delivered[s], events)
    /\ Before(InSend(s), eventChan[s]) /\ Before(InSend(s), InHand(s))
    /\ Before(InSend(s), events)
    /\ Before(eventChan[s], InHand(s)) /\ Before(eventChan[s], events)
    /\ Before(InHand(s), events)

(* ... none was made after the last ...                                    *)
Made(s) ==
    /\ Below(delivered[s], created) /\ Below(InSend(s), created)
    /\ Below(eventChan[s], created) /\ Below(InHand(s), created)

(* ... each is of a type that was asked for ...                            *)
Asked(s) ==
    /\ Fits(s, delivered[s]) /\ Fits(s, InSend(s))
    /\ Fits(s, eventChan[s]) /\ Fits(s, InHand(s))

Order ==
    /\ Increasing(events) /\ Below(events, created)
    /\ \A s \in Subs : Sorted(s) /\ Made(s) /\ Asked(s)

(* ... and no two subscriptions have the same.                             *)
Elems(q) == {q[i] : i \in DOMAIN q}

Has(s) == Elems(delivered[s]) \cup Elems(InSend(s)) \cup Elems(eventChan[s]) \cup Elems(InHand(s))

Apart == \A s, t \in Subs : s # t => Has(s) \cap Has(t) = {}

IInv == TypeOK /\ Shape /\ Order /\ Apart

-----------------------------------------------------------------------------
(* Queues of events.                                                       *)
LEMMA EventFacts ==
    /\ \A e \in Event : e.id \in Nat /\ e # NoEvent
    /\ MaxEvents \in Nat
    <1>1. MaxEvents \in Nat
        BY CapacityAssumption
    <1> QED BY <1>1 DEF Event, NoEvent

LEMMA NoneBefore ==
    ASSUME NEW q
    PROVE  /\ Before(q, <<>>) /\ Before(<<>>, q) /\ Increasing(<<>>)
           /\ Elems(<<>>) = {}
           /\ \A n : Below(<<>>, n)
           /\ \A s : Fits(s, <<>>)
    <1>1. DOMAIN <<>> = {}
        BY EmptySeq, LenProperties
    <1> QED BY <1>1 DEF Before, Below, Fits, Increasing, Elems

LEMMA OneElement ==
    ASSUME NEW e
    PROVE  /\ DOMAIN <<e>> = {1} /\ <<e>>[1] = e
           /\ Elems(<<e>>) = {e}
           /\ Increasing(<<e>>)
    <1>1. DOMAIN <<e>> = {1} /\ <<e>>[1] = e
        OBVIOUS
    <1> QED BY <1>1 DEF Elems, Increasing

(* The head of a queue, and the others.                                    *)
LEMMA HeadFacts ==
    ASSUME NEW q \in Seq(Event), q # <<>>
    PROVE  /\ Head(q) \in Event /\ Tail(q) \in Seq(Event) /\ Len(Tail(q)) = Len(q) - 1
           /\ 1 \in DOMAIN q /\ Head(q) = q[1]
           /\ \A i \in DOMAIN Tail(q) : i + 1 \in DOMAIN q /\ Tail(q)[i] = q[i + 1] /\ i \in Nat
    <1>1. /\ DOMAIN q = 1 .. Len(q) /\ Len(q) \in Nat \ {0}
        BY EmptySeq, LenProperties
    <1>2. Head(q) \in Event /\ Tail(q) \in Seq(Event) /\ Len(Tail(q)) = Len(q) - 1
        BY HeadTailProperties
    <1>3. DOMAIN Tail(q) = 1 .. Len(q) - 1
        BY <1>2, LenProperties
    <1> QED BY <1>1, <1>2, <1>3

LEMMA TakeFromQueue ==
    ASSUME NEW q \in Seq(Event), q # <<>>
    PROVE  /\ Increasing(q) => Increasing(Tail(q)) /\ Before(<<Head(q)>>, Tail(q))
           /\ \A r : Before(r, q) => Before(r, <<Head(q)>>) /\ Before(r, Tail(q))
           /\ \A r : Before(q, r) => Before(<<Head(q)>>, r) /\ Before(Tail(q), r)
           /\ \A n : Below(q, n) => Below(<<Head(q)>>, n) /\ Below(Tail(q), n)
           /\ \A s : Fits(s, q) => Fits(s, <<Head(q)>>) /\ Fits(s, Tail(q))
           /\ Elems(q) = {Head(q)} \cup Elems(Tail(q))
    <1>1. /\ 1 \in DOMAIN q /\ Head(q) = q[1]
          /\ \A i \in DOMAIN Tail(q) : i + 1 \in DOMAIN q /\ Tail(q)[i] = q[i + 1] /\ i \in Nat
        BY HeadFacts
    <1>2. DOMAIN <<Head(q)>> = {1} /\ <<Head(q)>>[1] = Head(q)
        BY OneElement
    <1>3. DOMAIN q = 1 .. Len(q) /\ DOMAIN Tail(q) = 1 .. Len(q) - 1 /\ Len(q) \in Nat
        BY HeadFacts, LenProperties
    <1>4. ASSUME Increasing(q)
          PROVE  Increasing(Tail(q)) /\ Before(<<Head(q)>>, Tail(q))
        <2>1. ASSUME NEW i \in DOMAIN Tail(q), NEW j \in DOMAIN Tail(q), i < j
              PROVE  Tail(q)[i].id < Tail(q)[j].id
            <3>1. i + 1 \in DOMAIN q /\ j + 1 \in DOMAIN q /\ i + 1 < j + 1
                BY <1>1, <2>1
            <3>2. q[i + 1].id < q[j + 1].id
                BY <1>4, <3>1 DEF Increasing
            <3> QED BY <1>1, <3>2
        <2>2. ASSUME NEW j \in DOMAIN Tail(q)
              PROVE  Head(q).id < Tail(q)[j].id
            <3>1. j + 1 \in DOMAIN q /\ 1 < j + 1
                BY <1>1, <1>3
            <3>2. q[1].id < q[j + 1].id
                BY <1>1, <1>4, <3>1 DEF Increasing
            <3> QED BY <1>1, <3>2
        <2> QED BY <1>2, <2>1, <2>2 DEF Increasing, Before
    <1>5. ASSUME NEW r, Before(r, q)
          PROVE  Before(r, <<Head(q)>>) /\ Before(r, Tail(q))
        BY <1>1, <1>2, <1>5 DEF Before
    <1>6. ASSUME NEW r, Before(q, r)
          PROVE  Before(<<Head(q)>>, r) /\ Before(Tail(q), r)
        BY <1>1, <1>2, <1>6 DEF Before
    <1>7. ASSUME NEW n, Below(q, n)
          PROVE  Below(<<Head(q)>>, n) /\ Below(Tail(q), n)
        BY <1>1, <1>2, <1>7 DEF Below
    <1>8. ASSUME NEW s, Fits(s, q)
          PROVE  Fits(s, <<Head(q)>>) /\ Fits(s, Tail(q))
        BY <1>1, <1>2, <1>8 DEF Fits
    <1>9. Elems(q) = {Head(q)} \cup Elems(Tail(q))
        <2>1. ASSUME NEW i \in DOMAIN q
              PROVE  q[i] \in {Head(q)} \cup Elems(Tail(q))
            <3>1. CASE i = 1
                BY <1>1, <3>1
            <3>2. CASE i # 1
                <4>1. i - 1 \in DOMAIN Tail(q) /\ (i - 1) + 1 = i
                    BY <1>3, <3>2
                <4>2. Tail(q)[i - 1] = q[i]
                    BY <1>1, <4>1
                <4> QED BY <4>1, <4>2 DEF Elems
            <3> QED BY <3>1, <3>2
        <2>2. ASSUME NEW i \in DOMAIN Tail(q)
              PROVE  Tail(q)[i] \in Elems(q)
            BY <1>1 DEF Elems
        <2> QED BY <1>1, <2>1, <2>2 DEF Elems
    <1> QED BY <1>4, <1>5, <1>6, <1>7, <1>8, <1>9

LEMMA PutInQueue ==
    ASSUME NEW q \in Seq(Event), NEW e \in Event
    PROVE  /\ Append(q, e) \in Seq(Event) /\ Len(Append(q, e)) = Len(q) + 1
           /\ Increasing(q) /\ Before(q, <<e>>) => Increasing(Append(q, e))
           /\ \A r : Before(r, q) /\ Before(r, <<e>>) => Before(r, Append(q, e))
           /\ \A r : Before(q, r) /\ Before(<<e>>, r) => Before(Append(q, e), r)
           /\ \A n : Below(q, n) /\ Below(<<e>>, n) => Below(Append(q, e), n)
           /\ \A s : Fits(s, q) /\ Fits(s, <<e>>) => Fits(s, Append(q, e))
           /\ Elems(Append(q, e)) = Elems(q) \cup {e}
    <1> DEFINE p == Append(q, e)
    <1>1. /\ p \in Seq(Event) /\ Len(p) = Len(q) + 1 /\ Len(q) \in Nat
          /\ \A i \in 1 .. Len(q) : p[i] = q[i]
          /\ p[Len(q) + 1] = e
        BY AppendProperties, LenProperties
    <1>2. DOMAIN q = 1 .. Len(q) /\ DOMAIN p = 1 .. Len(q) + 1
        BY <1>1, LenProperties
    <1>3. DOMAIN <<e>> = {1} /\ <<e>>[1] = e
        BY OneElement
    <1> HIDE DEF p
    <1>4. /\ \A i \in DOMAIN p : (i \in DOMAIN q /\ p[i] = q[i]) \/ (i = Len(q) + 1 /\ p[i] = e)
          /\ \A i \in DOMAIN q : i \in DOMAIN p /\ p[i] = q[i]
          /\ Len(q) + 1 \in DOMAIN p
        BY <1>1, <1>2
    <1>5. ASSUME Increasing(q), Before(q, <<e>>)
          PROVE  Increasing(p)
        <2> SUFFICES ASSUME NEW i \in DOMAIN p, NEW j \in DOMAIN p, i < j
                     PROVE  p[i].id < p[j].id
            BY DEF Increasing
        <2>1. i \in DOMAIN q /\ p[i] = q[i]
            BY <1>1, <1>2
        <2>2. CASE j \in DOMAIN q
            BY <1>4, <1>5, <2>1, <2>2 DEF Increasing
        <2>3. CASE j \notin DOMAIN q
            BY <1>3, <1>4, <1>5, <2>1, <2>3 DEF Before
        <2> QED BY <2>2, <2>3
    <1>6. ASSUME NEW r, Before(r, q), Before(r, <<e>>)
          PROVE  Before(r, p)
        BY <1>3, <1>4, <1>6 DEF Before
    <1>7. ASSUME NEW r, Before(q, r), Before(<<e>>, r)
          PROVE  Before(p, r)
        BY <1>3, <1>4, <1>7 DEF Before
    <1>8. ASSUME NEW n, Below(q, n), Below(<<e>>, n)
          PROVE  Below(p, n)
        BY <1>3, <1>4, <1>8 DEF Below
    <1>9. ASSUME NEW s, Fits(s, q), Fits(s, <<e>>)
          PROVE  Fits(s, p)
        BY <1>3, <1>4, <1>9 DEF Fits
    <1>10. Elems(p) = Elems(q) \cup {e}
        BY <1>1, <1>4 DEF Elems
    <1> QED BY <1>1, <1>5, <1>6, <1>7, <1>8, <1>9, <1>10 DEF p

-----------------------------------------------------------------------------
(* What an action does to the queues of a subscription.                    *)
Same(t) ==
    /\ delivered'[t] = delivered[t] /\ eventChan'[t] = eventChan[t]
    /\ InSend(t)' = InSend(t) /\ InHand(t)' = InHand(t)

LEMMA Elsewhere ==
    ASSUME TypeOK, Shape, NEW s \in Subs, NEW t \in Subs, t # s,
           Forwarder(s) \/ Handler(s)
    PROVE  Same(t)
    <1>1. /\ handler'[t] = handler[t] /\ sending'[t] = sending[t]
          /\ forwarder'[t] = forwarder[t] /\ holding'[t] = holding[t]
          /\ delivered'[t] = delivered[t] /\ eventChan'[t] = eventChan[t]
        <2>1. CASE Forwarder(s)
            BY <2>1 DEF Forwarder, TakeEvent, Forward, ForwardPanics, GiveUp, LetGo, TypeOK, Shape
        <2>2. CASE Handler(s)
            BY <2>2 DEF Handler, Receive, Sent, Return, TypeOK, Shape
        <2> QED BY <2>1, <2>2
    <1> QED BY <1>1 DEF Same, InSend, InHand

LEMMA TakeEventEffect ==
    ASSUME TypeOK, Shape, NEW s \in Subs, TakeEvent(s)
    PROVE  /\ events # <<>> /\ events' = Tail(events) /\ created' = created
           /\ delivered'[s] = delivered[s] /\ eventChan'[s] = eventChan[s]
           /\ InSend(s)' = InSend(s) /\ InHand(s) = <<>>
           /\ \/ InHand(s)' = <<>>
              \/ InHand(s)' = <<Head(events)>> /\ Wants(s, Head(events))
    BY DEF TakeEvent, TypeOK, Shape, InSend, InHand

LEMMA ForwardEffect ==
    ASSUME TypeOK, Shape, NEW s \in Subs, Forward(s)
    PROVE  /\ events' = events /\ created' = created
           /\ delivered'[s] = delivered[s] /\ InSend(s)' = InSend(s)
           /\ holding[s] \in Event /\ InHand(s) = <<holding[s]>> /\ InHand(s)' = <<>>
           /\ eventChan'[s] = Append(eventChan[s], holding[s])
    BY DEF Forward, LetGo, TypeOK, Shape, InSend, InHand

LEMMA GiveUpEffect ==
    ASSUME TypeOK, Shape, NEW s \in Subs, GiveUp(s)
    PROVE  /\ events' = events /\ created' = created
           /\ delivered'[s] = delivered[s] /\ eventChan'[s] = eventChan[s]
           /\ InSend(s)' = InSend(s) /\ InHand(s)' = <<>>
    BY DEF GiveUp, LetGo, TypeOK, Shape, InSend, InHand

LEMMA ReceiveEffect ==
    ASSUME TypeOK, Shape, NEW s \in Subs, Receive(s)
    PROVE  /\ events' = events /\ created' = created
           /\ delivered'[s] = delivered[s] /\ InHand(s)' = InHand(s)
           /\ eventChan[s] # <<>> /\ eventChan'[s] = Tail(eventChan[s])
           /\ InSend(s) = <<>> /\ InSend(s)' = <<Head(eventChan[s])>>
    BY DEF Receive, TypeOK, Shape, InSend, InHand

LEMMA SentEffect ==
    ASSUME TypeOK, Shape, NEW s \in Subs, Sent(s)
    PROVE  /\ events' = events /\ created' = created
           /\ eventChan'[s] = eventChan[s] /\ InHand(s)' = InHand(s)
           /\ sending[s] \in Event /\ InSend(s) = <<sending[s]>> /\ InSend(s)' = <<>>
           /\ delivered'[s] = Append(delivered[s], sending[s])
    BY DEF Sent, TypeOK, Shape, InSend, InHand

LEMMA ReturnEffect ==
    ASSUME TypeOK, Shape, NEW s \in Subs, Return(s)
    PROVE  /\ events' = events /\ created' = created
           /\ delivered'[s] = delivered[s] /\ eventChan'[s] = eventChan[s]
           /\ InSend(s)' = <<>> /\ InHand(s)' = InHand(s)
    BY DEF Return, TypeOK, Shape, InSend, InHand

LEMMA OthersEffect ==
    ASSUME TypeOK, Shape, NEW t \in Subs,
           \/ Broadcast \/ UNCHANGED vars
           \/ \E s \in Subs : Subscribe(s) \/ Disconnect(s) \/ ForwardPanics(s)
    PROVE  /\ Same(t)
           /\ Broadcast \/ (events' = events /\ created' = created)
    <1>1. CASE Broadcast
        BY <1>1 DEF Broadcast, Same, InSend, InHand
    <1>2. CASE UNCHANGED vars
        BY <1>2 DEF vars, Same, InSend, InHand
    <1>3. ASSUME NEW s \in Subs, Subscribe(s)
          PROVE  Same(t) /\ events' = events /\ created' = created
        <2>1. /\ UNCHANGED <<created, events, sending, holding, eventChan, delivered>>
              /\ handler[s] = "none" /\ forwarder[s] = "none"
              /\ handler' = [handler EXCEPT ![s] = "selecting"]
              /\ forwarder' = [forwarder EXCEPT ![s] = "ranging"]
            BY <1>3 DEF Subscribe, Shape
        <2>2. /\ handler'[t] = "sending" <=> handler[t] = "sending"
              /\ forwarder'[t] = "holding" <=> forwarder[t] = "holding"
            BY <2>1 DEF TypeOK
        <2> QED BY <2>1, <2>2 DEF Same, InSend, InHand
    <1>4. ASSUME NEW s \in Subs, Disconnect(s) \/ ForwardPanics(s)
          PROVE  Same(t) /\ events' = events /\ created' = created
        BY <1>4 DEF Disconnect, ForwardPanics, Same, InSend, InHand
    <1> QED BY <1>1, <1>2, <1>3, <1>4

-----------------------------------------------------------------------------
LEMMA TypeInit ==
    ASSUME Init
    PROVE  TypeOK /\ Shape
    <1>1. <<>> \in Seq(Event) /\ Len(<<>>) = 0
        BY EmptySeq
    <1>2. /\ 0 \in 0 .. MaxEvents /\ 0 <= EventsCap /\ 0 <= ChanCap
        BY CapacityAssumption
    <1> QED BY <1>1, <1>2 DEF Init, TypeOK, Shape

LEMMA TypeStep ==
    ASSUME TypeOK, Shape, [Next]_vars
    PROVE  TypeOK' /\ Shape'
    <1>0. /\ EventsCap \in Nat /\ ChanCap \in Nat /\ MaxEvents \in Nat
        BY CapacityAssumption
    <1>1. CASE Broadcast
        <2>1. PICK type \in Types :
                  events' = IF Len(events) < EventsCap
                            THEN Append(events, [id |-> created + 1, type |-> type])
                            ELSE events
            BY <1>1 DEF Broadcast
        <2>2. /\ created \in 0 .. MaxEvents /\ created < MaxEvents /\ created' = created + 1
              /\ events \in Seq(Event) /\ Len(events) <= EventsCap
            BY <1>1 DEF Broadcast, TypeOK
        <2>3. created' \in 0 .. MaxEvents /\ created + 1 \in 1 .. MaxEvents
            BY <1>0, <2>2
        <2>4. [id |-> created + 1, type |-> type] \in Event
            BY <2>3 DEF Event
        <2>5. events' \in Seq(Event) /\ Len(events') <= EventsCap
            BY <1>0, <2>1, <2>2, <2>4, PutInQueue, LenProperties
        <2> QED BY <1>1, <2>3, <2>5 DEF Broadcast, TypeOK, Shape
    <1>2. ASSUME NEW s \in Subs, Subscribe(s)
          PROVE  TypeOK' /\ Shape'
        BY <1>2 DEF Subscribe, TypeOK, Shape
    <1>3. ASSUME NEW s \in Subs, Disconnect(s)
          PROVE  TypeOK' /\ Shape'
        BY <1>3 DEF Disconnect, TypeOK, Shape
    <1>4. ASSUME NEW s \in Subs, TakeEvent(s)
          PROVE  TypeOK' /\ Shape'
        <2>1. events # <<>> /\ events' = Tail(events) /\ events \in Seq(Event)
            BY <1>4 DEF TakeEvent, TypeOK
        <2>2. Head(events) \in Event /\ events' \in Seq(Event) /\ Len(events') <= EventsCap
            BY <1>0, <2>1, HeadFacts, LenProperties DEF TypeOK
        <2>3. /\ UNCHANGED <<created, handler, sending, eventChan, closed, done, delivered, crashed>>
              /\ forwarder[s] = "ranging"
              /\ \/ /\ holding' = [holding EXCEPT ![s] = Head(events)]
                    /\ forwarder' = [forwarder EXCEPT ![s] = "holding"]
                 \/ UNCHANGED <<holding, forwarder>>
            BY <1>4 DEF TakeEvent
        <2>4. TypeOK'
            BY <2>2, <2>3 DEF TypeOK
        <2> QED BY <2>2, <2>3, <2>4 DEF TypeOK, Shape
    <1>5. ASSUME NEW s \in Subs, Forward(s)
          PROVE  TypeOK' /\ Shape'
        <2>1. /\ eventChan[s] \in Seq(Event) /\ holding[s] \in Event /\ Len(eventChan[s]) < ChanCap
              /\ eventChan' = [eventChan EXCEPT ![s] = Append(eventChan[s], holding[s])]
            BY <1>5 DEF Forward, HasRoom, Shape, TypeOK
        <2>2. Append(eventChan[s], holding[s]) \in Seq(Event)
              /\ Len(Append(eventChan[s], holding[s])) <= ChanCap
            BY <1>0, <2>1, PutInQueue, LenProperties
        <2>3. \A t \in Subs : eventChan'[t] \in Seq(Event) /\ Len(eventChan'[t]) <= ChanCap
            BY <2>1, <2>2 DEF TypeOK, Shape
        <2>4. eventChan' \in [Subs -> Seq(Event)]
            BY <2>1, <2>2 DEF Shape
        <2> QED BY <1>5, <2>3, <2>4 DEF Forward, LetGo, TypeOK, Shape
    <1>6. ASSUME NEW s \in Subs, ForwardPanics(s)
          PROVE  TypeOK' /\ Shape'
        BY <1>6 DEF ForwardPanics, TypeOK, Shape
    <1>7. ASSUME NEW s \in Subs, GiveUp(s)
          PROVE  TypeOK' /\ Shape'
        BY <1>7 DEF GiveUp, LetGo, TypeOK, Shape
    <1>8. ASSUME NEW s \in Subs, Receive(s)
          PROVE  TypeOK' /\ Shape'
        <2>1. /\ eventChan[s] \in Seq(Event) /\ eventChan[s] # <<>>
              /\ eventChan' = [eventChan EXCEPT ![s] = Tail(eventChan[s])]
              /\ sending' = [sending EXCEPT ![s] = Head(eventChan[s])]
              /\ handler' = [handler EXCEPT ![s] = "sending"] /\ handler[s] = "selecting"
              /\ UNCHANGED <<created, events, forwarder, holding, closed, done, delivered, crashed>>
              /\ Len(eventChan[s]) <= ChanCap
            BY <1>8 DEF Receive, Shape, TypeOK
        <2>2. /\ Head(eventChan[s]) \in Event /\ Tail(eventChan[s]) \in Seq(Event)
              /\ Len(Tail(eventChan[s])) <= ChanCap
            BY <1>0, <2>1, HeadFacts, LenProperties
        <2>3. \A t \in Subs : eventChan'[t] \in Seq(Event) /\ Len(eventChan'[t]) <= ChanCap
            BY <2>1, <2>2 DEF TypeOK, Shape
        <2>4. eventChan' \in [Subs -> Seq(Event)]
            BY <2>1, <2>2 DEF Shape
        <2>5. TypeOK'
            BY <2>1, <2>2, <2>3 DEF TypeOK
        <2> QED BY <2>1, <2>2, <2>4, <2>5 DEF TypeOK, Shape
    <1>9. ASSUME NEW s \in Subs, Sent(s)
          PROVE  TypeOK' /\ Shape'
        <2>1. /\ delivered[s] \in Seq(Event) /\ sending[s] \in Event
              /\ delivered' = [delivered EXCEPT ![s] = Append(delivered[s], sending[s])]
            BY <1>9 DEF Sent, Shape
        <2>2. Append(delivered[s], sending[s]) \in Seq(Event)
            BY <2>1, PutInQueue
        <2>3. delivered' \in [Subs -> Seq(Event)]
            BY <2>1, <2>2 DEF Shape
        <2>4. \A t \in Subs : delivered'[t] \in Seq(Event)
            BY <2>3
        <2> QED BY <1>9, <2>3, <2>4 DEF Sent, TypeOK, Shape
    <1>10. ASSUME NEW s \in Subs, Return(s)
          PROVE  TypeOK' /\ Shape'
        BY <1>10 DEF Return, TypeOK, Shape
    <1>11. CASE UNCHANGED vars
        BY <1>11 DEF vars, TypeOK, Shape
    <1> QED BY <1>1, <1>2, <1>3, <1>4, <1>5, <1>6, <1>7, <1>8, <1>9, <1>10, <1>11
           DEF Next, Forwarder, Handler

-----------------------------------------------------------------------------
(* The queues that an action leaves alone, or shortens, stay in order.     *)
LEMMA UnmovedOrder ==
    ASSUME NEW t \in Subs, Sorted(t), Made(t), Asked(t), Same(t),
           events' = events, created' = created
    PROVE  Sorted(t)' /\ Made(t)' /\ Asked(t)'
    BY DEF Same, Sorted, Made, Asked

LEMMA EventsTypes ==
    ASSUME TypeOK, Shape
    PROVE  /\ events \in Seq(Event) /\ created \in Nat
           /\ \A t \in Subs : delivered[t] \in Seq(Event) /\ eventChan[t] \in Seq(Event)
    BY EventFacts DEF TypeOK, Shape

(* A new event is behind all the others.                                   *)
LEMMA BroadcastOrder ==
    ASSUME TypeOK, Shape, Order, Broadcast
    PROVE  Order'
    <1>1. PICK type \in Types :
              events' = IF Len(events) < EventsCap
                        THEN Append(events, [id |-> created + 1, type |-> type])
                        ELSE events
        BY DEF Broadcast
    <1> DEFINE new == [id |-> created + 1, type |-> type]
    <1>2. /\ created \in Nat /\ created' = created + 1 /\ events \in Seq(Event)
          /\ new \in Event /\ new.id = created + 1
        <2>1. created \in 0 .. MaxEvents /\ created < MaxEvents /\ created' = created + 1
            BY DEF Broadcast, TypeOK
        <2>2. created + 1 \in 1 .. MaxEvents
            BY <2>1, EventFacts
        <2> QED BY <2>1, <2>2, EventsTypes DEF Event
    <1> HIDE DEF new
    <1>3. ASSUME NEW q \in Seq(Event), Below(q, created)
          PROVE  Before(q, <<new>>) /\ Below(q, created')
        <2>1. ASSUME NEW i \in DOMAIN q
              PROVE  q[i].id < new.id /\ q[i].id <= created'
            <3>1. q[i].id <= created
                BY <1>3 DEF Below
            <3>2. q[i].id \in Nat
                BY EventFacts, LenProperties, ElementOfSeq
            <3> QED BY <1>2, <3>1, <3>2
        <2> QED BY <2>1, OneElement DEF Before, Below
    <1>4. Below(<<new>>, created')
        BY <1>2, OneElement DEF Below
    <1>5. events' = events \/ events' = Append(events, new)
        BY <1>1 DEF new
    <1>6. Increasing(events') /\ Below(events', created')
        BY <1>2, <1>3, <1>4, <1>5, PutInQueue DEF Order
    <1>7. ASSUME NEW t \in Subs
          PROVE  Sorted(t)' /\ Made(t)' /\ Asked(t)'
        <2>1. Same(t)
            BY OthersEffect
        <2>2. Sorted(t) /\ Made(t) /\ Asked(t)
            BY DEF Order
        <2>3. /\ delivered[t] \in Seq(Event) /\ eventChan[t] \in Seq(Event)
              /\ InSend(t) \in Seq(Event) /\ InHand(t) \in Seq(Event)
            BY EventsTypes DEF Shape, InSend, InHand
        <2>4. ASSUME NEW q \in Seq(Event), Below(q, created), Before(q, events)
              PROVE  Before(q, events') /\ Below(q, created')
            <3>1. Before(q, <<new>>) /\ Below(q, created')
                BY <1>3, <2>4
            <3>2. Before(q, Append(events, new))
                BY <1>2, <2>4, <3>1, PutInQueue
            <3> QED BY <1>5, <2>4, <3>1, <3>2
        <2>5. /\ Before(delivered[t], events') /\ Below(delivered[t], created')
              /\ Before(InSend(t), events') /\ Below(InSend(t), created')
              /\ Before(eventChan[t], events') /\ Below(eventChan[t], created')
              /\ Before(InHand(t), events') /\ Below(InHand(t), created')
            BY <2>2, <2>3, <2>4 DEF Sorted, Made
        <2> QED BY <2>1, <2>2, <2>5 DEF Same, Sorted, Made, Asked
    <1> QED BY <1>6, <1>7 DEF Order

LEMMA TakeEventOrder ==
    ASSUME TypeOK, Shape, Order, NEW s \in Subs, TakeEvent(s)
    PROVE  Order'
    <1>1. /\ events # <<>> /\ events' = Tail(events) /\ created' = created
          /\ events \in Seq(Event)
        BY TakeEventEffect, EventsTypes
    <1>2. Increasing(events') /\ Below(events', created') /\ Before(<<Head(events)>>, events')
        BY <1>1, TakeFromQueue DEF Order
    <1>3. ASSUME NEW t \in Subs
          PROVE  Sorted(t)' /\ Made(t)' /\ Asked(t)'
        <2>1. Sorted(t) /\ Made(t) /\ Asked(t)
            BY DEF Order
        <2>2. ASSUME NEW q, Before(q, events)
              PROVE  Before(q, events') /\ Before(q, <<Head(events)>>)
            BY <1>1, <2>2, TakeFromQueue
        <2>3. CASE Same(t)
            BY <1>1, <2>1, <2>2, <2>3 DEF Same, Sorted, Made, Asked
        <2>4. CASE t = s
            <3>1. /\ delivered'[t] = delivered[t] /\ eventChan'[t] = eventChan[t]
                  /\ InSend(t)' = InSend(t) /\ InHand(t) = <<>>
                  /\ \/ InHand(t)' = <<>>
                     \/ InHand(t)' = <<Head(events)>> /\ Wants(t, Head(events))
                BY <2>4, TakeEventEffect
            <3>2. Below(<<Head(events)>>, created)
                BY <1>1, TakeFromQueue DEF Order
            <3>3. Wants(t, Head(events)) => Fits(t, <<Head(events)>>)
                BY OneElement DEF Fits
            <3> QED BY <1>1, <1>2, <2>1, <2>2, <3>1, <3>2, <3>3, NoneBefore
                    DEF Sorted, Made, Asked
        <2> QED BY <2>3, <2>4, Elsewhere DEF Forwarder
    <1> QED BY <1>2, <1>3 DEF Order

(* An event goes on, or is dropped.                                        *)
LEMMA MoveOrder ==
    ASSUME TypeOK, Shape, Order, NEW s \in Subs,
           Forward(s) \/ GiveUp(s) \/ Receive(s) \/ Sent(s) \/ Return(s)
    PROVE  Order'
    <1>1. events' = events /\ created' = created
        BY ForwardEffect, GiveUpEffect, ReceiveEffect, SentEffect, ReturnEffect
    <1>2. /\ delivered[s] \in Seq(Event) /\ eventChan[s] \in Seq(Event)
          /\ Sorted(s) /\ Made(s) /\ Asked(s)
        BY EventsTypes DEF Order
    <1>3. Sorted(s)' /\ Made(s)' /\ Asked(s)'
        <2>1. CASE Forward(s)
            <3>1. /\ delivered'[s] = delivered[s] /\ InSend(s)' = InSend(s)
                  /\ holding[s] \in Event /\ InHand(s) = <<holding[s]>> /\ InHand(s)' = <<>>
                  /\ eventChan'[s] = Append(eventChan[s], holding[s])
                BY <2>1, ForwardEffect
            <3> QED BY <1>1, <1>2, <3>1, PutInQueue, NoneBefore DEF Sorted, Made, Asked
        <2>2. CASE GiveUp(s)
            BY <1>1, <1>2, <2>2, GiveUpEffect, NoneBefore DEF Sorted, Made, Asked
        <2>3. CASE Receive(s)
            <3>1. /\ delivered'[s] = delivered[s] /\ InHand(s)' = InHand(s)
                  /\ eventChan[s] # <<>> /\ eventChan'[s] = Tail(eventChan[s])
                  /\ InSend(s) = <<>> /\ InSend(s)' = <<Head(eventChan[s])>>
                BY <2>3, ReceiveEffect
            <3> QED BY <1>1, <1>2, <3>1, TakeFromQueue DEF Sorted, Made, Asked
        <2>4. CASE Sent(s)
            <3>1. /\ eventChan'[s] = eventChan[s] /\ InHand(s)' = InHand(s)
                  /\ sending[s] \in Event /\ InSend(s) = <<sending[s]>> /\ InSend(s)' = <<>>
                  /\ delivered'[s] = Append(delivered[s], sending[s])
                BY <2>4, SentEffect
            <3> QED BY <1>1, <1>2, <3>1, PutInQueue, NoneBefore DEF Sorted, Made, Asked
        <2>5. CASE Return(s)
            BY <1>1, <1>2, <2>5, ReturnEffect, NoneBefore DEF Sorted, Made, Asked
        <2> QED BY <2>1, <2>2, <2>3, <2>4, <2>5
    <1>4. ASSUME NEW t \in Subs, t # s
          PROVE  Sorted(t)' /\ Made(t)' /\ Asked(t)'
        BY <1>1, <1>4, Elsewhere, UnmovedOrder DEF Forwarder, Handler, Order
    <1> QED BY <1>1, <1>3, <1>4 DEF Order

LEMMA OrderStep ==
    ASSUME TypeOK, Shape, Order, [Next]_vars
    PROVE  Order'
    <1>1. CASE Broadcast
        BY <1>1, BroadcastOrder
    <1>2. ASSUME NEW s \in Subs, TakeEvent(s)
          PROVE  Order'
        BY <1>2, TakeEventOrder
    <1>3. ASSUME NEW s \in Subs, Forward(s) \/ GiveUp(s) \/ Receive(s) \/ Sent(s) \/ Return(s)
          PROVE  Order'
        BY <1>3, MoveOrder
    <1>4. ASSUME \/ UNCHANGED vars
                 \/ \E s \in Subs : Subscribe(s) \/ Disconnect(s) \/ ForwardPanics(s)
          PROVE  Order'
        <2>1. events' = events /\ created' = created
            BY <1>4 DEF vars, Subscribe, Disconnect, ForwardPanics
        <2>2. ASSUME NEW t \in Subs
              PROVE  Sorted(t)' /\ Made(t)' /\ Asked(t)'
            BY <1>4, <2>1, OthersEffect, UnmovedOrder DEF Order
        <2> QED BY <2>1, <2>2 DEF Order
    <1> QED BY <1>1, <1>2, <1>3, <1>4 DEF Next, Forwarder, Handler

-----------------------------------------------------------------------------
LEMMA HasAfterSame ==
    ASSUME NEW t \in Subs, Same(t)
    PROVE  Has(t)' = Has(t)
    BY DEF Same, Has

(* A subscription gets an event of s.events that no other has, or none.    *)
LEMMA ApartStep ==
    ASSUME TypeOK, Shape, Order, Apart, [Next]_vars
    PROVE  Apart'
    <1>1. ASSUME NEW s \in Subs, Forwarder(s) \/ Handler(s), ~ForwardPanics(s)
          PROVE  Apart'
        <2>1. ASSUME NEW t \in Subs, t # s
              PROVE  Has(t)' = Has(t)
            BY <1>1, <2>1, Elsewhere, HasAfterSame
        <2>2. /\ delivered[s] \in Seq(Event) /\ eventChan[s] \in Seq(Event)
            BY EventsTypes
        <2>3. CASE TakeEvent(s)
            <3>1. /\ events # <<>> /\ events \in Seq(Event)
                  /\ delivered'[s] = delivered[s] /\ eventChan'[s] = eventChan[s]
                  /\ InSend(s)' = InSend(s)
                  /\ InHand(s)' = <<>> \/ InHand(s)' = <<Head(events)>>
                BY <2>3, TakeEventEffect, EventsTypes
            <3>2. Has(s)' \subseteq Has(s) \cup {Head(events)}
                BY <3>1, NoneBefore, OneElement DEF Has
            <3>3. ASSUME NEW t \in Subs
                  PROVE  Head(events) \notin Has(t)
                <4>1. 1 \in DOMAIN events /\ Head(events) = events[1] /\ Head(events).id \in Nat
                    BY <3>1, HeadFacts, EventFacts
                <4>2. ASSUME NEW q, Before(q, events)
                      PROVE  Head(events) \notin Elems(q)
                    BY <4>1, <4>2 DEF Before, Elems
                <4> QED BY <4>2 DEF Has, Order, Sorted
            <3> QED BY <2>1, <3>2, <3>3 DEF Apart
        <2>4. CASE Forward(s) \/ GiveUp(s) \/ Receive(s) \/ Sent(s) \/ Return(s)
            <3>1. Has(s)' \subseteq Has(s)
                <4>1. CASE Forward(s)
                    <5>1. /\ delivered'[s] = delivered[s] /\ InSend(s)' = InSend(s)
                          /\ holding[s] \in Event /\ InHand(s) = <<holding[s]>> /\ InHand(s)' = <<>>
                          /\ eventChan'[s] = Append(eventChan[s], holding[s])
                        BY <4>1, ForwardEffect
                    <5>2. Elems(eventChan'[s]) = Elems(eventChan[s]) \cup {holding[s]}
                        BY <2>2, <5>1, PutInQueue
                    <5>3. Elems(InHand(s)) = {holding[s]} /\ Elems(InHand(s)') = {}
                        BY <5>1, NoneBefore, OneElement
                    <5> QED BY <5>1, <5>2, <5>3 DEF Has
                <4>2. CASE GiveUp(s)
                    BY <4>2, GiveUpEffect, NoneBefore DEF Has
                <4>3. CASE Receive(s)
                    <5>1. /\ delivered'[s] = delivered[s] /\ InHand(s)' = InHand(s)
                          /\ eventChan[s] # <<>> /\ eventChan'[s] = Tail(eventChan[s])
                          /\ InSend(s) = <<>> /\ InSend(s)' = <<Head(eventChan[s])>>
                        BY <4>3, ReceiveEffect
                    <5> QED BY <2>2, <5>1, TakeFromQueue, OneElement DEF Has
                <4>4. CASE Sent(s)
                    <5>1. /\ eventChan'[s] = eventChan[s] /\ InHand(s)' = InHand(s)
                          /\ sending[s] \in Event /\ InSend(s) = <<sending[s]>> /\ InSend(s)' = <<>>
                          /\ delivered'[s] = Append(delivered[s], sending[s])
                        BY <4>4, SentEffect
                    <5>2. Elems(delivered'[s]) = Elems(delivered[s]) \cup {sending[s]}
                        BY <2>2, <5>1, PutInQueue
                    <5>3. Elems(InSend(s)) = {sending[s]} /\ Elems(InSend(s)') = {}
                        BY <5>1, NoneBefore, OneElement
                    <5> QED BY <5>1, <5>2, <5>3 DEF Has
                <4>5. CASE Return(s)
                    BY <4>5, ReturnEffect, NoneBefore DEF Has
                <4> QED BY <2>4, <4>1, <4>2, <4>3, <4>4, <4>5
            <3> QED BY <2>1, <3>1 DEF Apart
        <2> QED BY <1>1, <2>3, <2>4 DEF Forwarder, Handler
    <1>2. ASSUME \/ Broadcast \/ UNCHANGED vars
                 \/ \E s \in Subs : Subscribe(s) \/ Disconnect(s) \/ ForwardPanics(s)
          PROVE  Apart'
        <2>1. \A t \in Subs : Has(t)' = Has(t)
            BY <1>2, OthersEffect, HasAfterSame
        <2> QED BY <2>1 DEF Apart
    <1> QED BY <1>1, <1>2 DEF Next, Forwarder, Handler

-----------------------------------------------------------------------------
LEMMA InitInv ==
    ASSUME Init
    PROVE  IInv
    <1>1. TypeOK /\ Shape
        BY TypeInit
    <1>2. events = <<>> /\ created = 0
        BY DEF Init
    <1>3. \A s \in Subs : /\ delivered[s] = <<>> /\ eventChan[s] = <<>>
                          /\ InSend(s) = <<>> /\ InHand(s) = <<>>
        BY DEF Init, InSend, InHand
    <1>4. Order
        BY <1>2, <1>3, NoneBefore DEF Order, Sorted, Made, Asked
    <1>5. Apart
        BY <1>3, NoneBefore DEF Apart, Has
    <1> QED BY <1>1, <1>4, <1>5 DEF IInv

(* The inductive invariant of EventStream.                                 *)
THEOREM Inductive == Spec => []IInv
    <1>1. IInv /\ [Next]_vars => IInv'
        BY TypeStep, OrderStep, ApartStep DEF IInv
    <1> QED BY InitInv, <1>1, PTL DEF Spec

(* The type invariant: neither channel holds more than its capacity.       *)
THEOREM TypeCorrect == Spec => []TypeOK
    <1>1. IInv => TypeOK
        BY DEF IInv
    <1> QED BY Inductive, <1>1, PTL

-----------------------------------------------------------------------------
(* One queue behind another.                                               *)
LEMMA Joined ==
    ASSUME NEW a \in Seq(Event), NEW b \in Seq(Event)
    PROVE  /\ a \o b \in Seq(Event)
           /\ Increasing(a) /\ Increasing(b) /\ Before(a, b) => Increasing(a \o b)
           /\ \A r : Before(a, r) /\ Before(b, r) => Before(a \o b, r)
           /\ \A s : Fits(s, a) /\ Fits(s, b) => Fits(s, a \o b)
    <1> DEFINE c == a \o b
    <1>1. /\ c \in Seq(Event) /\ Len(c) = Len(a) + Len(b)
          /\ \A i \in 1 .. Len(a) + Len(b) :
                c[i] = IF i <= Len(a) THEN a[i] ELSE b[i - Len(a)]
        BY ConcatProperties, Zenon
    <1> HIDE DEF c
    <1>2. /\ DOMAIN a = 1 .. Len(a) /\ DOMAIN b = 1 .. Len(b) /\ DOMAIN c = 1 .. Len(c)
          /\ Len(a) \in Nat /\ Len(b) \in Nat
        BY <1>1, LenProperties
    <1>3. ASSUME NEW i \in DOMAIN c
          PROVE  \/ i \in DOMAIN a /\ c[i] = a[i]
                 \/ i \notin DOMAIN a /\ i - Len(a) \in DOMAIN b /\ c[i] = b[i - Len(a)]
        BY <1>1, <1>2
    <1>4. ASSUME Increasing(a), Increasing(b), Before(a, b)
          PROVE  Increasing(c)
        <2> SUFFICES ASSUME NEW i \in DOMAIN c, NEW j \in DOMAIN c, i < j
                     PROVE  c[i].id < c[j].id
            BY DEF Increasing
        <2>1. CASE j \in DOMAIN a
            <3>1. i \in DOMAIN a
                BY <1>1, <1>2, <2>1
            <3> QED BY <1>3, <1>4, <2>1, <3>1 DEF Increasing
        <2>2. CASE i \in DOMAIN a /\ j \notin DOMAIN a
            BY <1>3, <1>4, <2>2 DEF Before
        <2>3. CASE i \notin DOMAIN a /\ j \notin DOMAIN a
            <3>1. i - Len(a) < j - Len(a)
                BY <1>1, <1>2
            <3> QED BY <1>3, <1>4, <2>3, <3>1 DEF Increasing
        <2> QED BY <2>1, <2>2, <2>3
    <1>5. ASSUME NEW r, Before(a, r), Before(b, r)
          PROVE  Before(c, r)
        BY <1>3, <1>5 DEF Before
    <1>6. ASSUME NEW s, Fits(s, a), Fits(s, b)
          PROVE  Fits(s, c)
        BY <1>3, <1>6 DEF Fits
    <1> QED BY <1>1, <1>4, <1>5, <1>6 DEF c

(* A client gets its events in the order in which they were made, and only *)
(* those it asked for.                                                     *)
THEOREM OrderIsKept == Spec => []InOrder
    <1>1. IInv => InOrder
        <2> SUFFICES ASSUME IInv, NEW s \in Subs
                     PROVE  LET taken == delivered[s] \o InSend(s) \o eventChan[s] \o InHand(s)
                            IN  /\ Increasing(taken \o events)
                                /\ \A i \in DOMAIN taken : Wants(s, taken[i])
            BY DEF InOrder, Taken
        <2>1. /\ delivered[s] \in Seq(Event) /\ eventChan[s] \in Seq(Event)
              /\ InSend(s) \in Seq(Event) /\ InHand(s) \in Seq(Event) /\ events \in Seq(Event)
            BY DEF IInv, TypeOK, Shape, InSend, InHand
        <2>2. Sorted(s) /\ Asked(s) /\ Increasing(events)
            BY DEF IInv, Order
        <2>3. /\ Increasing(InSend(s)) /\ Increasing(InHand(s))
            BY NoneBefore, OneElement DEF InSend, InHand
        <2> DEFINE two == delivered[s] \o InSend(s)
        <2>4. /\ two \in Seq(Event) /\ Increasing(two) /\ Fits(s, two)
              /\ Before(two, eventChan[s]) /\ Before(two, InHand(s)) /\ Before(two, events)
            BY <2>1, <2>2, <2>3, Joined DEF Sorted, Asked
        <2> HIDE DEF two
        <2> DEFINE three == two \o eventChan[s]
        <2>5. /\ three \in Seq(Event) /\ Increasing(three) /\ Fits(s, three)
              /\ Before(three, InHand(s)) /\ Before(three, events)
            BY <2>1, <2>2, <2>4, Joined DEF Sorted, Asked
        <2> HIDE DEF three
        <2> DEFINE taken == three \o InHand(s)
        <2>6. /\ taken \in Seq(Event) /\ Increasing(taken) /\ Fits(s, taken)
              /\ Before(taken, events)
            BY <2>1, <2>2, <2>3, <2>5, Joined DEF Sorted, Asked
        <2> HIDE DEF taken
        <2>7. Increasing(taken \o events) /\ Fits(s, taken)
            BY <2>1, <2>2, <2>6, Joined
        <2> QED BY <2>7 DEF two, three, taken, Fits
    <1> QED BY Inductive, <1>1, PTL

-----------------------------------------------------------------------------
LEMMA Regrouped ==
    ASSUME NEW a \in Seq(Event), NEW b \in Seq(Event), NEW e \in Event
    PROVE  /\ a \o <<e>> = Append(a \o <<>>, e)
           /\ (a \o Append(b, e)) \o <<>> = (a \o b) \o <<e>>
           /\ (a \o <<e>>) \o b = (Append(a, e) \o <<>>) \o b
           /\ b # <<>> => (a \o <<>>) \o b = (a \o <<Head(b)>>) \o Tail(b)
    <1>1. a \o <<>> = a
        OBVIOUS
    <1>2. a \o <<e>> = Append(a, e)
        OBVIOUS
    <1>3. (a \o Append(b, e)) \o <<>> = (a \o b) \o <<e>>
        OBVIOUS
    <1>4. ASSUME b # <<>>
          PROVE  a \o b = (a \o <<Head(b)>>) \o Tail(b)
        BY <1>4
    <1>5. a \o <<e>> = Append(a \o <<>>, e)
        BY <1>1, <1>2, Zenon
    <1>6. (a \o <<e>>) \o b = (Append(a, e) \o <<>>) \o b
        <2>1. Append(a, e) \o <<>> = Append(a, e)
            OBVIOUS
        <2> QED BY <1>2, <2>1, Zenon
    <1>7. ASSUME b # <<>>
          PROVE  (a \o <<>>) \o b = (a \o <<Head(b)>>) \o Tail(b)
        BY <1>1, <1>4, <1>7, Zenon
    <1> QED BY <1>3, <1>5, <1>6, <1>7, Zenon

(* Two goroutines and a channel lose nothing on the way to a client that   *)
(* stays.  With ForwarderGoesOn this is the argument for TakenIsDelivered. *)
THEOREM TakenIsKept == Spec => NothingTakenIsLost
    <1> DEFINE Kept(s) ==
            \/ Taken(s)' = Taken(s)
            \/ /\ events # <<>> /\ Wants(s, Head(events))
               /\ Taken(s)' = Append(Taken(s), Head(events))
            \/ done[s]
            \/ handler[s] # "returned" /\ handler'[s] = "returned"
    <1>1. IInv /\ [Next]_vars => \A s \in Subs : Kept(s)
        <2> SUFFICES ASSUME IInv, [Next]_vars, NEW s \in Subs
                     PROVE  Kept(s)
            OBVIOUS
        <2>1. TypeOK /\ Shape
            BY DEF IInv
        <2>2. /\ delivered[s] \in Seq(Event) /\ eventChan[s] \in Seq(Event)
              /\ InSend(s) \in Seq(Event) /\ InHand(s) \in Seq(Event)
              /\ events \in Seq(Event)
            BY <2>1 DEF TypeOK, Shape, InSend, InHand
        <2> DEFINE sent == delivered[s] \o InSend(s)
                   queued == sent \o eventChan[s]
        <2>3. sent \in Seq(Event) /\ queued \in Seq(Event)
            BY <2>2
        <2>4. ASSUME Same(s)
              PROVE  Kept(s)
            BY <2>4, Zenon DEF Same, Taken
        <2>5. CASE TakeEvent(s)
            <3>1. /\ events # <<>> /\ events' = Tail(events)
                  /\ delivered'[s] = delivered[s] /\ eventChan'[s] = eventChan[s]
                  /\ InSend(s)' = InSend(s) /\ InHand(s) = <<>>
                  /\ \/ InHand(s)' = <<>>
                     \/ InHand(s)' = <<Head(events)>> /\ Wants(s, Head(events))
                BY <2>1, <2>5, TakeEventEffect
            <3>2. Head(events) \in Event
                BY <2>2, <3>1
            <3>3. queued \o <<Head(events)>> = Append(queued \o <<>>, Head(events))
                <4> HIDE DEF queued
                <4> QED BY <2>2, <2>3, <3>2, Regrouped
            <3>4. Taken(s) = queued \o <<>> /\ Taken(s)' = queued \o InHand(s)'
                BY <3>1, Zenon DEF Taken
            <3> QED BY <3>1, <3>3, <3>4, Zenon
        <2>6. CASE Forward(s)
            <3>1. /\ delivered'[s] = delivered[s] /\ InSend(s)' = InSend(s)
                  /\ holding[s] \in Event /\ InHand(s) = <<holding[s]>> /\ InHand(s)' = <<>>
                  /\ eventChan'[s] = Append(eventChan[s], holding[s])
                BY <2>1, <2>6, ForwardEffect
            <3>2. (sent \o Append(eventChan[s], holding[s])) \o <<>>
                      = (sent \o eventChan[s]) \o <<holding[s]>>
                <4> HIDE DEF sent
                <4> QED BY <2>2, <2>3, <3>1, Regrouped
            <3> QED BY <3>1, <3>2, Zenon DEF Taken
        <2>7. CASE GiveUp(s)
            BY <2>7 DEF GiveUp, GivesUp
        <2>8. CASE Receive(s)
            <3>1. /\ delivered'[s] = delivered[s] /\ InHand(s)' = InHand(s)
                  /\ eventChan[s] # <<>> /\ eventChan'[s] = Tail(eventChan[s])
                  /\ InSend(s) = <<>> /\ InSend(s)' = <<Head(eventChan[s])>>
                BY <2>1, <2>8, ReceiveEffect
            <3>2. Head(eventChan[s]) \in Event
                BY <2>2, <3>1
            <3>3. (delivered[s] \o <<>>) \o eventChan[s]
                      = (delivered[s] \o <<Head(eventChan[s])>>) \o Tail(eventChan[s])
                BY <2>2, <3>1, <3>2, Regrouped
            <3> QED BY <3>1, <3>3, Zenon DEF Taken
        <2>9. CASE Sent(s)
            <3>1. /\ eventChan'[s] = eventChan[s] /\ InHand(s)' = InHand(s)
                  /\ sending[s] \in Event /\ InSend(s) = <<sending[s]>> /\ InSend(s)' = <<>>
                  /\ delivered'[s] = Append(delivered[s], sending[s])
                BY <2>1, <2>9, SentEffect
            <3>2. (delivered[s] \o <<sending[s]>>) \o eventChan[s]
                      = (Append(delivered[s], sending[s]) \o <<>>) \o eventChan[s]
                BY <2>2, <3>1, Regrouped
            <3> QED BY <3>1, <3>2, Zenon DEF Taken
        <2>10. CASE Return(s)
            BY <2>1, <2>10 DEF Return, TypeOK
        <2>11. ASSUME NEW t \in Subs, t # s, Forwarder(t) \/ Handler(t)
               PROVE  Kept(s)
            BY <2>1, <2>4, <2>11, Elsewhere
        <2>12. ASSUME \/ Broadcast \/ UNCHANGED vars
                      \/ \E t \in Subs : Subscribe(t) \/ Disconnect(t) \/ ForwardPanics(t)
               PROVE  Kept(s)
            BY <2>1, <2>4, <2>12, OthersEffect
        <2> HIDE DEF Kept
        <2> QED BY <2>5, <2>6, <2>7, <2>8, <2>9, <2>10, <2>11, <2>12
                DEF Next, Forwarder, Handler
    <1>2. IInv /\ [Next]_vars => [\A s \in Subs : Kept(s)]_vars
        BY <1>1
    <1> QED BY Inductive, <1>2, PTL DEF Spec, NothingTakenIsLost

(* The deferred close is all that closes eventChan.                        *)
ClosedByHandler ==
    /\ closed \in [Subs -> BOOLEAN]
    /\ \A s \in Subs : closed[s] <=> handler[s] = "returned"

(* eventChan is closed exactly when SubscribeToEvents has returned.        *)
THEOREM ClosedAtReturn == Spec => []ClosedByHandler
    <1>1. Init => ClosedByHandler
        BY DEF Init, ClosedByHandler
    <1>2. TypeOK /\ ClosedByHandler /\ [Next]_vars => ClosedByHandler'
        <2> SUFFICES ASSUME TypeOK, ClosedByHandler, [Next]_vars
                     PROVE  ClosedByHandler'
            OBVIOUS
        <2>1. CASE Broadcast \/ UNCHANGED vars
            BY <2>1 DEF Broadcast, vars, ClosedByHandler
        <2>2. ASSUME NEW s \in Subs, Subscribe(s) \/ Disconnect(s)
              PROVE  ClosedByHandler'
            BY <2>2 DEF Subscribe, Disconnect, ClosedByHandler, TypeOK
        <2>3. ASSUME NEW s \in Subs, Forwarder(s)
              PROVE  ClosedByHandler'
            BY <2>3 DEF Forwarder, TakeEvent, Forward, ForwardPanics, GiveUp, ClosedByHandler
        <2>4. ASSUME NEW s \in Subs, Receive(s) \/ Sent(s)
              PROVE  ClosedByHandler'
            BY <2>4 DEF Receive, Sent, ClosedByHandler, TypeOK
        <2>5. ASSUME NEW s \in Subs, Return(s)
              PROVE  ClosedByHandler'
            BY <2>5 DEF Return, ClosedByHandler, TypeOK
        <2> QED BY <2>1, <2>2, <2>3, <2>4, <2>5 DEF Next, Handler
    <1> QED BY <1>1, <1>2, TypeCorrect, PTL DEF Spec

(* When a forwarder and a handler can take a step, in terms of the state.  *)
ForwarderCanGoOn(s) ==
    \/ forwarder[s] = "ranging" /\ events # <<>>
    \/ forwarder[s] = "holding" /\ (HasRoom(s) \/ GivesUp(s) \/ closed[s])

SelectCanGoOn(s) == handler[s] = "selecting" /\ (eventChan[s] # <<>> \/ done[s])

(* A forwarder that holds an event is never stuck behind a full eventChan: *)
(* it can go on itself, its handler can make room, or that handler is in a *)
(* Send whose end is up to the client (the exception in TakenIsDelivered). *)
(* Once the client has left or the handler has returned it goes on alone,  *)
(* which is what ForwarderReleased asks of it.                             *)
NoForwarderStuck ==
    \A s \in Subs : forwarder[s] = "holding" =>
        /\ ForwarderCanGoOn(s) \/ SelectCanGoOn(s) \/ handler[s] = "sending"
        /\ done[s] \/ handler[s] = "returned" => ForwarderCanGoOn(s)

(* For any capacity of eventChan: forwarder and handler of a subscription  *)
(* do not wait for each other.                                             *)
THEOREM ForwarderGoesOn == Spec => []NoForwarderStuck
    <1>1. IInv /\ ClosedByHandler => NoForwarderStuck
        <2> SUFFICES ASSUME IInv, ClosedByHandler, NEW s \in Subs, forwarder[s] = "holding"
                     PROVE  /\ \/ ForwarderCanGoOn(s)
                               \/ SelectCanGoOn(s)
                               \/ handler[s] = "sending"
                            /\ done[s] \/ handler[s] = "returned" => ForwarderCanGoOn(s)
            BY DEF NoForwarderStuck
        <2>1. handler[s] \in {"selecting", "sending", "returned"}
            BY DEF IInv, TypeOK, Shape
        <2>2. HasRoom(s) \/ eventChan[s] # <<>>
            <3>1. Len(<<>>) = 0 /\ 0 < ChanCap
                BY CapacityAssumption
            <3> QED BY <3>1 DEF HasRoom
        <2> QED BY <2>1, <2>2 DEF ForwarderCanGoOn, SelectCanGoOn, ClosedByHandler, GivesUp
    <1> QED BY Inductive, ClosedAtReturn, <1>1, PTL

-----------------------------------------------------------------------------
(* No event reaches two clients.                                           *)
OneClientEach ==
    \A s, t \in Subs : s # t => Elems(delivered[s]) \cap Elems(delivered[t]) = {}

(* main.go:264: the forwarders of all subscriptions range over one channel,*)
(* so they compete for its events.  For two subscriptions that want the    *)
(* same events this is the opposite of the "pub/sub" of main.go:248 and    *)
(* demo.proto:36, whatever the capacities and however long the stream.     *)
THEOREM SubscribersCompete == Spec => []OneClientEach
    <1>1. IInv => OneClientEach
        BY DEF IInv, Apart, Has, OneClientEach
    <1> QED BY Inductive, <1>1, PTL
=============================================================================
