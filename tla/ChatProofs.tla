----------------------------- MODULE ChatProofs -----------------------------
(***************************************************************************)
(* Proofs about Chat, for any streams, any number of messages and any      *)
(* capacities of the channels and of the room.                             *)
(***************************************************************************)
EXTENDS Chat, SetInduction, SequenceTheorems, TLAPS

(* The maps of queues are functions.                                       *)
Shape ==
    /\ wire \in [Streams -> Seq(Numbers)]
    /\ echoed \in [Streams -> Seq(Numbers)]
    /\ messageChan \in [Streams -> Seq(Numbers)]

(* How many messages reader and handler have in hand.                      *)
InReader(s)  == IF reader[s] \in {"storing", "forwarding"} THEN 1 ELSE 0
InHandler(s) == IF handler[s] = "echoing" THEN 1 ELSE 0

(* Until its handler returns no message of a stream is lost, and the       *)
(* channel is closed behind the last one.                                  *)
Kept(s) ==
    /\ handler[s] # "returned" =>
          sent[s] = Len(wire[s]) + InReader(s) + Len(messageChan[s]) + InHandler(s) + Len(echoed[s])
    /\ closed[s] => /\ reader[s] = "exited"
                    /\ done[s] \/ (halfClosed[s] /\ wire[s] = <<>>)
    /\ handler[s] = "none" => reader[s] = "none"
    /\ outcome[s] # "none" => handler[s] = "returned"
    /\ outcome[s] = "eof" => closed[s] /\ (done[s] \/ Len(echoed[s]) = sent[s])

(* The room is the end of all that was stored.                             *)
Recent ==
    /\ Len(room) <= Len(stored)
    /\ \A i \in 1 .. Len(room) : room[i] = stored[Len(stored) - Len(room) + i]
    /\ Len(room) = RoomCap \/ room = stored

(* The message the reader has stored and not yet passed on.                *)
InHand(s) == IF reader[s] = "forwarding" THEN <<hand[s]>> ELSE <<>>

(* One sequence begins with another, element by element.                   *)
Begins(p, q) == Len(p) <= Len(q) /\ \A i \in 1 .. Len(p) : q[i] = p[i]

(* Until the handler returns, what the room has of its stream is what was  *)
(* echoed, then what is to be echoed, then what is in the reader's hand;   *)
(* what is stored later comes behind what was echoed.                      *)
Follows(s) ==
    IF handler[s] = "returned"
    THEN Begins(echoed[s], OfStream(s, stored))
    ELSE OfStream(s, stored) = (echoed[s] \o Pending(s)) \o InHand(s)

IInv == TypeOK /\ Shape /\ Recent /\ \A s \in Streams : Kept(s) /\ Follows(s)

-----------------------------------------------------------------------------
LEMMA Bounds == ChanCap \in Nat /\ RoomCap \in Nat \ {0} /\ MaxMsgs \in Nat
    BY BoundsAssumption

(* Queues of messages.                                                     *)
LEMMA HeadFacts ==
    ASSUME NEW S, NEW q \in Seq(S), q # <<>>
    PROVE  /\ Head(q) \in S /\ Tail(q) \in Seq(S)
           /\ Len(q) \in Nat \ {0} /\ Len(Tail(q)) = Len(q) - 1
    BY HeadTailProperties, EmptySeq

LEMMA AppendFacts ==
    ASSUME NEW S, NEW q \in Seq(S), NEW e \in S
    PROVE  /\ Append(q, e) \in Seq(S)
           /\ Len(q) \in Nat /\ Len(Append(q, e)) = Len(q) + 1
           /\ \A i \in 1 .. Len(q) : Append(q, e)[i] = q[i]
           /\ Append(q, e)[Len(q) + 1] = e
    BY AppendProperties, LenProperties

(* The last messages of a queue.                                           *)
LEMMA LastOfFacts ==
    ASSUME NEW S, NEW q \in Seq(S), NEW n \in Nat
    PROVE  /\ LastOf(q, n) \in Seq(S)
           /\ Len(LastOf(q, n)) = IF Len(q) > n THEN n ELSE Len(q)
           /\ \A i \in 1 .. Len(LastOf(q, n)) :
                 LastOf(q, n)[i] = q[Len(q) - Len(LastOf(q, n)) + i]
    <1>1. Len(q) \in Nat
        BY LenProperties
    <1>2. CASE Len(q) > n
        <2> DEFINE a == Len(q) - n + 1
        <2>1. /\ a \in Int /\ Len(q) \in Int
              /\ \A i \in a .. Len(q) : q[i] \in S
            <3>1. \A i \in 1 .. Len(q) : q[i] \in S
                BY ElementOfSeq
            <3> QED BY <1>1, <1>2, <3>1
        <2>2. /\ SubSeq(q, a, Len(q)) \in Seq(S)
              /\ Len(SubSeq(q, a, Len(q))) = IF a <= Len(q) THEN Len(q) - a + 1 ELSE 0
              /\ \A i \in 1 .. Len(q) - a + 1 : SubSeq(q, a, Len(q))[i] = q[a + i - 1]
            <3> HIDE DEF a
            <3> QED BY <2>1, SubSeqProperties
        <2>3. LastOf(q, n) = SubSeq(q, a, Len(q))
            BY <1>2 DEF LastOf
        <2>4. Len(q) - a + 1 = n /\ (a <= Len(q) \/ n = 0)
            BY <1>1
        <2>5. Len(LastOf(q, n)) = n
            BY <1>1, <2>2, <2>3, <2>4
        <2>6. ASSUME NEW i \in 1 .. n
              PROVE  LastOf(q, n)[i] = q[Len(q) - n + i]
            <3>1. LastOf(q, n)[i] = q[a + i - 1]
                BY <2>2, <2>3, <2>4
            <3>2. a + i - 1 = Len(q) - n + i
                BY <1>1
            <3> QED BY <3>1, <3>2
        <2> HIDE DEF a
        <2> QED BY <1>2, <2>2, <2>3, <2>5, <2>6
    <1>3. CASE ~(Len(q) > n)
        <2>1. LastOf(q, n) = q
            BY <1>3 DEF LastOf
        <2>2. \A i \in 1 .. Len(q) : Len(q) - Len(q) + i = i
            BY <1>1
        <2> QED BY <1>3, <2>1, <2>2
    <1> QED BY <1>2, <1>3

-----------------------------------------------------------------------------
(* What Picked computes, for a room of any length: the function that it    *)
(* chooses exists, since one for n entries extends to n + 1.               *)
LEMMA PickedFacts ==
    ASSUME NEW s, NEW q, Len(q) \in Nat
    PROVE  /\ Picked(s, q)[0] = <<>>
           /\ \A n \in 1 .. Len(q) :
                  Picked(s, q)[n] = IF q[n][1] = s THEN Append(Picked(s, q)[n - 1], q[n][2])
                                                  ELSE Picked(s, q)[n - 1]
    <1> DEFINE More(a, n) == IF q[n][1] = s THEN Append(a, q[n][2]) ELSE a
               IsPicked(f, n) == f = [i \in 0 .. n |-> IF i = 0 THEN <<>> ELSE More(f[i - 1], i)]
               T == {n \in Nat : \E f : IsPicked(f, n)}
    <1>1. 0 \in T
        <2>1. IsPicked([i \in 0 .. 0 |-> <<>>], 0)
            OBVIOUS
        <2> QED BY <2>1
    <1>2. ASSUME NEW n \in Nat, n \in T
          PROVE  n + 1 \in T
        <2>1. PICK f : IsPicked(f, n)
            BY <1>2
        <2> DEFINE g == [i \in 0 .. n + 1 |-> IF i = n + 1 THEN More(f[n], n + 1) ELSE f[i]]
        <2> HIDE DEF More
        <2>2. ASSUME NEW i \in 0 .. n + 1
              PROVE  g[i] = IF i = 0 THEN <<>> ELSE More(g[i - 1], i)
            <3>1. CASE i = n + 1
                <4>1. g[i] = More(f[n], n + 1) /\ i - 1 = n /\ n \in 0 .. n + 1 /\ n # n + 1
                    BY <3>1
                <4>2. g[n] = f[n]
                    BY <4>1
                <4> QED BY <3>1, <4>1, <4>2
            <3>2. CASE i \in 1 .. n
                <4>1. i - 1 \in 0 .. n /\ i \in 0 .. n /\ i # n + 1 /\ i - 1 # n + 1 /\ i # 0
                    BY <3>2
                <4>2. g[i] = f[i] /\ g[i - 1] = f[i - 1]
                    BY <4>1
                <4>3. f[i] = More(f[i - 1], i)
                    BY <2>1, <4>1
                <4> QED BY <4>1, <4>2, <4>3
            <3>3. CASE i = 0
                BY <2>1, <3>3
            <3> QED BY <3>1, <3>2, <3>3
        <2>3. IsPicked(g, n + 1)
            <3> HIDE DEF g
            <3>1. g = [i \in 0 .. n + 1 |-> g[i]]
                BY DEF g
            <3> QED BY <2>2, <3>1
        <2> HIDE DEF g
        <2> QED BY <2>3
    <1>3. Len(q) \in T
        <2>1. Nat \subseteq T
            <3> HIDE DEF T
            <3> QED BY <1>1, <1>2, HoldsForAll
        <2> HIDE DEF T
        <2> QED BY <2>1
    <1> DEFINE picked == CHOOSE f : f = [n \in 0 .. Len(q) |->
                             IF n = 0 THEN <<>>
                             ELSE IF q[n][1] = s THEN Append(f[n - 1], q[n][2]) ELSE f[n - 1]]
    <1>4. PICK f : IsPicked(f, Len(q))
        BY <1>3
    <1>5. picked = [n \in 0 .. Len(q) |->
                       IF n = 0 THEN <<>>
                       ELSE IF q[n][1] = s THEN Append(picked[n - 1], q[n][2]) ELSE picked[n - 1]]
        BY <1>4
    <1>6. picked = Picked(s, q)
        BY Zenon DEF Picked
    <1> HIDE DEF picked
    <1>7. \A n \in 0 .. Len(q) :
              picked[n] = IF n = 0 THEN <<>>
                          ELSE IF q[n][1] = s THEN Append(picked[n - 1], q[n][2]) ELSE picked[n - 1]
        <2> DEFINE steps == [n \in 0 .. Len(q) |->
                       IF n = 0 THEN <<>>
                       ELSE IF q[n][1] = s THEN Append(picked[n - 1], q[n][2]) ELSE picked[n - 1]]
        <2>1. \A n \in 0 .. Len(q) :
                  steps[n] = IF n = 0 THEN <<>>
                             ELSE IF q[n][1] = s THEN Append(picked[n - 1], q[n][2]) ELSE picked[n - 1]
            OBVIOUS
        <2>2. picked = steps
            BY <1>5
        <2> HIDE DEF steps
        <2> QED BY <2>1, <2>2, Zenon
    <1>8. 0 \in 0 .. Len(q) /\ \A n \in 1 .. Len(q) : n \in 0 .. Len(q) /\ n # 0
        OBVIOUS
    <1>9. picked[0] = <<>>
        BY <1>7, <1>8
    <1>10. \A n \in 1 .. Len(q) :
              picked[n] = IF q[n][1] = s THEN Append(picked[n - 1], q[n][2]) ELSE picked[n - 1]
        BY <1>7, <1>8
    <1> QED BY <1>6, <1>9, <1>10

(* A room holds numbers of each stream.                                    *)
LEMMA PickedNumbers ==
    ASSUME NEW s, NEW q \in Seq(Streams \X Numbers)
    PROVE  \A n \in 0 .. Len(q) : Picked(s, q)[n] \in Seq(Numbers)
    <1> DEFINE P == Picked(s, q)
               T == {n \in Nat : n <= Len(q) => P[n] \in Seq(Numbers)}
    <1>0. Len(q) \in Nat
        BY LenProperties
    <1>1. 0 \in T
        <2>1. P[0] = <<>>
            BY <1>0, PickedFacts
        <2>2. <<>> \in Seq(Numbers)
            BY EmptySeq
        <2> HIDE DEF P
        <2> QED BY <2>1, <2>2
    <1>2. ASSUME NEW n \in Nat, n \in T
          PROVE  n + 1 \in T
        <2> SUFFICES ASSUME n + 1 <= Len(q)
                     PROVE  P[n + 1] \in Seq(Numbers)
            OBVIOUS
        <2>1. n + 1 \in 1 .. Len(q) /\ n <= Len(q) /\ (n + 1) - 1 = n
            BY <1>0
        <2>2. P[n] \in Seq(Numbers)
            BY <1>2, <2>1
        <2> DEFINE k == q[n + 1][2]
        <2>3. k \in Numbers
            <3>1. q[n + 1] \in Streams \X Numbers
                BY <2>1, ElementOfSeq
            <3> QED BY <3>1
        <2>4. P[n + 1] = IF q[n + 1][1] = s THEN Append(P[n], k) ELSE P[n]
            BY <1>0, <2>1, PickedFacts
        <2> HIDE DEF P, k
        <2>5. Append(P[n], k) \in Seq(Numbers)
            BY <2>2, <2>3, AppendFacts
        <2> QED BY <2>2, <2>4, <2>5
    <1>3. Nat \subseteq T
        <2> HIDE DEF T
        <2> QED BY <1>1, <1>2, HoldsForAll
    <1> QED BY <1>0, <1>3

(* An entry more is a message more of its stream, and nothing to others.   *)
LEMMA OfStreamAppend ==
    ASSUME NEW s, NEW q \in Seq(Streams \X Numbers), NEW m \in Streams \X Numbers
    PROVE  /\ OfStream(s, q) \in Seq(Numbers)
           /\ OfStream(s, Append(q, m)) = IF m[1] = s THEN Append(OfStream(s, q), m[2])
                                                      ELSE OfStream(s, q)
    <1> DEFINE r == Append(q, m)
               P == Picked(s, q)
               R == Picked(s, r)
               T == {n \in Nat : n <= Len(q) => R[n] = P[n]}
    <1>0. /\ Len(q) \in Nat /\ Len(r) = Len(q) + 1
          /\ \A i \in 1 .. Len(q) : r[i] = q[i]
          /\ r[Len(q) + 1] = m
        BY AppendFacts
    <1> HIDE DEF r
    <1>1. /\ P[0] = <<>>
          /\ \A n \in 1 .. Len(q) : P[n] = IF q[n][1] = s THEN Append(P[n - 1], q[n][2]) ELSE P[n - 1]
        BY <1>0, PickedFacts
    <1>2. /\ R[0] = <<>>
          /\ \A n \in 1 .. Len(q) + 1 :
                 R[n] = IF r[n][1] = s THEN Append(R[n - 1], r[n][2]) ELSE R[n - 1]
        <2>1. Len(r) \in Nat
            BY <1>0
        <2> QED BY <1>0, <2>1, PickedFacts
    <1> HIDE DEF P, R
    <1>3. 0 \in T
        BY <1>1, <1>2
    <1>4. ASSUME NEW n \in Nat, n \in T
          PROVE  n + 1 \in T
        <2> SUFFICES ASSUME n + 1 <= Len(q)
                     PROVE  R[n + 1] = P[n + 1]
            OBVIOUS
        <2>1. /\ n + 1 \in 1 .. Len(q) /\ n + 1 \in 1 .. Len(q) + 1 /\ (n + 1) - 1 = n
              /\ R[n] = P[n]
            BY <1>0, <1>4
        <2>2. P[n + 1] = IF q[n + 1][1] = s THEN Append(P[n], q[n + 1][2]) ELSE P[n]
            BY <1>1, <2>1
        <2>3. R[n + 1] = IF r[n + 1][1] = s THEN Append(R[n], r[n + 1][2]) ELSE R[n]
            BY <1>2, <2>1
        <2>4. r[n + 1] = q[n + 1]
            BY <1>0, <2>1
        <2> QED BY <2>1, <2>2, <2>3, <2>4
    <1>5. R[Len(q)] = P[Len(q)]
        <2>1. Nat \subseteq T
            <3> HIDE DEF T
            <3> QED BY <1>3, <1>4, HoldsForAll
        <2> QED BY <1>0, <2>1
    <1>6. R[Len(q) + 1] = IF m[1] = s THEN Append(P[Len(q)], m[2]) ELSE P[Len(q)]
        <2>1. Len(q) + 1 \in 1 .. Len(q) + 1 /\ (Len(q) + 1) - 1 = Len(q)
            BY <1>0
        <2> QED BY <1>0, <1>2, <1>5, <2>1
    <1>7. P[Len(q)] \in Seq(Numbers)
        BY <1>0, PickedNumbers DEF P
    <1> QED BY <1>0, <1>6, <1>7 DEF OfStream, P, R, r

-----------------------------------------------------------------------------
LEMMA InitInv ==
    ASSUME Init
    PROVE  IInv
    <1>1. <<>> \in Seq(Numbers) /\ Len(<<>>) = 0 /\ <<>> \in Seq(Streams \X Numbers)
        BY EmptySeq
    <1>2. 0 \in Numbers /\ 0 <= ChanCap /\ 0 <= RoomCap
        BY Bounds DEF Numbers
    <1>3. TypeOK /\ Shape
        BY <1>1, <1>2 DEF Init, TypeOK, Shape
    <1>4. Recent
        BY <1>1 DEF Init, Recent
    <1>5. \A s \in Streams : Kept(s)
        BY <1>1 DEF Init, Kept, InReader, InHandler
    <1>6. ASSUME NEW s \in Streams
          PROVE  Follows(s)
        <2>1. OfStream(s, stored) = <<>>
            <3>1. stored = <<>> /\ Len(stored) = 0
                BY <1>1 DEF Init
            <3> QED BY <3>1, PickedFacts DEF OfStream
        <2>2. /\ handler[s] = "none" /\ echoed[s] = <<>> /\ Pending(s) = <<>> /\ InHand(s) = <<>>
            BY DEF Init, Pending, InHand
        <2>3. (<<>> \o <<>>) \o <<>> = <<>>
            BY <1>1, ConcatEmptySeq
        <2> QED BY <2>1, <2>2, <2>3 DEF Follows
    <1> QED BY <1>3, <1>4, <1>5, <1>6 DEF IInv

(* A queue in a map gets one element more, or one less.                    *)
LEMMA QueueUpdate ==
    ASSUME NEW q \in [Streams -> Seq(Numbers)], NEW s \in Streams, NEW v \in Seq(Numbers)
    PROVE  /\ [q EXCEPT ![s] = v] \in [Streams -> Seq(Numbers)]
           /\ [q EXCEPT ![s] = v][s] = v
           /\ \A t \in Streams : t # s => [q EXCEPT ![s] = v][t] = q[t]
    OBVIOUS

LEMMA NumbersFacts ==
    ASSUME TypeOK, NEW s \in Streams
    PROVE  /\ sent[s] \in Nat /\ sent[s] <= MaxMsgs
           /\ sent[s] < MaxMsgs => sent[s] + 1 \in Numbers
    BY Bounds DEF TypeOK, Numbers

LEMMA TypeStep ==
    ASSUME TypeOK, Shape, [Next]_vars
    PROVE  TypeOK' /\ Shape'
    <1> USE Bounds
    <1>1. ASSUME NEW s \in Streams, Open(s) \/ ClientCloseSend(s) \/ Cancel(s)
          PROVE  TypeOK' /\ Shape'
        BY <1>1 DEF Open, ClientCloseSend, Cancel, clientVars, readerVars, handlerVars, TypeOK, Shape
    <1>2. ASSUME NEW s \in Streams, ClientSend(s)
          PROVE  TypeOK' /\ Shape'
        <2>1. /\ wire[s] \in Seq(Numbers) /\ sent[s] + 1 \in Numbers
              /\ sent' = [sent EXCEPT ![s] = sent[s] + 1]
              /\ wire' = [wire EXCEPT ![s] = Append(wire[s], sent[s] + 1)]
              /\ UNCHANGED <<halfClosed, done, readerVars, messageChan, closed, handlerVars>>
            BY <1>2, NumbersFacts DEF ClientSend, Shape
        <2>2. Append(wire[s], sent[s] + 1) \in Seq(Numbers)
            BY <2>1, AppendFacts
        <2>3. wire' \in [Streams -> Seq(Numbers)]
            BY <2>1, <2>2, QueueUpdate DEF Shape
        <2>4. sent' \in [Streams -> Numbers]
            BY <2>1 DEF TypeOK
        <2>5. \A t \in Streams : wire'[t] \in Seq(Numbers)
            BY <2>3
        <2> QED BY <2>1, <2>3, <2>4, <2>5 DEF readerVars, handlerVars, TypeOK, Shape
    <1>3. ASSUME NEW s \in Streams, Recv(s)
          PROVE  TypeOK' /\ Shape'
        <2>1. /\ wire[s] \in Seq(Numbers) /\ wire[s] # <<>>
              /\ hand' = [hand EXCEPT ![s] = Head(wire[s])]
              /\ wire' = [wire EXCEPT ![s] = Tail(wire[s])]
              /\ reader' = [reader EXCEPT ![s] = "storing"]
              /\ UNCHANGED <<sent, halfClosed, done, room, stored, messageChan, closed, handlerVars>>
            BY <1>3 DEF Recv, Shape
        <2>2. Head(wire[s]) \in Numbers /\ Tail(wire[s]) \in Seq(Numbers)
            BY <2>1, HeadFacts
        <2>3. wire' \in [Streams -> Seq(Numbers)]
            BY <2>1, <2>2, QueueUpdate DEF Shape
        <2>4. hand' \in [Streams -> Numbers]
            BY <2>1, <2>2 DEF TypeOK
        <2>5. \A t \in Streams : wire'[t] \in Seq(Numbers)
            BY <2>3
        <2> QED BY <2>1, <2>3, <2>4, <2>5 DEF handlerVars, TypeOK, Shape
    <1>4. ASSUME NEW s \in Streams, RecvEnds(s)
          PROVE  TypeOK' /\ Shape'
        BY <1>4 DEF RecvEnds, clientVars, handlerVars, TypeOK, Shape
    <1>5. ASSUME NEW s \in Streams, Store(s)
          PROVE  TypeOK' /\ Shape'
        <2> DEFINE m == <<s, hand[s]>>
        <2> DEFINE S == Streams \X Numbers
        <2>1. /\ m \in S /\ room \in Seq(S) /\ stored \in Seq(S)
              /\ room' = LastOf(Append(room, m), RoomCap) /\ stored' = Append(stored, m)
              /\ reader' = [reader EXCEPT ![s] = "forwarding"]
              /\ UNCHANGED <<clientVars, hand, messageChan, closed, handlerVars>>
            BY <1>5 DEF Store, TypeOK
        <2> HIDE DEF m, S
        <2>2. Append(room, m) \in Seq(S) /\ stored' \in Seq(S)
            BY <2>1, AppendFacts
        <2>3. room' \in Seq(S) /\ Len(room') <= RoomCap
            <3> DEFINE q == Append(room, m)
            <3>1. q \in Seq(S) /\ Len(q) \in Nat
                BY <2>2, LenProperties
            <3> HIDE DEF q
            <3>2. /\ LastOf(q, RoomCap) \in Seq(S)
                  /\ Len(LastOf(q, RoomCap)) = IF Len(q) > RoomCap THEN RoomCap ELSE Len(q)
                BY <3>1, LastOfFacts
            <3>3. Len(LastOf(q, RoomCap)) <= RoomCap
                BY <3>1, <3>2
            <3> QED BY <2>1, <3>2, <3>3 DEF q
        <2> QED BY <2>1, <2>2, <2>3 DEF S, clientVars, handlerVars, TypeOK, Shape
    <1>6. ASSUME NEW s \in Streams, Forward(s)
          PROVE  TypeOK' /\ Shape'
        <2>1. /\ messageChan[s] \in Seq(Numbers) /\ hand[s] \in Numbers
              /\ Len(messageChan[s]) < ChanCap
              /\ messageChan' = [messageChan EXCEPT ![s] = Append(messageChan[s], hand[s])]
              /\ hand' = [hand EXCEPT ![s] = 0]
              /\ reader' = [reader EXCEPT ![s] = "receiving"]
              /\ UNCHANGED <<clientVars, room, stored, closed, handlerVars>>
            BY <1>6 DEF Forward, HasRoom, TypeOK, Shape
        <2>2. /\ Append(messageChan[s], hand[s]) \in Seq(Numbers)
              /\ Len(Append(messageChan[s], hand[s])) <= ChanCap
            BY <2>1, AppendFacts
        <2>3. messageChan' \in [Streams -> Seq(Numbers)]
            BY <2>1, <2>2, QueueUpdate DEF Shape
        <2>4. \A t \in Streams : messageChan'[t] \in Seq(Numbers) /\ Len(messageChan'[t]) <= ChanCap
            BY <2>1, <2>2, <2>3, QueueUpdate DEF TypeOK, Shape
        <2>5. hand' \in [Streams -> Numbers]
            BY <2>1 DEF TypeOK, Numbers
        <2> QED BY <2>1, <2>3, <2>4, <2>5 DEF clientVars, handlerVars, TypeOK, Shape
    <1>7. ASSUME NEW s \in Streams, TakeMessage(s)
          PROVE  TypeOK' /\ Shape'
        <2>1. /\ messageChan[s] \in Seq(Numbers) /\ messageChan[s] # <<>>
              /\ Len(messageChan[s]) <= ChanCap
              /\ messageChan' = [messageChan EXCEPT ![s] = Tail(messageChan[s])]
              /\ echoing' = [echoing EXCEPT ![s] = Head(messageChan[s])]
              /\ handler' = [handler EXCEPT ![s] = "echoing"]
              /\ UNCHANGED <<clientVars, readerVars, closed, outcome, echoed>>
            BY <1>7 DEF TakeMessage, TypeOK, Shape
        <2>2. /\ Head(messageChan[s]) \in Numbers /\ Tail(messageChan[s]) \in Seq(Numbers)
              /\ Len(Tail(messageChan[s])) <= ChanCap
            BY <2>1, HeadFacts
        <2>3. messageChan' \in [Streams -> Seq(Numbers)]
            BY <2>1, <2>2, QueueUpdate DEF Shape
        <2>4. \A t \in Streams : messageChan'[t] \in Seq(Numbers) /\ Len(messageChan'[t]) <= ChanCap
            BY <2>1, <2>2, <2>3, QueueUpdate DEF TypeOK, Shape
        <2>5. echoing' \in [Streams -> Numbers]
            BY <2>1, <2>2 DEF TypeOK
        <2> QED BY <2>1, <2>3, <2>4, <2>5 DEF clientVars, readerVars, TypeOK, Shape
    <1>8. ASSUME NEW s \in Streams, ChannelClosed(s) \/ ContextDone(s) \/ EchoFails(s)
          PROVE  TypeOK' /\ Shape'
        <2>1. PICK why \in {"eof", "cancelled", "error"} : Return(s, why)
            BY <1>8 DEF ChannelClosed, ContextDone, EchoFails
        <2>2. 0 \in Numbers
            BY DEF Numbers
        <2> QED BY <2>1, <2>2 DEF Return, clientVars, readerVars, TypeOK, Shape
    <1>9. ASSUME NEW s \in Streams, Echo(s)
          PROVE  TypeOK' /\ Shape'
        <2>1. /\ echoed[s] \in Seq(Numbers) /\ echoing[s] \in Numbers
              /\ echoed' = [echoed EXCEPT ![s] = Append(echoed[s], echoing[s])]
              /\ echoing' = [echoing EXCEPT ![s] = 0]
              /\ handler' = [handler EXCEPT ![s] = "selecting"]
              /\ UNCHANGED <<clientVars, readerVars, messageChan, closed, outcome>>
            BY <1>9 DEF Echo, TypeOK, Shape
        <2>2. Append(echoed[s], echoing[s]) \in Seq(Numbers)
            BY <2>1, AppendFacts
        <2>3. echoed' \in [Streams -> Seq(Numbers)]
            BY <2>1, <2>2, QueueUpdate DEF Shape
        <2>4. \A t \in Streams : echoed'[t] \in Seq(Numbers)
            BY <2>3
        <2>5. echoing' \in [Streams -> Numbers]
            BY <2>1 DEF TypeOK, Numbers
        <2> QED BY <2>1, <2>3, <2>4, <2>5 DEF clientVars, readerVars, TypeOK, Shape
    <1>10. CASE UNCHANGED vars
        BY <1>10 DEF vars, clientVars, readerVars, handlerVars, TypeOK, Shape
    <1> QED BY <1>1, <1>2, <1>3, <1>4, <1>5, <1>6, <1>7, <1>8, <1>9, <1>10
            DEF Next, Client, Reader, Handler, Select

-----------------------------------------------------------------------------
(* A stream is none of another stream's business.                          *)
LEMMA KeptElsewhere ==
    ASSUME NEW t \in Streams, Kept(t),
           /\ sent'[t] = sent[t] /\ wire'[t] = wire[t] /\ halfClosed'[t] = halfClosed[t]
           /\ done'[t] = done[t] /\ reader'[t] = reader[t] /\ messageChan'[t] = messageChan[t]
           /\ closed'[t] = closed[t] /\ handler'[t] = handler[t] /\ outcome'[t] = outcome[t]
           /\ echoed'[t] = echoed[t]
    PROVE  Kept(t)'
    BY DEF Kept, InReader, InHandler

LEMMA Elsewhere ==
    ASSUME TypeOK, Shape, NEW s \in Streams, NEW t \in Streams, t # s,
           Client(s) \/ Reader(s) \/ Handler(s)
    PROVE  /\ sent'[t] = sent[t] /\ wire'[t] = wire[t] /\ halfClosed'[t] = halfClosed[t]
           /\ done'[t] = done[t] /\ reader'[t] = reader[t] /\ messageChan'[t] = messageChan[t]
           /\ closed'[t] = closed[t] /\ handler'[t] = handler[t] /\ outcome'[t] = outcome[t]
           /\ echoed'[t] = echoed[t]
    <1>1. CASE Client(s)
        BY <1>1 DEF Client, Open, ClientSend, ClientCloseSend, Cancel, clientVars, readerVars,
                    handlerVars, TypeOK, Shape
    <1>2. CASE Reader(s)
        BY <1>2 DEF Reader, Recv, RecvEnds, Store, Forward, clientVars, handlerVars, TypeOK, Shape
    <1>3. CASE TakeMessage(s) \/ Echo(s)
        BY <1>3 DEF TakeMessage, Echo, clientVars, readerVars, TypeOK, Shape
    <1>4. CASE ChannelClosed(s) \/ ContextDone(s) \/ EchoFails(s)
        BY <1>4 DEF ChannelClosed, ContextDone, EchoFails, Return, clientVars, readerVars, TypeOK
    <1> QED BY <1>1, <1>2, <1>3, <1>4 DEF Handler, Select

LEMMA Lengths ==
    ASSUME TypeOK, Shape, NEW s \in Streams
    PROVE  /\ Len(wire[s]) \in Nat /\ Len(messageChan[s]) \in Nat /\ Len(echoed[s]) \in Nat
           /\ sent[s] \in Nat
           /\ InReader(s) \in {0, 1} /\ InHandler(s) \in {0, 1}
    BY NumbersFacts, LenProperties DEF Shape, InReader, InHandler

(* The messages of a stream whose handler goes on.                         *)
LEMMA Counted ==
    ASSUME TypeOK, Shape, NEW s \in Streams, Kept(s), handler[s] # "returned"
    PROVE  /\ sent[s] = Len(wire[s]) + InReader(s) + Len(messageChan[s]) + InHandler(s) + Len(echoed[s])
           /\ Len(wire[s]) \in Nat /\ Len(messageChan[s]) \in Nat /\ Len(echoed[s]) \in Nat
           /\ sent[s] \in Nat
           /\ InReader(s) \in Nat /\ InHandler(s) \in Nat
    BY Lengths DEF Kept

LEMMA KeptHere ==
    ASSUME TypeOK, Shape, NEW s \in Streams, Kept(s), Client(s) \/ Reader(s) \/ Handler(s)
    PROVE  Kept(s)'
    <1>0. Len(<<>>) = 0
        BY EmptySeq
    <1>1. CASE Open(s)
        BY <1>1 DEF Open, clientVars, Kept, InReader, InHandler, TypeOK
    <1>2. CASE ClientSend(s)
        <2>1. /\ wire'[s] = Append(wire[s], sent[s] + 1) /\ sent'[s] = sent[s] + 1
              /\ ~halfClosed[s] /\ ~done[s] /\ wire[s] \in Seq(Numbers)
              /\ sent[s] + 1 \in Numbers
              /\ UNCHANGED <<halfClosed, done, readerVars, messageChan, closed, handlerVars>>
            BY <1>2, NumbersFacts DEF ClientSend, TypeOK, Shape
        <2>2. Len(wire'[s]) = Len(wire[s]) + 1
            BY <2>1, AppendFacts
        <2>3. InReader(s)' = InReader(s) /\ InHandler(s)' = InHandler(s)
            BY <2>1 DEF readerVars, handlerVars, InReader, InHandler
        <2>4. ASSUME handler[s] # "returned"
              PROVE  sent'[s] = Len(wire'[s]) + InReader(s) + Len(messageChan[s])
                                    + InHandler(s) + Len(echoed[s])
            <3> DEFINE n == sent[s]
            <3> DEFINE w == Len(wire[s])
            <3> DEFINE r == InReader(s)
            <3> DEFINE c == Len(messageChan[s])
            <3> DEFINE h == InHandler(s)
            <3> DEFINE e == Len(echoed[s])
            <3>1. /\ n = w + r + c + h + e
                  /\ w \in Nat /\ r \in Nat /\ c \in Nat /\ h \in Nat /\ e \in Nat
                BY <2>4, Counted
            <3> DEFINE n1 == sent'[s]
            <3> DEFINE w1 == Len(wire'[s])
            <3>2. n1 = n + 1 /\ w1 = w + 1
                BY <2>1, <2>2
            <3> HIDE DEF n, w, r, c, h, e, n1, w1
            <3>3. n1 = w1 + r + c + h + e
                BY <3>1, <3>2
            <3> QED BY <3>3 DEF w, r, c, h, e, n1, w1
        <2> QED BY <2>1, <2>3, <2>4 DEF Kept, readerVars, handlerVars
    <1>3. CASE ClientCloseSend(s) \/ Cancel(s)
        BY <1>3 DEF ClientCloseSend, Cancel, readerVars, handlerVars, Kept, InReader, InHandler, TypeOK
    <1>4. CASE Recv(s)
        <2>1. /\ wire[s] # <<>> /\ wire'[s] = Tail(wire[s]) /\ wire[s] \in Seq(Numbers)
              /\ reader[s] = "receiving" /\ reader'[s] = "storing"
              /\ UNCHANGED <<sent, halfClosed, done, room, stored, messageChan, closed, handlerVars>>
            BY <1>4 DEF Recv, TypeOK, Shape
        <2>2. Len(wire'[s]) = Len(wire[s]) - 1
            BY <2>1, HeadFacts
        <2>3. InReader(s) = 0 /\ InReader(s)' = 1 /\ InHandler(s)' = InHandler(s)
            BY <2>1 DEF handlerVars, InReader, InHandler
        <2>4. ASSUME handler[s] # "returned"
              PROVE  sent[s] = Len(wire'[s]) + InReader(s)' + Len(messageChan[s])
                                   + InHandler(s) + Len(echoed[s])
            <3> DEFINE n == sent[s]
            <3> DEFINE w == Len(wire[s])
            <3> DEFINE r == InReader(s)
            <3> DEFINE c == Len(messageChan[s])
            <3> DEFINE h == InHandler(s)
            <3> DEFINE e == Len(echoed[s])
            <3>1. /\ n = w + r + c + h + e
                  /\ w \in Nat /\ r \in Nat /\ c \in Nat /\ h \in Nat /\ e \in Nat
                BY <2>4, Counted
            <3> DEFINE w1 == Len(wire'[s])
            <3> DEFINE r1 == InReader(s)'
            <3>2. r = 0 /\ r1 = 1 /\ w1 = w - 1
                BY <2>2, <2>3
            <3> HIDE DEF n, w, r, c, h, e, w1, r1
            <3>3. n = w1 + r1 + c + h + e
                BY <3>1, <3>2
            <3> QED BY <3>3 DEF n, w, r, c, h, e, w1, r1
        <2> QED BY <2>1, <2>3, <2>4 DEF Kept, handlerVars
    <1>5. CASE RecvEnds(s)
        BY <1>5 DEF RecvEnds, clientVars, handlerVars, Kept, InReader, InHandler, TypeOK
    <1>6. CASE Store(s)
        BY <1>6 DEF Store, clientVars, handlerVars, Kept, InReader, InHandler, TypeOK
    <1>7. CASE Forward(s)
        <2>1. /\ messageChan'[s] = Append(messageChan[s], hand[s])
              /\ messageChan[s] \in Seq(Numbers) /\ hand[s] \in Numbers
              /\ reader[s] = "forwarding" /\ reader'[s] = "receiving"
              /\ UNCHANGED <<clientVars, room, stored, closed, handlerVars>>
            BY <1>7 DEF Forward, TypeOK, Shape
        <2>2. Len(messageChan'[s]) = Len(messageChan[s]) + 1
            BY <2>1, AppendFacts
        <2>3. InReader(s) = 1 /\ InReader(s)' = 0 /\ InHandler(s)' = InHandler(s)
            BY <2>1 DEF handlerVars, InReader, InHandler
        <2>4. ASSUME handler[s] # "returned"
              PROVE  sent[s] = Len(wire[s]) + InReader(s)' + Len(messageChan'[s])
                                   + InHandler(s) + Len(echoed[s])
            <3> DEFINE n == sent[s]
            <3> DEFINE w == Len(wire[s])
            <3> DEFINE r == InReader(s)
            <3> DEFINE c == Len(messageChan[s])
            <3> DEFINE h == InHandler(s)
            <3> DEFINE e == Len(echoed[s])
            <3>1. /\ n = w + r + c + h + e
                  /\ w \in Nat /\ r \in Nat /\ c \in Nat /\ h \in Nat /\ e \in Nat
                BY <2>4, Counted
            <3> DEFINE r1 == InReader(s)'
            <3> DEFINE c1 == Len(messageChan'[s])
            <3>2. r = r1 + 1 /\ r1 = 0 /\ c1 = c + 1
                BY <2>2, <2>3
            <3> HIDE DEF n, w, r, c, h, e, r1, c1
            <3>3. n = w + r1 + c1 + h + e
                BY <3>1, <3>2
            <3> QED BY <3>3 DEF n, w, r, c, h, e, r1, c1
        <2> QED BY <2>1, <2>3, <2>4 DEF Kept, clientVars, handlerVars
    <1>8. CASE TakeMessage(s)
        <2>1. /\ messageChan[s] # <<>> /\ messageChan'[s] = Tail(messageChan[s])
              /\ messageChan[s] \in Seq(Numbers)
              /\ handler[s] = "selecting" /\ handler'[s] = "echoing"
              /\ UNCHANGED <<clientVars, readerVars, closed, outcome, echoed>>
            BY <1>8 DEF TakeMessage, TypeOK, Shape
        <2>2. Len(messageChan'[s]) = Len(messageChan[s]) - 1
            BY <2>1, HeadFacts
        <2>3. InHandler(s) = 0 /\ InHandler(s)' = 1 /\ InReader(s)' = InReader(s)
            BY <2>1 DEF readerVars, InReader, InHandler
        <2>4. sent[s] = Len(wire[s]) + InReader(s) + Len(messageChan'[s])
                            + InHandler(s)' + Len(echoed[s])
            <3> DEFINE n == sent[s]
            <3> DEFINE w == Len(wire[s])
            <3> DEFINE r == InReader(s)
            <3> DEFINE c == Len(messageChan[s])
            <3> DEFINE h == InHandler(s)
            <3> DEFINE e == Len(echoed[s])
            <3>1. /\ n = w + r + c + h + e
                  /\ w \in Nat /\ r \in Nat /\ c \in Nat /\ h \in Nat /\ e \in Nat
                BY <2>1, Counted
            <3> DEFINE c1 == Len(messageChan'[s])
            <3> DEFINE h1 == InHandler(s)'
            <3>2. c1 = c - 1 /\ h = 0 /\ h1 = 1
                BY <2>2, <2>3
            <3> HIDE DEF n, w, r, c, h, e, c1, h1
            <3>3. n = w + r + c1 + h1 + e
                BY <3>1, <3>2
            <3> QED BY <3>3 DEF n, w, r, c, h, e, c1, h1
        <2> QED BY <2>1, <2>3, <2>4 DEF Kept, clientVars, readerVars
    <1>9. CASE Echo(s)
        <2>1. /\ echoed'[s] = Append(echoed[s], echoing[s])
              /\ echoed[s] \in Seq(Numbers) /\ echoing[s] \in Numbers
              /\ handler[s] = "echoing" /\ handler'[s] = "selecting"
              /\ UNCHANGED <<clientVars, readerVars, messageChan, closed, outcome>>
            BY <1>9 DEF Echo, TypeOK, Shape
        <2>2. Len(echoed'[s]) = Len(echoed[s]) + 1
            BY <2>1, AppendFacts
        <2>3. InHandler(s) = 1 /\ InHandler(s)' = 0 /\ InReader(s)' = InReader(s)
            BY <2>1 DEF readerVars, InReader, InHandler
        <2>4. sent[s] = Len(wire[s]) + InReader(s) + Len(messageChan[s])
                            + InHandler(s)' + Len(echoed'[s])
            <3> DEFINE n == sent[s]
            <3> DEFINE w == Len(wire[s])
            <3> DEFINE r == InReader(s)
            <3> DEFINE c == Len(messageChan[s])
            <3> DEFINE h == InHandler(s)
            <3> DEFINE e == Len(echoed[s])
            <3>1. /\ n = w + r + c + h + e
                  /\ w \in Nat /\ r \in Nat /\ c \in Nat /\ h \in Nat /\ e \in Nat
                BY <2>1, Counted
            <3> DEFINE h1 == InHandler(s)'
            <3> DEFINE e1 == Len(echoed'[s])
            <3>2. h = 1 /\ h1 = 0 /\ e1 = e + 1
                BY <2>2, <2>3
            <3> HIDE DEF n, w, r, c, h, e, h1, e1
            <3>3. n = w + r + c + h1 + e1
                BY <3>1, <3>2
            <3> QED BY <3>3 DEF n, w, r, c, h, e, h1, e1
        <2> QED BY <2>1, <2>3, <2>4 DEF Kept, clientVars, readerVars
    <1>10. CASE ChannelClosed(s)
        <2>1. /\ handler[s] = "selecting" /\ handler'[s] = "returned" /\ outcome'[s] = "eof"
              /\ closed[s] /\ messageChan[s] = <<>>
              /\ UNCHANGED <<clientVars, readerVars, messageChan, closed, echoed>>
            BY <1>10 DEF ChannelClosed, Drained, Return, TypeOK
        <2>2. InHandler(s) = 0 /\ InReader(s) = 0
            BY <2>1 DEF Kept, InReader, InHandler
        <2>3. done[s] \/ Len(echoed[s]) = sent[s]
            <3>1. handler[s] # "returned" /\ Len(messageChan[s]) = 0
                BY <1>0, <2>1
            <3>2. sent[s] = Len(wire[s]) + Len(echoed[s])
                <4> DEFINE n == sent[s]
                <4> DEFINE w == Len(wire[s])
                <4> DEFINE r == InReader(s)
                <4> DEFINE c == Len(messageChan[s])
                <4> DEFINE h == InHandler(s)
                <4> DEFINE e == Len(echoed[s])
                <4>1. /\ n = w + r + c + h + e
                      /\ w \in Nat /\ r \in Nat /\ c \in Nat /\ h \in Nat /\ e \in Nat
                    BY <3>1, Counted
                <4>2. r = 0 /\ c = 0 /\ h = 0
                    BY <2>2, <3>1
                <4> HIDE DEF n, w, r, c, h, e
                <4>3. n = w + e
                    BY <4>1, <4>2
                <4> QED BY <4>3 DEF n, w, e
            <3>3. done[s] \/ Len(wire[s]) = 0
                BY <1>0, <2>1 DEF Kept
            <3>4. Len(wire[s]) = 0 => Len(echoed[s]) = sent[s]
                BY <3>2, Lengths
            <3> QED BY <3>3, <3>4
        <2> QED BY <2>1, <2>3 DEF Kept, clientVars, readerVars
    <1>11. CASE ContextDone(s) \/ EchoFails(s)
        <2>1. /\ handler'[s] = "returned" /\ outcome'[s] \in {"cancelled", "error"}
              /\ handler[s] # "none"
              /\ UNCHANGED <<clientVars, readerVars, messageChan, closed, echoed>>
            BY <1>11 DEF ContextDone, EchoFails, Return, TypeOK
        <2> QED BY <2>1 DEF Kept, clientVars, readerVars
    <1> QED BY <1>1, <1>2, <1>3, <1>4, <1>5, <1>6, <1>7, <1>8, <1>9, <1>10, <1>11
            DEF Client, Reader, Handler, Select

LEMMA RecentStep ==
    ASSUME TypeOK, Shape, Recent, [Next]_vars
    PROVE  Recent'
    <1>1. ASSUME NEW s \in Streams, Store(s)
          PROVE  Recent'
        <2> DEFINE m == <<s, hand[s]>>
        <2> DEFINE S == Streams \X Numbers
        <2> DEFINE q == Append(room, m)
        <2>1. /\ m \in S /\ room \in Seq(S) /\ stored \in Seq(S)
              /\ room' = LastOf(q, RoomCap) /\ stored' = Append(stored, m)
              /\ Len(room) <= RoomCap /\ RoomCap \in Nat
            BY <1>1, Bounds DEF Store, TypeOK
        <2> HIDE DEF m, S
        <2>2. /\ q \in Seq(S) /\ Len(room) \in Nat /\ Len(q) = Len(room) + 1
              /\ \A i \in 1 .. Len(room) : q[i] = room[i]
              /\ q[Len(room) + 1] = m
            BY <2>1, AppendFacts
        <2>3. /\ Len(stored) \in Nat /\ Len(stored') = Len(stored) + 1
              /\ \A i \in 1 .. Len(stored) : stored'[i] = stored[i]
              /\ stored'[Len(stored) + 1] = m
            BY <2>1, AppendFacts
        <2> HIDE DEF q
        <2>4. /\ Len(room') = IF Len(q) > RoomCap THEN RoomCap ELSE Len(q)
              /\ \A i \in 1 .. Len(room') : room'[i] = q[Len(q) - Len(room') + i]
            <3>1. /\ Len(LastOf(q, RoomCap)) = IF Len(q) > RoomCap THEN RoomCap ELSE Len(q)
                  /\ \A i \in 1 .. Len(LastOf(q, RoomCap)) :
                        LastOf(q, RoomCap)[i] = q[Len(q) - Len(LastOf(q, RoomCap)) + i]
                <4>1. q \in Seq(S) /\ RoomCap \in Nat
                    BY <2>1, <2>2
                <4> QED BY <4>1, LastOfFacts, Zenon
            <3> QED BY <2>1, <3>1, Zenon
        <2>5. /\ Len(room) <= Len(stored)
              /\ \A i \in 1 .. Len(room) : room[i] = stored[Len(stored) - Len(room) + i]
              /\ Len(room) = RoomCap \/ room = stored
            BY DEF Recent
        <2>6. ASSUME NEW i \in 1 .. Len(q)
              PROVE  q[i] = stored'[Len(stored) - Len(room) + i]
            <3>1. CASE i \in 1 .. Len(room)
                <4>1. /\ Len(stored) - Len(room) + i \in 1 .. Len(stored)
                      /\ q[i] = stored[Len(stored) - Len(room) + i]
                    BY <2>2, <2>3, <2>5, <3>1
                <4> QED BY <2>3, <4>1
            <3>2. CASE i = Len(room) + 1
                <4>1. Len(stored) - Len(room) + i = Len(stored) + 1
                    BY <2>2, <2>3, <3>2
                <4> QED BY <2>2, <2>3, <3>2, <4>1
            <3> QED BY <2>2, <3>1, <3>2
        <2>7. Len(room') \in Nat /\ Len(room') <= Len(q) /\ Len(room') <= Len(stored')
            BY <2>1, <2>2, <2>3, <2>4, <2>5
        <2>8. ASSUME NEW i \in 1 .. Len(room')
              PROVE  room'[i] = stored'[Len(stored') - Len(room') + i]
            <3>1. Len(q) - Len(room') + i \in 1 .. Len(q)
                BY <2>2, <2>7
            <3>2. room'[i] = stored'[Len(stored) - Len(room) + (Len(q) - Len(room') + i)]
                BY <2>4, <2>6, <3>1
            <3>3. Len(stored) - Len(room) + (Len(q) - Len(room') + i) = Len(stored') - Len(room') + i
                BY <2>2, <2>3, <2>7
            <3> QED BY <3>2, <3>3
        <2>9. Len(room') = RoomCap \/ room' = stored'
            <3>1. CASE Len(q) >= RoomCap
                BY <2>1, <2>2, <2>4, <3>1
            <3>2. CASE Len(q) < RoomCap
                <4>1. room = stored
                    BY <2>1, <2>2, <2>5, <3>2
                <4>2. ~(Len(q) > RoomCap)
                    BY <2>1, <2>2, <3>2
                <4>3. room' = q
                    BY <2>1, <4>2 DEF LastOf
                <4> QED BY <2>1, <4>1, <4>3 DEF q
            <3> QED BY <2>1, <2>2, <3>1, <3>2
        <2> QED BY <2>7, <2>8, <2>9 DEF Recent
    <1>2. CASE UNCHANGED <<room, stored>>
        BY <1>2 DEF Recent
    <1>3. ASSUME NEW s \in Streams, Client(s) \/ Reader(s) \/ Handler(s), ~Store(s)
          PROVE  UNCHANGED <<room, stored>>
        BY <1>3 DEF Client, Reader, Handler, Select, Open, ClientSend, ClientCloseSend, Cancel, Recv,
                    RecvEnds, Forward, TakeMessage, ChannelClosed, ContextDone, Echo, EchoFails,
                    Return, readerVars
    <1>4. UNCHANGED vars => UNCHANGED <<room, stored>>
        BY DEF vars, readerVars
    <1> QED BY <1>1, <1>2, <1>3, <1>4 DEF Next

-----------------------------------------------------------------------------
(* What a step on one stream does to the room, as seen by each stream.     *)
LEMMA StoredStep ==
    ASSUME TypeOK, NEW s \in Streams, Client(s) \/ Reader(s) \/ Handler(s), NEW t \in Streams
    PROVE  /\ OfStream(t, stored) \in Seq(Numbers)
           /\ Store(s) /\ t = s => OfStream(t, stored)' = Append(OfStream(t, stored), hand[s])
           /\ ~Store(s) \/ t # s => OfStream(t, stored)' = OfStream(t, stored)
    <1> DEFINE S == Streams \X Numbers
    <1> DEFINE m == <<s, hand[s]>>
    <1>1. stored \in Seq(S) /\ m \in S /\ m[1] = s /\ m[2] = hand[s]
        BY DEF TypeOK
    <1>2. OfStream(t, stored) \in Seq(Numbers)
        BY <1>1, OfStreamAppend
    <1>3. ASSUME Store(s)
          PROVE  OfStream(t, stored)' = IF t = s THEN Append(OfStream(t, stored), hand[s])
                                                 ELSE OfStream(t, stored)
        <2>1. stored' = Append(stored, m)
            BY <1>3 DEF Store
        <2>2. OfStream(t, Append(stored, m)) = IF m[1] = t THEN Append(OfStream(t, stored), m[2])
                                                           ELSE OfStream(t, stored)
            <3> HIDE DEF m
            <3> QED BY <1>1, OfStreamAppend
        <2>3. OfStream(t, stored)' = OfStream(t, stored')
            OBVIOUS
        <2> HIDE DEF m
        <2> QED BY <1>1, <2>1, <2>2, <2>3
    <1>4. ASSUME ~Store(s)
          PROVE  OfStream(t, stored)' = OfStream(t, stored)
        <2>1. stored' = stored
            BY <1>4 DEF Client, Reader, Handler, Select, Open, ClientSend, ClientCloseSend, Cancel,
                        Recv, RecvEnds, Forward, TakeMessage, ChannelClosed, ContextDone, Echo,
                        EchoFails, Return, readerVars
        <2> QED BY <2>1 DEF OfStream, Picked
    <1> QED BY <1>2, <1>3, <1>4

(* The messages of a stream on their way, by themselves.                   *)
LEMMA LineFacts ==
    ASSUME TypeOK, Shape, NEW s \in Streams
    PROVE  /\ echoed[s] \in Seq(Numbers) /\ messageChan[s] \in Seq(Numbers)
           /\ Pending(s) \in Seq(Numbers) /\ InHand(s) \in Seq(Numbers)
           /\ echoed[s] \o Pending(s) \in Seq(Numbers)
           /\ hand[s] \in Numbers /\ echoing[s] \in Numbers
    <1>1. /\ echoed[s] \in Seq(Numbers) /\ messageChan[s] \in Seq(Numbers)
          /\ hand[s] \in Numbers /\ echoing[s] \in Numbers
        BY DEF TypeOK, Shape
    <1>2. <<hand[s]>> \in Seq(Numbers) /\ <<echoing[s]>> \in Seq(Numbers) /\ <<>> \in Seq(Numbers)
        BY <1>1, EmptySeq
    <1>3. <<echoing[s]>> \o messageChan[s] \in Seq(Numbers)
        BY <1>1, <1>2, ConcatProperties
    <1>4. Pending(s) \in Seq(Numbers) /\ InHand(s) \in Seq(Numbers)
        BY <1>1, <1>2, <1>3 DEF Pending, InHand
    <1> QED BY <1>1, <1>4, ConcatProperties

(* The first messages of a queue.                                          *)
LEMMA BeginsFacts ==
    ASSUME NEW S, NEW p \in Seq(S), NEW q \in Seq(S), NEW e \in S
    PROVE  /\ Begins(p, p \o q)
           /\ Begins(p, q) => Begins(p, Append(q, e)) /\ IsPrefix(p, q)
    <1>1. Len(p) \in Nat /\ Len(q) \in Nat
        BY LenProperties
    <1>2. Begins(p, p \o q)
        <2>1. /\ Len(p \o q) = Len(p) + Len(q)
              /\ \A i \in 1 .. Len(p) : (p \o q)[i] = p[i]
            BY ConcatProperties
        <2> QED BY <1>1, <2>1 DEF Begins
    <1>3. ASSUME Begins(p, q)
          PROVE  Begins(p, Append(q, e))
        <2>1. /\ Len(Append(q, e)) = Len(q) + 1
              /\ \A i \in 1 .. Len(q) : Append(q, e)[i] = q[i]
            BY AppendFacts
        <2> QED BY <1>1, <1>3, <2>1 DEF Begins
    <1>4. ASSUME Begins(p, q)
          PROVE  IsPrefix(p, q)
        <2>1. Len(p) <= Len(q) /\ \A i \in 1 .. Len(p) : q[i] = p[i]
            BY <1>4 DEF Begins
        <2>2. SubSeq(p, 1, Len(p)) = SubSeq(q, 1, Len(p))
            BY <1>1, <2>1
        <2> QED BY <1>1, <2>1, <2>2 DEF IsPrefix
    <1> QED BY <1>2, <1>3, <1>4

(* A message in hand goes to the end of a queue, or comes from its head.   *)
LEMMA HandedOn ==
    ASSUME NEW S, NEW p \in Seq(S), NEW q \in Seq(S), NEW e \in S
    PROVE  /\ p \o <<>> = p
           /\ p \o Append(q, e) = Append(p \o q, e)
           /\ Append(p, e) = p \o <<e>>
           /\ Append(p, e) \o q = p \o (<<e>> \o q)
    <1>1. <<e>> \in Seq(S) /\ <<>> \in Seq(S)
        BY EmptySeq
    <1>2. p \o <<>> = p
        BY ConcatEmptySeq
    <1>3. Append(p, e) = p \o <<e>> /\ Append(q, e) = q \o <<e>>
        BY AppendIsConcat
    <1>4. p \o q \in Seq(S)
        BY ConcatProperties
    <1>5. Append(p \o q, e) = (p \o q) \o <<e>>
        BY <1>4, AppendIsConcat
    <1>6. (p \o q) \o <<e>> = p \o (q \o <<e>>)
        BY <1>1, ConcatAssociative
    <1>7. (p \o <<e>>) \o q = p \o (<<e>> \o q)
        BY <1>1, ConcatAssociative
    <1> QED BY <1>2, <1>3, <1>5, <1>6, <1>7

(* Another stream's step changes nothing for this one.                     *)
LEMMA FollowsElsewhere ==
    ASSUME TypeOK, Shape, NEW s \in Streams, NEW t \in Streams, t # s, Follows(t),
           Client(s) \/ Reader(s) \/ Handler(s)
    PROVE  Follows(t)'
    <1>1. /\ reader'[t] = reader[t] /\ messageChan'[t] = messageChan[t]
          /\ handler'[t] = handler[t] /\ echoed'[t] = echoed[t]
        BY Elsewhere
    <1>2. hand'[t] = hand[t] /\ echoing'[t] = echoing[t]
        <2>1. CASE Client(s)
            BY <2>1 DEF Client, Open, ClientSend, ClientCloseSend, Cancel, readerVars, handlerVars
        <2>2. CASE Reader(s)
            BY <2>2 DEF Reader, Recv, RecvEnds, Store, Forward, handlerVars, TypeOK
        <2>3. CASE Handler(s)
            BY <2>3 DEF Handler, Select, TakeMessage, ChannelClosed, ContextDone, Echo, EchoFails,
                        Return, readerVars, TypeOK
        <2> QED BY <2>1, <2>2, <2>3
    <1>3. OfStream(t, stored)' = OfStream(t, stored)
        BY StoredStep
    <1>4. Pending(t)' = Pending(t) /\ InHand(t)' = InHand(t)
        BY <1>1, <1>2 DEF Pending, InHand
    <1> HIDE DEF Pending, InHand
    <1> QED BY <1>1, <1>3, <1>4 DEF Follows, Begins

LEMMA FollowsHere ==
    ASSUME TypeOK, Shape, NEW s \in Streams, Kept(s), Follows(s),
           Client(s) \/ Reader(s) \/ Handler(s)
    PROVE  Follows(s)'
    <1> DEFINE here  == OfStream(s, stored)
               heard == echoed[s]
               hm    == hand[s]
    <1>1. /\ heard \in Seq(Numbers) /\ messageChan[s] \in Seq(Numbers)
          /\ Pending(s) \in Seq(Numbers) /\ InHand(s) \in Seq(Numbers)
          /\ heard \o Pending(s) \in Seq(Numbers)
          /\ hm \in Numbers /\ echoing[s] \in Numbers /\ here \in Seq(Numbers)
        BY LineFacts, StoredStep
    <1>2. CASE Store(s)
        <2>1. /\ reader[s] = "storing" /\ reader'[s] = "forwarding"
              /\ UNCHANGED <<hand, messageChan, handler, echoing, echoed>>
            BY <1>2 DEF Store, handlerVars, TypeOK
        <2>2. here' = Append(here, hm)
            BY <1>2, StoredStep
        <2>3. CASE handler[s] = "returned"
            <3>1. Begins(heard, Append(here, hm))
                BY <1>1, <2>3, BeginsFacts DEF Follows
            <3> HIDE DEF heard, here, hm
            <3>2. Begins(heard, here)'
                <4>1. heard' = heard
                    BY <2>1 DEF heard
                <4> QED BY <2>2, <3>1, <4>1 DEF Begins
            <3>3. handler'[s] = "returned"
                BY <2>1, <2>3
            <3> QED BY <3>2, <3>3 DEF Follows, heard, here
        <2>4. CASE handler[s] # "returned"
            <3>1. Pending(s)' = Pending(s) /\ InHand(s) = <<>> /\ InHand(s)' = <<hm>>
                BY <2>1 DEF Pending, InHand
            <3>2. here = (heard \o Pending(s)) \o <<>>
                BY <2>4, <3>1 DEF Follows
            <3>3. Append(here, hm) = (heard \o Pending(s)) \o <<hm>>
                <4> DEFINE line == heard \o Pending(s)
                <4> HIDE DEF line, here, hm
                <4>1. here = line \o <<>>
                    BY <3>2 DEF line
                <4>2. line \o <<>> = line /\ Append(line, hm) = line \o <<hm>>
                    BY <1>1, HandedOn DEF line
                <4> QED BY <4>1, <4>2 DEF line
            <3>4. handler'[s] # "returned" /\ echoed'[s] = heard
                BY <2>1, <2>4
            <3> QED BY <2>2, <3>1, <3>3, <3>4 DEF Follows
        <2> QED BY <2>3, <2>4
    <1>3. CASE Forward(s)
        <2>1. /\ reader[s] = "forwarding" /\ reader'[s] = "receiving"
              /\ messageChan'[s] = Append(messageChan[s], hm)
              /\ UNCHANGED <<handler, echoing, echoed>>
            BY <1>3 DEF Forward, handlerVars, TypeOK, Shape
        <2>2. here' = here
            BY <1>3, StoredStep DEF Forward, Store
        <2>3. CASE handler[s] = "returned"
            BY <2>1, <2>2, <2>3 DEF Follows, Begins
        <2>4. CASE handler[s] # "returned"
            <3>1. InHand(s) = <<hm>> /\ InHand(s)' = <<>>
                BY <2>1 DEF InHand
            <3>2. Pending(s)' = Append(Pending(s), hm)
                <4>1. CASE handler[s] = "echoing"
                    <5>1. /\ Pending(s) = <<echoing[s]>> \o messageChan[s]
                          /\ Pending(s)' = <<echoing[s]>> \o Append(messageChan[s], hm)
                        BY <2>1, <4>1 DEF Pending
                    <5>2. <<echoing[s]>> \in Seq(Numbers)
                        BY <1>1
                    <5>3. <<echoing[s]>> \o Append(messageChan[s], hm)
                              = Append(<<echoing[s]>> \o messageChan[s], hm)
                        <6> DEFINE one == <<echoing[s]>>
                                   c   == messageChan[s]
                        <6>1. one \in Seq(Numbers) /\ c \in Seq(Numbers) /\ hm \in Numbers
                            BY <1>1, <5>2
                        <6> HIDE DEF one, c, hm
                        <6>2. one \o Append(c, hm) = Append(one \o c, hm)
                            BY <6>1, HandedOn
                        <6> QED BY <6>2 DEF one, c
                    <5> QED BY <5>1, <5>3, Zenon
                <4>2. CASE handler[s] # "echoing"
                    BY <2>1, <2>4, <4>2 DEF Pending
                <4> QED BY <4>1, <4>2
            <3>3. here = (heard \o Pending(s)) \o <<hm>>
                BY <2>4, <3>1 DEF Follows
            <3>4. here = (heard \o Pending(s)') \o <<>>
                <4> DEFINE line == heard \o Pending(s)
                           next == heard \o Pending(s)'
                <4> HIDE DEF line, next, here, hm, heard
                <4>1. here = line \o <<hm>> /\ Append(line, hm) = line \o <<hm>>
                    BY <1>1, <3>3, HandedOn DEF line
                <4>2. next = Append(line, hm)
                    BY <1>1, <3>2, HandedOn DEF line, next
                <4>3. next \in Seq(Numbers)
                    BY <1>1, <4>2, AppendFacts DEF line
                <4>4. next \o <<>> = next
                    BY <4>3, ConcatEmptySeq
                <4> QED BY <4>1, <4>2, <4>4 DEF next
            <3>5. handler'[s] # "returned" /\ echoed'[s] = heard
                BY <2>1, <2>4
            <3> QED BY <2>2, <3>1, <3>4, <3>5 DEF Follows
        <2> QED BY <2>3, <2>4
    <1>4. CASE TakeMessage(s)
        <2>1. /\ handler[s] = "selecting" /\ handler'[s] = "echoing" /\ messageChan[s] # <<>>
              /\ messageChan'[s] = Tail(messageChan[s]) /\ echoing'[s] = Head(messageChan[s])
              /\ UNCHANGED <<reader, hand, echoed>>
            BY <1>4 DEF TakeMessage, readerVars, TypeOK, Shape
        <2>2. here' = here
            BY <1>4, StoredStep DEF TakeMessage, Store, readerVars
        <2>3. Pending(s)' = Pending(s)
            <3>1. Pending(s) = messageChan[s]
                BY <2>1 DEF Pending
            <3>2. Pending(s)' = <<Head(messageChan[s])>> \o Tail(messageChan[s])
                BY <2>1 DEF Pending
            <3> DEFINE c == messageChan[s]
            <3>3. c \in Seq(Numbers) /\ c # <<>>
                BY <1>1, <2>1
            <3> HIDE DEF c
            <3>4. <<Head(c)>> \o Tail(c) = c
                <4>1. Head(c) \in Numbers /\ Tail(c) \in Seq(Numbers) /\ <<Head(c)>> \in Seq(Numbers)
                    BY <3>3, HeadTailProperties
                <4>2. <<Head(c)>> \o Tail(c) \in Seq(Numbers)
                    BY <4>1, ConcatProperties
                <4>3. Len(<<Head(c)>> \o Tail(c)) = Len(c)
                    BY <3>3, <4>1
                <4>4. \A i \in 1 .. Len(c) : (<<Head(c)>> \o Tail(c))[i] = c[i]
                    BY <3>3, <4>1
                <4> QED BY <3>3, <4>2, <4>3, <4>4, SeqEqual
            <3> QED BY <3>1, <3>2, <3>4 DEF c
        <2>4. InHand(s)' = InHand(s) /\ echoed'[s] = heard
            BY <2>1 DEF InHand
        <2>5. here = (heard \o Pending(s)) \o InHand(s)
            BY <2>1 DEF Follows
        <2> QED BY <2>1, <2>2, <2>3, <2>4, <2>5 DEF Follows
    <1>5. CASE Echo(s)
        <2>1. /\ handler[s] = "echoing" /\ handler'[s] = "selecting"
              /\ echoed'[s] = Append(heard, echoing[s])
              /\ UNCHANGED <<reader, hand, messageChan>>
            BY <1>5 DEF Echo, readerVars, TypeOK, Shape
        <2>2. here' = here
            BY <1>5, StoredStep DEF Echo, Store, readerVars
        <2>3. Pending(s) = <<echoing[s]>> \o messageChan[s] /\ Pending(s)' = messageChan[s]
            BY <2>1 DEF Pending
        <2>4. Append(heard, echoing[s]) \o messageChan[s] = heard \o (<<echoing[s]>> \o messageChan[s])
            <3> DEFINE e == echoing[s]
                       c == messageChan[s]
            <3>1. heard \in Seq(Numbers) /\ c \in Seq(Numbers) /\ e \in Numbers
                BY <1>1
            <3> HIDE DEF e, c, heard
            <3>2. Append(heard, e) \o c = heard \o (<<e>> \o c)
                BY <3>1, HandedOn
            <3> QED BY <3>2 DEF e, c
        <2>5. echoed'[s] \o Pending(s)' = heard \o Pending(s)
            BY <2>1, <2>3, <2>4
        <2>6. InHand(s)' = InHand(s)
            BY <2>1 DEF InHand
        <2>7. here = (heard \o Pending(s)) \o InHand(s)
            BY <2>1 DEF Follows
        <2> QED BY <2>1, <2>2, <2>5, <2>6, <2>7 DEF Follows
    <1>6. CASE ChannelClosed(s) \/ ContextDone(s) \/ EchoFails(s)
        <2>1. handler[s] # "returned" /\ handler'[s] = "returned" /\ echoed'[s] = heard
            BY <1>6 DEF ChannelClosed, ContextDone, EchoFails, Return, TypeOK
        <2>2. stored' = stored
            BY <1>6 DEF ChannelClosed, ContextDone, EchoFails, Return, readerVars
        <2>3. here' = here
            BY <2>2 DEF OfStream, Picked
        <2>4. here = (heard \o Pending(s)) \o InHand(s)
            BY <2>1 DEF Follows
        <2>5. here = heard \o (Pending(s) \o InHand(s)) /\ Pending(s) \o InHand(s) \in Seq(Numbers)
            <3> DEFINE p == Pending(s)
                       h == InHand(s)
            <3>1. heard \in Seq(Numbers) /\ p \in Seq(Numbers) /\ h \in Seq(Numbers)
                BY <1>1
            <3> HIDE DEF p, h, heard, here
            <3>2. (heard \o p) \o h = heard \o (p \o h) /\ p \o h \in Seq(Numbers)
                BY <3>1, ConcatAssociative, ConcatProperties
            <3> QED BY <2>4, <3>2 DEF p, h
        <2>6. Begins(heard, here)
            <3> HIDE DEF heard, here
            <3> QED BY <1>1, <2>5, BeginsFacts
        <2> QED BY <2>1, <2>3, <2>6 DEF Follows, Begins
    <1>7. CASE Client(s) \/ Recv(s) \/ RecvEnds(s)
        <2>1. /\ UNCHANGED <<messageChan, echoing, echoed, stored>>
              /\ handler'[s] = handler[s] \/ (handler[s] = "none" /\ handler'[s] = "selecting")
              /\ \/ reader[s] # "forwarding" /\ reader'[s] # "forwarding"
                 \/ UNCHANGED <<reader, hand>>
            BY <1>7 DEF Client, Open, ClientSend, ClientCloseSend, Cancel, Recv, RecvEnds,
                        readerVars, handlerVars, TypeOK, Kept
        <2>2. here' = here
            BY <2>1 DEF OfStream, Picked
        <2>3. Pending(s)' = Pending(s) /\ InHand(s)' = InHand(s) /\ echoed'[s] = heard
            BY <2>1 DEF Pending, InHand
        <2>4. handler'[s] = "returned" <=> handler[s] = "returned"
            BY <2>1
        <2> QED BY <2>2, <2>3, <2>4 DEF Follows, Begins
    <1> QED BY <1>2, <1>3, <1>4, <1>5, <1>6, <1>7 DEF Reader, Handler, Select

-----------------------------------------------------------------------------
(* The inductive invariant of Chat.                                        *)
THEOREM Inductive == Spec => []IInv
    <1>1. IInv /\ [Next]_vars => IInv'
        <2> SUFFICES ASSUME IInv, [Next]_vars
                     PROVE  IInv'
            OBVIOUS
        <2>1. TypeOK' /\ Shape'
            BY TypeStep DEF IInv
        <2>2. Recent'
            BY RecentStep DEF IInv
        <2>3. ASSUME NEW t \in Streams
              PROVE  Kept(t)'
            <3>1. ASSUME NEW s \in Streams, Client(s) \/ Reader(s) \/ Handler(s)
                  PROVE  Kept(t)'
                <4>1. CASE t = s
                    BY <3>1, <4>1, KeptHere DEF IInv
                <4>2. CASE t # s
                    BY <3>1, <4>2, Elsewhere, KeptElsewhere DEF IInv
                <4> QED BY <4>1, <4>2
            <3>2. CASE UNCHANGED vars
                BY <3>2, KeptElsewhere DEF vars, clientVars, readerVars, handlerVars, IInv
            <3> QED BY <3>1, <3>2 DEF Next
        <2>4. ASSUME NEW t \in Streams
              PROVE  Follows(t)'
            <3>1. ASSUME NEW s \in Streams, Client(s) \/ Reader(s) \/ Handler(s)
                  PROVE  Follows(t)'
                <4>1. CASE t = s
                    BY <3>1, <4>1, FollowsHere DEF IInv
                <4>2. CASE t # s
                    BY <3>1, <4>2, FollowsElsewhere DEF IInv
                <4> QED BY <4>1, <4>2
            <3>2. CASE UNCHANGED vars
                <4>1. UNCHANGED <<handler, echoed, echoing, messageChan, reader, hand, stored>>
                    BY <3>2 DEF vars, readerVars, handlerVars
                <4>2. Follows(t)
                    BY DEF IInv
                <4>3. OfStream(t, stored)' = OfStream(t, stored)
                    BY <4>1 DEF OfStream, Picked
                <4>4. Pending(t)' = Pending(t) /\ InHand(t)' = InHand(t)
                    BY <4>1 DEF Pending, InHand
                <4>5. handler'[t] = handler[t] /\ echoed'[t] = echoed[t]
                    BY <4>1
                <4> QED BY <4>2, <4>3, <4>4, <4>5 DEF Follows, Begins
            <3> QED BY <3>1, <3>2 DEF Next
        <2> QED BY <2>1, <2>2, <2>3, <2>4 DEF IInv
    <1> QED BY InitInv, <1>1, PTL DEF Spec

(* The type invariant: neither the channel nor the room exceeds its        *)
(* capacity.                                                               *)
THEOREM TypeCorrect == Spec => []TypeOK
    <1>1. IInv => TypeOK
        BY DEF IInv
    <1> QED BY Inductive, <1>1, PTL

(* A stream that ends with EOF has echoed all that its client sent, unless *)
(* the client cancelled.                                                   *)
THEOREM EofIsBehindTheLast == Spec => []EofDrains
    <1>1. IInv => EofDrains
        BY DEF IInv, Kept, EofDrains
    <1> QED BY Inductive, <1>1, PTL

(* The room keeps the most recent messages, as many as it may.             *)
THEOREM RoomKeepsTheLast == Spec => []RoomIsRecent
    <1>1. IInv => RoomIsRecent
        <2> SUFFICES ASSUME IInv
                     PROVE  RoomIsRecent
            OBVIOUS
        <2>1. /\ Len(room) \in Nat /\ Len(stored) \in Nat /\ Len(room) <= Len(stored)
              /\ \A i \in 1 .. Len(room) : room[i] = stored[Len(stored) - Len(room) + i]
              /\ Len(room) = RoomCap \/ room = stored
            BY LenProperties DEF IInv, TypeOK, Recent
        <2> DEFINE back(q) == [i \in 1 .. Len(q) |-> q[(Len(q) - i) + 1]]
        <2>2. /\ DOMAIN back(room) = 1 .. Len(room) /\ DOMAIN back(stored) = 1 .. Len(stored)
              /\ Len(back(room)) = Len(room) /\ Len(back(stored)) = Len(stored)
            BY <2>1
        <2>3. ASSUME NEW i \in 1 .. Len(room)
              PROVE  back(room)[i] = back(stored)[i]
            <3>1. /\ Len(room) - i + 1 \in 1 .. Len(room) /\ i \in 1 .. Len(stored)
                  /\ Len(stored) - Len(room) + (Len(room) - i + 1) = Len(stored) - i + 1
                BY <2>1
            <3>2. back(room)[i] = stored[Len(stored) - i + 1]
                BY <2>1, <3>1
            <3> QED BY <3>1, <3>2
        <2> HIDE DEF back
        <2>4. SubSeq(back(room), 1, Len(room)) = SubSeq(back(stored), 1, Len(room))
            BY <2>1, <2>2, <2>3
        <2>5. IsPrefix(back(room), back(stored))
            BY <2>1, <2>2, <2>4 DEF IsPrefix
        <2>6. back(room) = Reverse(room) /\ back(stored) = Reverse(stored)
            BY DEF back, Reverse
        <2> QED BY <2>1, <2>5, <2>6 DEF RoomIsRecent, IsSuffix
    <1> QED BY Inductive, <1>1, PTL

(* A stream's echoes, and what is about to be echoed, follow the room,     *)
(* however many streams store in it and however they interleave.           *)
THEOREM EchoesInOrder == Spec => []EchoesFollowStore
    <1>1. IInv => EchoesFollowStore
        <2> SUFFICES ASSUME IInv, NEW s \in Streams
                     PROVE  IsPrefix(echoed[s] \o Pending(s), OfStream(s, stored))
            BY DEF EchoesFollowStore
        <2> DEFINE line == echoed[s] \o Pending(s)
                   here == OfStream(s, stored)
        <2>1. /\ echoed[s] \in Seq(Numbers) /\ InHand(s) \in Seq(Numbers)
              /\ line \in Seq(Numbers) /\ hand[s] \in Numbers
            BY LineFacts DEF IInv
        <2>2. here \in Seq(Numbers)
            <3> DEFINE S == Streams \X Numbers
            <3>1. stored \in Seq(S) /\ <<s, hand[s]>> \in S
                BY <2>1 DEF IInv, TypeOK
            <3> QED BY <3>1, OfStreamAppend
        <2>3. Follows(s)
            BY DEF IInv
        <2>4. Begins(line, here)
            <3>1. CASE handler[s] = "returned"
                <4>1. line = echoed[s] /\ Begins(echoed[s], here)
                    BY <2>1, <2>3, <3>1, ConcatEmptySeq DEF Pending, Follows
                <4> QED BY <4>1
            <3>2. CASE handler[s] # "returned"
                <4>1. here = line \o InHand(s)
                    BY <2>3, <3>2 DEF Follows
                <4> HIDE DEF line, here
                <4> QED BY <2>1, <4>1, BeginsFacts
            <3> QED BY <3>1, <3>2
        <2> HIDE DEF line, here
        <2>5. IsPrefix(line, here)
            BY <2>1, <2>2, <2>4, BeginsFacts
        <2> QED BY <2>5 DEF line, here
    <1> QED BY Inductive, <1>1, PTL

-----------------------------------------------------------------------------
(* When reader and select can go on: the guards of Reader and of Select.   *)
ReaderCanGoOn(s) ==
    \/ reader[s] = "receiving" /\ (wire[s] # <<>> \/ halfClosed[s] \/ done[s])
    \/ reader[s] = "storing"
    \/ reader[s] = "forwarding" /\ HasRoom(s)

SelectCanGoOn(s) ==
    handler[s] = "selecting" /\ (messageChan[s] # <<>> \/ closed[s] \/ done[s])

(* Behind a client that has half-closed reader and handler do not wait for *)
(* each other, whatever the capacity of the channel: until the handler has *)
(* returned one of them goes on, or the client does not read its echo.     *)
NoStandstill ==
    \A s \in Streams : halfClosed[s] =>
        handler[s] \in {"returned", "echoing"} \/ ReaderCanGoOn(s) \/ SelectCanGoOn(s)

(* The steps that reader and handler have left, at most.                   *)
ReaderSteps(s)  ==
    CASE reader[s] = "storing"    -> 5
      [] reader[s] = "forwarding" -> 4
      [] reader[s] = "receiving"  -> 1
      [] OTHER                    -> 0
HandlerSteps(s) ==
    CASE handler[s] = "echoing"   -> 2
      [] handler[s] = "selecting" -> 1
      [] OTHER                    -> 0
Left(s) == 5 * Len(wire[s]) + ReaderSteps(s) + 2 * Len(messageChan[s]) + HandlerSteps(s)

(* The end of a half-closed stream does not recede, however busy the other *)
(* streams keep the room: each step of its reader or handler uses up one   *)
(* of the steps it has left, and no other step gives it more.              *)
EndComesCloser ==
    [][\A s \in Streams : halfClosed[s] =>
           \/ Left(s)' < Left(s)
           \/ UNCHANGED <<wire[s], reader[s], messageChan[s], closed[s], handler[s], echoed[s]>>]_vars

(* Reader and handler are born together, and a reader closes the channel   *)
(* when it leaves.                                                         *)
Together(s) ==
    /\ reader[s] = "none" <=> handler[s] = "none"
    /\ reader[s] = "exited" => closed[s]
    /\ halfClosed[s] => handler[s] # "none"

(* Chat starts the reader, and the reader defers close(messageChan).       *)
THEOREM BornTogether == Spec => [](\A s \in Streams : Together(s))
    <1> DEFINE J == \A s \in Streams : Together(s)
    <1>1. Init => J
        BY DEF Init, Together
    <1>2. ASSUME IInv, J, [Next]_vars
          PROVE  J'
        <2> SUFFICES ASSUME NEW t \in Streams
                     PROVE  Together(t)'
            OBVIOUS
        <2>1. Together(t) /\ TypeOK /\ Shape
            BY <1>2 DEF IInv
        <2>2. ASSUME NEW s \in Streams, Client(s) \/ Reader(s) \/ Handler(s)
              PROVE  Together(t)'
            <3>1. CASE t # s
                <4>1. /\ reader'[t] = reader[t] /\ handler'[t] = handler[t]
                      /\ closed'[t] = closed[t] /\ halfClosed'[t] = halfClosed[t]
                    BY <2>1, <2>2, <3>1, Elsewhere
                <4> QED BY <2>1, <4>1 DEF Together
            <3>2. CASE t = s /\ Client(s)
                BY <2>1, <3>2 DEF Client, Open, ClientSend, ClientCloseSend, Cancel, clientVars,
                                  readerVars, handlerVars, Together, TypeOK
            <3>3. CASE t = s /\ Reader(s)
                BY <2>1, <3>3 DEF Reader, Recv, RecvEnds, Store, Forward, clientVars, handlerVars,
                                  Together, TypeOK
            <3>4. CASE t = s /\ Handler(s)
                BY <2>1, <3>4 DEF Handler, Select, TakeMessage, ChannelClosed, ContextDone, Echo,
                                  EchoFails, Return, clientVars, readerVars, Together, TypeOK
            <3> QED BY <2>2, <3>1, <3>2, <3>3, <3>4
        <2>3. CASE UNCHANGED vars
            BY <2>1, <2>3 DEF vars, clientVars, readerVars, handlerVars, Together
        <2> QED BY <1>2, <2>2, <2>3 DEF Next
    <1> QED BY Inductive, <1>1, <1>2, PTL DEF Spec

(* Reader and handler of a half-closed stream never wait for each other.   *)
THEOREM ReaderAndHandlerGoOn == Spec => []NoStandstill
    <1>1. IInv /\ (\A s \in Streams : Together(s)) => NoStandstill
        <2> SUFFICES ASSUME IInv, NEW s \in Streams, Together(s), halfClosed[s],
                            handler[s] \notin {"returned", "echoing"},
                            ~ReaderCanGoOn(s)
                     PROVE  SelectCanGoOn(s)
            BY DEF NoStandstill
        <2>1. handler[s] = "selecting"
            <3>1. handler[s] \in {"none", "selecting", "echoing", "returned"}
                BY DEF IInv, TypeOK
            <3> QED BY <3>1 DEF Together
        <2>2. reader[s] \in {"forwarding", "exited"}
            <3>1. reader[s] \in {"none", "receiving", "storing", "forwarding", "exited"}
                BY DEF IInv, TypeOK
            <3> QED BY <2>1, <3>1 DEF Together, ReaderCanGoOn
        <2>3. CASE reader[s] = "exited"
            BY <2>1, <2>3 DEF Together, SelectCanGoOn
        <2>4. CASE reader[s] = "forwarding"
            <3>1. ~(Len(messageChan[s]) < ChanCap)
                BY <2>4 DEF ReaderCanGoOn, HasRoom
            <3>2. CASE messageChan[s] = <<>>
                <4>1. Len(messageChan[s]) = 0
                    BY <3>2
                <4> QED BY <3>1, <4>1, BoundsAssumption
            <3> QED BY <2>1, <3>2 DEF SelectCanGoOn
        <2> QED BY <2>2, <2>3, <2>4
    <1> QED BY Inductive, BornTogether, <1>1, PTL

LEMMA LeftIsANumber ==
    ASSUME TypeOK, Shape, NEW s \in Streams
    PROVE  /\ Len(wire[s]) \in Nat /\ Len(messageChan[s]) \in Nat
           /\ ReaderSteps(s) \in Nat /\ HandlerSteps(s) \in Nat
           /\ Left(s) \in Nat
    <1>1. Len(wire[s]) \in Nat /\ Len(messageChan[s]) \in Nat
        BY Lengths
    <1>2. ReaderSteps(s) \in Nat /\ HandlerSteps(s) \in Nat
        BY DEF TypeOK, ReaderSteps, HandlerSteps
    <1> QED BY <1>1, <1>2 DEF Left

(* What a stream's own step uses up.                                       *)
LEMMA OneStepLess ==
    ASSUME TypeOK, Shape, NEW s \in Streams, halfClosed[s], Client(s) \/ Reader(s) \/ Handler(s),
           Together(s)
    PROVE  \/ Left(s)' < Left(s)
           \/ UNCHANGED <<wire[s], reader[s], messageChan[s], closed[s], handler[s], echoed[s]>>
    <1> DEFINE w  == Len(wire[s])
               c  == Len(messageChan[s])
               rs == ReaderSteps(s)
               hs == HandlerSteps(s)
               w1  == Len(wire'[s])
               c1  == Len(messageChan'[s])
               rs1 == ReaderSteps(s)'
               hs1 == HandlerSteps(s)'
    <1>1. w \in Nat /\ c \in Nat /\ rs \in Nat /\ hs \in Nat
        BY LeftIsANumber
    <1>2. /\ Left(s) = 5 * w + rs + 2 * c + hs
          /\ Left(s)' = 5 * w1 + rs1 + 2 * c1 + hs1
        BY DEF Left
    <1>3. /\ wire[s] \in Seq(Numbers) /\ messageChan[s] \in Seq(Numbers)
          /\ hand[s] \in Numbers
        BY DEF TypeOK, Shape
    <1>4. /\ wire'[s] = wire[s] => w1 = w
          /\ messageChan'[s] = messageChan[s] => c1 = c
          /\ reader'[s] = reader[s] => rs1 = rs
          /\ handler'[s] = handler[s] => hs1 = hs
        BY DEF ReaderSteps, HandlerSteps
    <1>5. CASE Client(s)
        BY <1>5 DEF Client, Open, ClientSend, ClientCloseSend, Cancel, clientVars, readerVars,
                    handlerVars, Together
    <1>6. CASE Recv(s)
        <2>1. /\ wire[s] # <<>> /\ wire'[s] = Tail(wire[s])
              /\ reader[s] = "receiving" /\ reader'[s] = "storing"
              /\ UNCHANGED <<messageChan, handler>>
            BY <1>6 DEF Recv, handlerVars, TypeOK, Shape
        <2>2. w1 = w - 1
            BY <1>3, <2>1, HeadFacts
        <2>3. rs = 1 /\ rs1 = 5 /\ c1 = c /\ hs1 = hs
            BY <1>4, <2>1 DEF ReaderSteps
        <2> HIDE DEF w, c, rs, hs, w1, c1, rs1, hs1
        <2> QED BY <1>1, <1>2, <2>2, <2>3
    <1>7. CASE RecvEnds(s)
        <2>1. /\ reader[s] = "receiving" /\ reader'[s] = "exited"
              /\ UNCHANGED <<wire, messageChan, handler>>
            BY <1>7 DEF RecvEnds, clientVars, handlerVars, TypeOK
        <2>2. rs = 1 /\ rs1 = 0 /\ w1 = w /\ c1 = c /\ hs1 = hs
            BY <1>4, <2>1 DEF ReaderSteps
        <2> HIDE DEF w, c, rs, hs, w1, c1, rs1, hs1
        <2> QED BY <1>1, <1>2, <2>2
    <1>8. CASE Store(s)
        <2>1. /\ reader[s] = "storing" /\ reader'[s] = "forwarding"
              /\ UNCHANGED <<wire, messageChan, handler>>
            BY <1>8 DEF Store, clientVars, handlerVars, TypeOK
        <2>2. rs = 5 /\ rs1 = 4 /\ w1 = w /\ c1 = c /\ hs1 = hs
            BY <1>4, <2>1 DEF ReaderSteps
        <2> HIDE DEF w, c, rs, hs, w1, c1, rs1, hs1
        <2> QED BY <1>1, <1>2, <2>2
    <1>9. CASE Forward(s)
        <2>1. /\ messageChan'[s] = Append(messageChan[s], hand[s])
              /\ reader[s] = "forwarding" /\ reader'[s] = "receiving"
              /\ UNCHANGED <<wire, handler>>
            BY <1>9 DEF Forward, clientVars, handlerVars, TypeOK, Shape
        <2>2. c1 = c + 1
            BY <1>3, <2>1, AppendFacts
        <2>3. rs = 4 /\ rs1 = 1 /\ w1 = w /\ hs1 = hs
            BY <1>4, <2>1 DEF ReaderSteps
        <2> HIDE DEF w, c, rs, hs, w1, c1, rs1, hs1
        <2> QED BY <1>1, <1>2, <2>2, <2>3
    <1>10. CASE TakeMessage(s)
        <2>1. /\ messageChan[s] # <<>> /\ messageChan'[s] = Tail(messageChan[s])
              /\ handler[s] = "selecting" /\ handler'[s] = "echoing"
              /\ UNCHANGED <<wire, reader>>
            BY <1>10 DEF TakeMessage, clientVars, readerVars, TypeOK, Shape
        <2>2. c1 = c - 1
            BY <1>3, <2>1, HeadFacts
        <2>3. hs = 1 /\ hs1 = 2 /\ w1 = w /\ rs1 = rs
            BY <1>4, <2>1 DEF HandlerSteps
        <2> HIDE DEF w, c, rs, hs, w1, c1, rs1, hs1
        <2> QED BY <1>1, <1>2, <2>2, <2>3
    <1>11. CASE Echo(s) \/ ChannelClosed(s) \/ ContextDone(s) \/ EchoFails(s)
        <2>1. /\ \/ handler[s] = "echoing" /\ handler'[s] = "selecting"
                 \/ handler[s] \in {"echoing", "selecting"} /\ handler'[s] = "returned"
              /\ UNCHANGED <<wire, reader, messageChan>>
            BY <1>11 DEF Echo, ChannelClosed, ContextDone, EchoFails, Return, clientVars,
                         readerVars, TypeOK
        <2>2. (hs = 2 /\ hs1 = 1) \/ (hs = 2 /\ hs1 = 0) \/ (hs = 1 /\ hs1 = 0)
            BY <2>1 DEF HandlerSteps
        <2>3. w1 = w /\ rs1 = rs /\ c1 = c
            BY <1>4, <2>1
        <2> HIDE DEF w, c, rs, hs, w1, c1, rs1, hs1
        <2> QED BY <1>1, <1>2, <2>2, <2>3
    <1> QED BY <1>5, <1>6, <1>7, <1>8, <1>9, <1>10, <1>11 DEF Reader, Handler, Select

(* The end of a half-closed stream comes closer: with ReaderAndHandlerGoOn *)
(* this is the argument for EofEndsStream, whatever the capacities and the *)
(* number of messages and streams.                                         *)
THEOREM HalfClosedEnds ==
    Spec => [](\A s \in Streams : Left(s) \in Nat) /\ EndComesCloser
    <1> DEFINE J == \A s \in Streams : Together(s)
               Closer == \A s \in Streams : halfClosed[s] =>
                             \/ Left(s)' < Left(s)
                             \/ UNCHANGED <<wire[s], reader[s], messageChan[s], closed[s],
                                            handler[s], echoed[s]>>
    <1>1. IInv => \A s \in Streams : Left(s) \in Nat
        BY LeftIsANumber DEF IInv
    <1>2. ASSUME IInv, J, Next
          PROVE  Closer
        <2> SUFFICES ASSUME NEW t \in Streams, halfClosed[t]
                     PROVE  \/ Left(t)' < Left(t)
                            \/ UNCHANGED <<wire[t], reader[t], messageChan[t], closed[t],
                                           handler[t], echoed[t]>>
            OBVIOUS
        <2>1. PICK s \in Streams : Client(s) \/ Reader(s) \/ Handler(s)
            BY <1>2 DEF Next
        <2>2. TypeOK /\ Shape /\ Together(t)
            BY <1>2 DEF IInv
        <2>3. CASE t = s
            BY <2>1, <2>2, <2>3, OneStepLess
        <2>4. CASE t # s
            BY <2>1, <2>2, <2>4, Elsewhere
        <2> QED BY <2>3, <2>4
    <1>3. IInv /\ J /\ [Next]_vars => [Closer]_vars
        BY <1>2
    <1> QED BY Inductive, BornTogether, <1>1, <1>3, PTL DEF Spec, EndComesCloser
=============================================================================
