---------------------------- MODULE EventStream ----------------------------
(***************************************************************************)
(* SubscribeToEvents of example/server/main.go: the broadcaster goroutine  *)
(* that fills the channel s.events, and for each subscription a handler    *)
(* that sends to the client and a forwarder goroutine that moves events    *)
(* from s.events, which all forwarders share, to the handler's eventChan.  *)
(*                                                                         *)
(* The handler closes eventChan when it returns; nobody stops or awaits    *)
(* its forwarder, which goes on taking events from s.events.               *)
(***************************************************************************)
EXTENDS Integers, Sequences

CONSTANTS
    Subs,       \* subscriptions that clients may open
    Types,      \* event types
    Wanted,     \* req.EventTypes of each subscription; empty means all
    EventsCap,  \* capacity of s.events (100)
    ChanCap,    \* capacity of eventChan (10)
    MaxEvents   \* bound on the events broadcast, in the guard of Broadcast

ASSUME WantedAssumption == Wanted \in [Subs -> SUBSET Types]
ASSUME CapacityAssumption ==
    /\ EventsCap \in Nat \ {0}
    /\ ChanCap \in Nat \ {0}
    /\ MaxEvents \in Nat

VARIABLES
    created,    \* how many events the broadcaster has made
    events,     \* the channel s.events
    handler,    \* progress of each handler
    sending,    \* the event in a handler's stream.Send
    forwarder,  \* progress of each forwarder
    holding,    \* the event in a forwarder's hand
    eventChan,  \* the channel from forwarder to handler
    closed,     \* eventChan has been closed
    done,       \* stream.Context() is done
    delivered,  \* what each client has received
    crashed     \* a goroutine panicked unrecovered: the process is gone

vars == <<created, events, handler, sending, forwarder, holding, eventChan,
          closed, done, delivered, crashed>>

Event   == [id : 1 .. MaxEvents, type : Types]
NoEvent == [id |-> 0, type |-> "none"]

TypeOK ==
    /\ created \in 0 .. MaxEvents
    /\ events \in Seq(Event) /\ Len(events) <= EventsCap
    /\ handler \in [Subs -> {"none", "selecting", "sending", "returned"}]
    /\ sending \in [Subs -> Event \cup {NoEvent}]
    /\ forwarder \in [Subs -> {"none", "ranging", "holding", "exited"}]
    /\ holding \in [Subs -> Event \cup {NoEvent}]
    /\ \A s \in Subs : eventChan[s] \in Seq(Event) /\ Len(eventChan[s]) <= ChanCap
    /\ closed \in [Subs -> BOOLEAN]
    /\ done \in [Subs -> BOOLEAN]
    /\ \A s \in Subs : delivered[s] \in Seq(Event)
    /\ crashed \in BOOLEAN

(* NewDemoService.                                                         *)
Init ==
    /\ created = 0
    /\ events = <<>>
    /\ handler = [s \in Subs |-> "none"]
    /\ sending = [s \in Subs |-> NoEvent]
    /\ forwarder = [s \in Subs |-> "none"]
    /\ holding = [s \in Subs |-> NoEvent]
    /\ eventChan = [s \in Subs |-> <<>>]
    /\ closed = [s \in Subs |-> FALSE]
    /\ done = [s \in Subs |-> FALSE]
    /\ delivered = [s \in Subs |-> <<>>]
    /\ crashed = FALSE

Wants(s, e) == Wanted[s] = {} \/ e.type \in Wanted[s]

-----------------------------------------------------------------------------
(* broadcastEvents: each tick makes an event and drops it if the channel   *)
(* is full.                                                                *)
Broadcast ==
    /\ ~crashed
    /\ created < MaxEvents
    /\ created' = created + 1
    /\ \E type \in Types :
          events' = IF Len(events) < EventsCap
                    THEN Append(events, [id |-> created + 1, type |-> type])
                    ELSE events
    /\ UNCHANGED <<handler, sending, forwarder, holding, eventChan, closed, done,
                   delivered, crashed>>

(* A client subscribes: the handler makes eventChan and spawns a forwarder.*)
Subscribe(s) ==
    /\ ~crashed
    /\ handler[s] = "none"
    /\ handler' = [handler EXCEPT ![s] = "selecting"]
    /\ forwarder' = [forwarder EXCEPT ![s] = "ranging"]
    /\ UNCHANGED <<created, events, sending, holding, eventChan, closed, done,
                   delivered, crashed>>

(* The client goes away, or gRPC ends the context of a returned handler.   *)
Disconnect(s) ==
    /\ ~crashed
    /\ handler[s] # "none"
    /\ ~done[s]
    /\ done' = [done EXCEPT ![s] = TRUE]
    /\ UNCHANGED <<created, events, handler, sending, forwarder, holding, eventChan,
                   closed, delivered, crashed>>

-----------------------------------------------------------------------------
(* The forwarder: for event := range s.events, continue if not wanted ...  *)
TakeEvent(s) ==
    /\ ~crashed
    /\ forwarder[s] = "ranging"
    /\ events # <<>>
    /\ events' = Tail(events)
    /\ \/ /\ Wants(s, Head(events))
          /\ holding' = [holding EXCEPT ![s] = Head(events)]
          /\ forwarder' = [forwarder EXCEPT ![s] = "holding"]
       \/ /\ ~Wants(s, Head(events))
          /\ UNCHANGED <<holding, forwarder>>
    /\ UNCHANGED <<created, handler, sending, eventChan, closed, done, delivered, crashed>>

LetGo(s, next) ==
    /\ forwarder' = [forwarder EXCEPT ![s] = next]
    /\ holding' = [holding EXCEPT ![s] = NoEvent]

(* Mutant of HasRoom: an unbounded eventChan.                              *)
HasRoom_Always(s) == TRUE

HasRoom(s) == Len(eventChan[s]) < ChanCap

(* ... select: eventChan <- event ...                                      *)
Forward(s) ==
    /\ ~crashed
    /\ forwarder[s] = "holding"
    /\ ~closed[s]
    /\ HasRoom(s)
    /\ eventChan' = [eventChan EXCEPT ![s] = Append(@, holding[s])]
    /\ LetGo(s, "ranging")
    /\ UNCHANGED <<created, events, handler, sending, closed, done, delivered, crashed>>

(* ... which panics, in a goroutine without recover, on a closed channel   *)
(* (a closed channel is ready, and select picks any ready case) ...        *)
ForwardPanics(s) ==
    /\ ~crashed
    /\ forwarder[s] = "holding"
    /\ closed[s]
    /\ crashed' = TRUE
    /\ UNCHANGED <<created, events, handler, sending, forwarder, holding, eventChan,
                   closed, done, delivered>>

(* Mutants of GivesUp: the case is missing; a default returns, too.        *)
GivesUp_Never(s) == FALSE

GivesUp_Default(s) == done[s] \/ ~HasRoom(s)

GivesUp(s) == done[s]

(* Mutant of GiveUp: the event is put back.                                *)
GiveUp_PutsBack(s) ==
    /\ ~crashed
    /\ forwarder[s] = "holding"
    /\ GivesUp(s)
    /\ Len(events) < EventsCap
    /\ events' = Append(events, holding[s])
    /\ LetGo(s, "exited")
    /\ UNCHANGED <<created, handler, sending, eventChan, closed, done,
                   delivered, crashed>>

(* ... or <-stream.Context().Done().                                       *)
GiveUp(s) ==
    /\ ~crashed
    /\ forwarder[s] = "holding"
    /\ GivesUp(s)
    /\ LetGo(s, "exited")
    /\ UNCHANGED <<created, events, handler, sending, eventChan, closed, done,
                   delivered, crashed>>

-----------------------------------------------------------------------------
(* The handler's select: event := <-eventChan ...                          *)
Receive(s) ==
    /\ ~crashed
    /\ handler[s] = "selecting"
    /\ eventChan[s] # <<>>
    /\ handler' = [handler EXCEPT ![s] = "sending"]
    /\ sending' = [sending EXCEPT ![s] = Head(eventChan[s])]
    /\ eventChan' = [eventChan EXCEPT ![s] = Tail(@)]
    /\ UNCHANGED <<created, events, forwarder, holding, closed, done, delivered, crashed>>

(* ... and stream.Send, which succeeds ...                                 *)
Sent(s) ==
    /\ ~crashed
    /\ handler[s] = "sending"
    /\ handler' = [handler EXCEPT ![s] = "selecting"]
    /\ delivered' = [delivered EXCEPT ![s] = Append(@, sending[s])]
    /\ sending' = [sending EXCEPT ![s] = NoEvent]
    /\ UNCHANGED <<created, events, forwarder, holding, eventChan, closed, done, crashed>>

(* ... or fails, or the context is done: the deferred close runs.          *)
Return(s) ==
    /\ ~crashed
    /\ \/ handler[s] = "sending"
       \/ handler[s] = "selecting" /\ done[s]
    /\ handler' = [handler EXCEPT ![s] = "returned"]
    /\ closed' = [closed EXCEPT ![s] = TRUE]
    /\ sending' = [sending EXCEPT ![s] = NoEvent]
    /\ UNCHANGED <<created, events, forwarder, holding, eventChan, done, delivered, crashed>>

-----------------------------------------------------------------------------
Forwarder(s) == TakeEvent(s) \/ Forward(s) \/ ForwardPanics(s) \/ GiveUp(s)
Handler(s)   == Receive(s) \/ Sent(s) \/ Return(s)

Next ==
    \/ Broadcast
    \/ \E s \in Subs : Subscribe(s) \/ Disconnect(s) \/ Forwarder(s) \/ Handler(s)

Spec == Init /\ [][Next]_vars

(* Goroutines run.  A Send ends only if its client reads, the broadcaster  *)
(* ticks for ever but its events are bounded here, and clients are free.   *)
Fairness ==
    \A s \in Subs :
        /\ WF_vars(Forwarder(s))
        /\ WF_vars(Receive(s) \/ (handler[s] = "selecting" /\ Return(s)))

FairSpec == Spec /\ Fairness

-----------------------------------------------------------------------------
(* The event in the handler's Send, and the one in the forwarder's hand.   *)
InSend(s) == IF handler[s] = "sending" THEN <<sending[s]>> ELSE <<>>
InHand(s) == IF forwarder[s] = "holding" THEN <<holding[s]>> ELSE <<>>

(* All that was taken for a subscription and not thrown away, from the     *)
(* first its client got to the one in its forwarder's hand.                *)
Taken(s) == delivered[s] \o InSend(s) \o eventChan[s] \o InHand(s)

Increasing(q) == \A i, j \in DOMAIN q : i < j => q[i].id < q[j].id

(* The two channels and two goroutines between the broadcaster and a client*)
(* keep its events in the order in which they were made, and let through   *)
(* no event of a type it did not ask for.                                  *)
InOrder ==
    \A s \in Subs :
        /\ Increasing(Taken(s) \o events)
        /\ \A i \in DOMAIN Taken(s) : Wants(s, Taken(s)[i])

(* Nothing taken is lost, repeated or overtaken: until its client leaves   *)
(* or its handler returns, what was taken for a subscription stays as it   *)
(* is, and a step adds at most the next event of s.events that it wants.   *)
NothingTakenIsLost ==
    [][\A s \in Subs :
          \/ Taken(s)' = Taken(s)
          \/ /\ events # <<>> /\ Wants(s, Head(events))
             /\ Taken(s)' = Append(Taken(s), Head(events))
          \/ done[s]
          \/ handler[s] # "returned" /\ handler'[s] = "returned"]_vars

(* A forwarder that holds an event and waits for room in eventChan is not  *)
(* left behind when its client leaves.  Nothing is said of one that ranges *)
(* over s.events: it does not look at the context, and goes on.            *)
ForwarderReleased ==
    \A s \in Subs :
        forwarder[s] = "holding" /\ done[s] ~> forwarder[s] # "holding" \/ crashed

(* An event that a forwarder has taken reaches the client, unless the      *)
(* client leaves or stops reading, or the process dies.                    *)
TakenIsDelivered ==
    \A s \in Subs : \A e \in Event :
        \/ holding[s] = e ~>
               \/ \E i \in DOMAIN delivered[s] : delivered[s][i] = e
               \/ done[s] \/ closed[s] \/ crashed
        \/ <>[](handler[s] = "sending")

(* "Panic Recovery - Prevents service crashes" (README.md:54).             *)
NeverCrashes == ~crashed
=============================================================================
