----------------------- MODULE ServerLifecycleProofs -----------------------
(***************************************************************************)
(* Proofs about ServerLifecycle for any number of goroutines that call     *)
(* Shutdown, RPCs and shutdown functions, with and without metrics.        *)
(***************************************************************************)
EXTENDS ServerLifecycle, FiniteSetTheorems, TLAPS

(* Calls of Shutdown that are past GracefulStop, past the closing of the   *)
(* metrics server, and that have returned; a Start that returned an error  *)
(* never had a context.                                                    *)
Drained(p)  == pc[p] \in {"drained", "closing", "closed", "hooking"}
Returned(p) == pc[p] = "returned" /\ ctx[p] # "none"
Closed(p)   == pc[p] \in {"closing", "closed", "hooking"} \/ Returned(p)

(* Draining stays drained: GracefulStop was called, so no RPC can begin.   *)
DrainInv ==
    \A p \in Shutters :
        /\ pc[p] = "stopping" \/ Drained(p) \/ Returned(p) => quit
        /\ Drained(p) \/ Returned(p) => inflight = {}

(* A call has a context exactly from MarkNotServing on.                    *)
AfterMark == {"notServing", "stopping", "drained", "closing", "closed", "hooking"}

ContextInv ==
    \A p \in Shutters :
        /\ ctx[p] # "none" => pc[p] \in AfterMark \cup {"returned"}
        /\ pc[p] \in AfterMark => ctx[p] # "none"

(* The listener is open only before Serve has it and while Serve accepts   *)
(* on it, and GracefulStop closes what Serve accepts on: a Serve that is   *)
(* given the listener later refuses it, and it is given it only once.      *)
ListenerInv ==
    /\ listener = "open" => NotHandedOver \/ serve = "accepting"
    /\ serve = "accepting" /\ quit => listener # "open"
    /\ pc[Main] \in {"new", "listening", "marked"} => serve = "unborn"

(* A closed metrics server is never opened again.                          *)
MetricsInv == \A p \in Shutters : Closed(p) /\ EnableMetrics => metrics = "shutdown"

(* A snapshot is a prefix of the functions registered so far, and holds    *)
(* the functions that were registered when the call began; none has run    *)
(* before the snapshot is taken and all have when the call returns.        *)
HooksInv ==
    \A p \in Shutters :
        /\ due[p] \subseteq Elements(hooks)
        /\ Len(snapshot[p]) <= Len(hooks)
        /\ \A i \in 1 .. Len(snapshot[p]) : snapshot[p][i] = hooks[i]
        /\ pc[p] = "hooking" \/ Returned(p) => due[p] \subseteq Elements(snapshot[p])
        /\ Returned(p) => ran[p] = Len(snapshot[p])
        /\ ~(pc[p] = "hooking" \/ Returned(p)) => ran[p] = 0

(* As long as nobody but Start calls Shutdown, GracefulStop is called only *)
(* by Start, after it has marked the service, which nothing undoes then.   *)
Alone == \A p \in Callers : pc[p] = "idle"

HealthInv ==
    Alone /\ (quit \/ pc[Main] \in AfterMark) =>
        health = "NOT_SERVING" /\ pc[Main] \notin StartPc \cup {"shutdown"}

IInv == TypeOK /\ ListenerInv /\ DrainInv /\ ContextInv /\ MetricsInv /\ HooksInv /\ HealthInv

-----------------------------------------------------------------------------
LEMMA TypeInit ==
    ASSUME Init
    PROVE  TypeOK
    <1>1. /\ hooks \in Seq(Hooks)
          /\ snapshot \in [Shutters -> Seq(Hooks)]
          /\ \A p \in Shutters : ran[p] <= Len(snapshot[p])
        BY DEF Init
    <1>2. pc \in [Shutters -> {"idle"} \cup StartPc \cup ShutdownPc]
        BY DEF Init, StartPc
    <1> QED BY <1>1, <1>2 DEF Init, TypeOK

LEMMA TypeStep ==
    ASSUME TypeOK, HooksInv, [Next]_vars
    PROVE  TypeOK'
    <1> USE DEF TypeOK, rpcVars, serveVars, hookVars
    <1>1. ASSUME NEW h \in Hooks, AddShutdownFunc(h)
          PROVE  TypeOK'
        <2>1. Append(hooks, h) \in Seq(Hooks)
            OBVIOUS
        <2>2. hooks' \in Seq(Hooks)
            BY <1>1, <2>1 DEF AddShutdownFunc
        <2>3. UNCHANGED <<pc, result, health, signalled, errChan, listener, serve, quit,
                          inflight, finished, metrics, scraping, ctx, snapshot, ran, due>>
            BY <1>1 DEF AddShutdownFunc
        <2> QED BY <2>2, <2>3
    <1>2. CASE Listen
        <2>1. /\ pc' \in [Shutters -> {"idle"} \cup StartPc \cup ShutdownPc]
              /\ result' \in {"none", "nil", "error"}
            BY <1>2 DEF Listen, Goto, StartPc, ShutdownPc
        <2> QED BY <1>2, <2>1 DEF Listen
    <1>3. CASE MarkServing
        BY <1>3 DEF MarkServing, Goto, StartPc
    <1>4. CASE Spawn
        BY <1>4 DEF Spawn, Goto, StartPc
    <1>5. CASE SelectSignal
        <2>1. Elements(hooks) \subseteq Hooks
            BY DEF Elements
        <2>2. due' \in [Shutters -> SUBSET Hooks]
            BY <1>5, <2>1 DEF SelectSignal
        <2>3. pc' \in [Shutters -> {"idle"} \cup StartPc \cup ShutdownPc]
            BY <1>5 DEF SelectSignal, Goto, ShutdownPc
        <2>4. UNCHANGED <<result, health, errChan, listener, serve, quit, inflight,
                          finished, metrics, scraping, ctx, hooks, snapshot, ran>>
            BY <1>5 DEF SelectSignal
        <2>5. signalled' \in BOOLEAN
            BY <1>5 DEF SelectSignal
        <2> QED BY <2>2, <2>3, <2>4, <2>5
    <1>6. CASE SelectError
        BY <1>6 DEF SelectError, Goto, ShutdownPc
    <1>7. ASSUME NEW p \in Shutters, Shutdown(p)
          PROVE  TypeOK'
        <2>1. CASE CallShutdown(p)
            <3>1. Elements(hooks) \subseteq Hooks
                BY DEF Elements
            <3> QED BY <2>1, <3>1 DEF CallShutdown, Goto, ShutdownPc
        <2>2. CASE MarkNotServing(p)
            BY <2>2 DEF MarkNotServing, Goto, ShutdownPc
        <2>3. CASE BeginGracefulStop(p)
            BY <2>3 DEF BeginGracefulStop, Goto, ShutdownPc
        <2>4. CASE EndGracefulStop(p)
            BY <2>4 DEF EndGracefulStop, Goto, ShutdownPc
        <2>5. CASE CloseMetrics(p)
            BY <2>5 DEF CloseMetrics, Goto, ShutdownPc
        <2>6. CASE MetricsClosed(p)
            BY <2>6 DEF MetricsClosed, Goto, ShutdownPc
        <2>7. CASE SnapshotHooks(p)
            <3>1. ran[p] = 0
                BY <2>7 DEF SnapshotHooks, Goto, HooksInv, Returned
            <3>2. \A q \in Shutters : ran'[q] <= Len(snapshot'[q])
                BY <2>7, <3>1 DEF SnapshotHooks
            <3> QED BY <2>7, <3>2 DEF SnapshotHooks, Goto, ShutdownPc
        <2>8. CASE FinishHook(p)
            BY <2>8 DEF FinishHook, InHook
        <2>9. CASE ReturnNil(p)
            BY <2>9 DEF ReturnNil, Goto, ShutdownPc
        <2> QED BY <1>7, <2>1, <2>2, <2>3, <2>4, <2>5, <2>6, <2>7, <2>8, <2>9 DEF Shutdown
    <1>8. ASSUME NEW p \in Shutters, Expire(p)
          PROVE  TypeOK'
        BY <1>8 DEF Expire
    <1>9. CASE Serve
        BY <1>9 DEF Serve, ServeBegins, AcceptFails, ServeStops
    <1>10. ASSUME NEW r \in Rpcs, BeginRpc(r) \/ EndRpc(r)
           PROVE  TypeOK'
        BY <1>10 DEF BeginRpc, EndRpc
    <1>11. CASE StartMetricsServer
        BY <1>11 DEF StartMetricsServer
    <1>13. CASE BeginScrape \/ EndScrape
        <2>1. scraping' \in BOOLEAN
            BY <1>13 DEF BeginScrape, EndScrape
        <2>2. UNCHANGED <<pc, result, health, signalled, errChan, listener, serve, quit,
                          inflight, finished, metrics, ctx, hooks, snapshot, ran, due>>
            BY <1>13 DEF BeginScrape, EndScrape
        <2> QED BY <2>1, <2>2
    <1>14. CASE Signal
        <2>1. signalled' \in BOOLEAN
            BY <1>14 DEF Signal
        <2>2. UNCHANGED <<pc, result, health, errChan, listener, serve, quit,
                          inflight, finished, metrics, scraping, ctx, hooks, snapshot, ran, due>>
            BY <1>14 DEF Signal
        <2> QED BY <2>1, <2>2
    <1>12. CASE UNCHANGED vars
        BY <1>12 DEF vars
    <1> QED BY <1>1, <1>2, <1>3, <1>4, <1>5, <1>6, <1>7, <1>8, <1>9, <1>10, <1>11, <1>12,
               <1>13, <1>14
            DEF Next, Start

-----------------------------------------------------------------------------
LEMMA DrainStep ==
    ASSUME TypeOK, ListenerInv, DrainInv, ContextInv, [Next]_vars
    PROVE  DrainInv'
    <1> USE DEF TypeOK, DrainInv, ContextInv, AfterMark, Drained, Returned, Goto
    <1>1. ASSUME NEW p \in Shutters, Shutdown(p)
          PROVE  DrainInv'
        <2>1. CASE CallShutdown(p) \/ MarkNotServing(p)
            BY <2>1 DEF CallShutdown, MarkNotServing, rpcVars
        <2>2. CASE BeginGracefulStop(p) \/ EndGracefulStop(p)
            BY <2>2 DEF BeginGracefulStop, EndGracefulStop, rpcVars
        <2>3. CASE CloseMetrics(p) \/ MetricsClosed(p) \/ SnapshotHooks(p)
            BY <2>3 DEF CloseMetrics, MetricsClosed, SnapshotHooks, rpcVars
        <2>4. CASE ReturnNil(p) \/ FinishHook(p)
            BY <2>4 DEF ReturnNil, FinishHook, rpcVars
        <2> QED BY <1>1, <2>1, <2>2, <2>3, <2>4 DEF Shutdown
    <1>2. CASE Start
        <2>1. Main \in Shutters
            BY DEF Shutters
        <2> QED BY <1>2, <2>1
                DEF Start, Listen, MarkServing, Spawn, SelectSignal, SelectError, rpcVars
    <1>3. CASE Serve
        BY <1>3 DEF Serve, ServeBegins, AcceptFails, ServeStops, rpcVars
    <1>4. ASSUME NEW r \in Rpcs, BeginRpc(r) \/ EndRpc(r)
          PROVE  DrainInv'
        BY <1>4 DEF BeginRpc, EndRpc, Accepting, ListenerInv
    <1>5. ASSUME NEW p \in Shutters, Expire(p)
          PROVE  DrainInv'
        BY <1>5 DEF Expire, rpcVars
    <1>6. CASE \/ StartMetricsServer \/ BeginScrape \/ EndScrape \/ Signal
               \/ (\E h \in Hooks : AddShutdownFunc(h))
               \/ UNCHANGED vars
        BY <1>6 DEF StartMetricsServer, BeginScrape, EndScrape, Signal,
                    AddShutdownFunc, vars, rpcVars
    <1> QED BY <1>1, <1>2, <1>3, <1>4, <1>5, <1>6 DEF Next

LEMMA ListenerStep ==
    ASSUME TypeOK, ListenerInv, [Next]_vars
    PROVE  ListenerInv'
    <1> USE DEF ListenerInv, NotHandedOver, Goto
    <1>1. /\ pc \in [Shutters -> {"idle"} \cup StartPc \cup ShutdownPc]
          /\ Main \in Shutters
        BY DEF TypeOK, Shutters
    <1>2. ASSUME NEW p \in Shutters, Shutdown(p)
          PROVE  ListenerInv'
        <2>1. /\ pc[p] \notin {"new", "listening", "marked"}
              /\ pc'[p] \notin {"new", "listening", "marked"}
            BY <1>1, <1>2 DEF Shutdown, CallShutdown, MarkNotServing, BeginGracefulStop,
                        EndGracefulStop, CloseMetrics, MetricsClosed, SnapshotHooks,
                        FinishHook, InHook, ReturnNil
        <2>2. \A q \in Shutters \ {p} : pc'[q] = pc[q]
            BY <1>1, <1>2 DEF Shutdown, CallShutdown, MarkNotServing, BeginGracefulStop,
                        EndGracefulStop, CloseMetrics, MetricsClosed, SnapshotHooks,
                        FinishHook, ReturnNil
        <2>3. \/ UNCHANGED <<listener, serve, quit>>
              \/ serve' = serve /\ listener' = IF serve = "accepting" THEN "closed" ELSE listener
            BY <1>2 DEF Shutdown, CallShutdown, MarkNotServing, BeginGracefulStop,
                        EndGracefulStop, CloseMetrics, MetricsClosed, SnapshotHooks,
                        FinishHook, ReturnNil, serveVars
        <2> QED BY <1>1, <2>1, <2>2, <2>3
    <1>3. CASE Start
        <2>1. CASE Listen
            BY <1>1, <2>1 DEF Listen
        <2>2. CASE MarkServing
            BY <1>1, <2>2 DEF MarkServing, serveVars
        <2>3. CASE Spawn
            BY <1>1, <2>3 DEF Spawn
        <2>4. CASE SelectSignal \/ SelectError
            BY <1>1, <2>4 DEF SelectSignal, SelectError, serveVars
        <2> QED BY <1>3, <2>1, <2>2, <2>3, <2>4 DEF Start
    <1>4. CASE Serve
        <2>1. pc' = pc /\ quit' = quit /\ serve # "unborn"
            BY <1>4 DEF Serve, ServeBegins, AcceptFails, Accepting, ServeStops
        <2>2. CASE ServeBegins
            BY <2>1, <2>2 DEF ServeBegins
        <2>3. CASE AcceptFails
            BY <2>1, <2>3 DEF AcceptFails, Accepting
        <2>4. CASE ServeStops
            BY <2>1, <2>4 DEF ServeStops
        <2> QED BY <1>4, <2>2, <2>3, <2>4 DEF Serve
    <1>5. CASE \/ StartMetricsServer \/ BeginScrape \/ EndScrape \/ Signal
               \/ (\E p \in Shutters : Expire(p))
               \/ (\E h \in Hooks : AddShutdownFunc(h))
               \/ (\E r \in Rpcs : BeginRpc(r) \/ EndRpc(r))
               \/ UNCHANGED vars
        <2>1. UNCHANGED <<pc, quit, listener, serve>>
            BY <1>5 DEF StartMetricsServer, BeginScrape, EndScrape, Signal, Expire,
                        AddShutdownFunc, BeginRpc, EndRpc, vars, serveVars
        <2> QED BY <2>1
    <1> QED BY <1>2, <1>3, <1>4, <1>5 DEF Next

LEMMA ContextStep ==
    ASSUME TypeOK, ContextInv, [Next]_vars
    PROVE  ContextInv'
    <1> USE DEF TypeOK, ContextInv, AfterMark, Goto
    <1>1. ASSUME NEW p \in Shutters, Shutdown(p)
          PROVE  ContextInv'
        BY <1>1 DEF Shutdown, CallShutdown, MarkNotServing, BeginGracefulStop,
                    EndGracefulStop, CloseMetrics, MetricsClosed, SnapshotHooks,
                    FinishHook, ReturnNil
    <1>2. CASE Start
        <2>1. Main \in Shutters
            BY DEF Shutters
        <2> QED BY <1>2, <2>1
                DEF Start, Listen, MarkServing, Spawn, SelectSignal, SelectError
    <1>3. ASSUME NEW p \in Shutters, Expire(p)
          PROVE  ContextInv'
        BY <1>3 DEF Expire
    <1>4. CASE \/ Serve \/ StartMetricsServer \/ BeginScrape \/ EndScrape \/ Signal
               \/ (\E h \in Hooks : AddShutdownFunc(h))
               \/ (\E r \in Rpcs : BeginRpc(r) \/ EndRpc(r))
               \/ UNCHANGED vars
        BY <1>4 DEF Serve, ServeBegins, AcceptFails, ServeStops, StartMetricsServer,
                    BeginScrape, EndScrape, Signal, AddShutdownFunc, BeginRpc, EndRpc, vars
    <1> QED BY <1>1, <1>2, <1>3, <1>4 DEF Next

LEMMA MetricsStep ==
    ASSUME TypeOK, ContextInv, MetricsInv, [Next]_vars
    PROVE  MetricsInv'
    <1> USE MetricsAssumption
        DEF TypeOK, ContextInv, AfterMark, MetricsInv, Closed, Returned, Goto
    <1>1. ASSUME NEW p \in Shutters, Shutdown(p)
          PROVE  MetricsInv'
        <2>1. CASE CallShutdown(p) \/ MarkNotServing(p) \/ BeginGracefulStop(p)
            BY <2>1 DEF CallShutdown, MarkNotServing, BeginGracefulStop
        <2>2. CASE EndGracefulStop(p) \/ CloseMetrics(p)
            BY <2>2 DEF EndGracefulStop, CloseMetrics
        <2>3. CASE MetricsClosed(p) \/ SnapshotHooks(p)
            BY <2>3 DEF MetricsClosed, SnapshotHooks
        <2>4. CASE ReturnNil(p) \/ FinishHook(p)
            BY <2>4 DEF ReturnNil, FinishHook
        <2> QED BY <1>1, <2>1, <2>2, <2>3, <2>4 DEF Shutdown
    <1>2. CASE Start
        <2>1. Main \in Shutters
            BY DEF Shutters
        <2> QED BY <1>2, <2>1
                DEF Start, Listen, MarkServing, Spawn, SelectSignal, SelectError
    <1>3. ASSUME NEW p \in Shutters, Expire(p)
          PROVE  MetricsInv'
        BY <1>3 DEF Expire
    <1>4. CASE \/ Serve \/ StartMetricsServer \/ BeginScrape \/ EndScrape \/ Signal
               \/ (\E h \in Hooks : AddShutdownFunc(h))
               \/ (\E r \in Rpcs : BeginRpc(r) \/ EndRpc(r))
               \/ UNCHANGED vars
        BY <1>4 DEF Serve, ServeBegins, AcceptFails, ServeStops, StartMetricsServer,
                    BeginScrape, EndScrape, Signal, AddShutdownFunc, BeginRpc, EndRpc, vars
    <1> QED BY <1>1, <1>2, <1>3, <1>4 DEF Next

LEMMA HooksStep ==
    ASSUME TypeOK, ContextInv, HooksInv, [Next]_vars
    PROVE  HooksInv'
    <1> USE DEF TypeOK, ContextInv, AfterMark, Returned, Goto
    <1>1. ASSUME NEW h \in Hooks, AddShutdownFunc(h)
          PROVE  HooksInv'
        <2>1. /\ Len(hooks') = Len(hooks) + 1
              /\ \A i \in 1 .. Len(hooks) : hooks'[i] = hooks[i]
              /\ Len(hooks) \in Nat
            BY <1>1 DEF AddShutdownFunc
        <2>2. Elements(hooks) \subseteq Elements(hooks')
            BY <2>1 DEF Elements
        <2>3. UNCHANGED <<pc, ctx, snapshot, ran, due>>
            BY <1>1 DEF AddShutdownFunc
        <2> SUFFICES ASSUME NEW p \in Shutters
                     PROVE  /\ due[p] \subseteq Elements(hooks')
                            /\ Len(snapshot[p]) <= Len(hooks')
                            /\ \A i \in 1 .. Len(snapshot[p]) : snapshot[p][i] = hooks'[i]
            BY <2>3 DEF HooksInv
        <2>4. Len(snapshot[p]) \in Nat
            OBVIOUS
        <2> QED BY <2>1, <2>2, <2>4 DEF HooksInv
    <1>2. ASSUME NEW p \in Shutters, Shutdown(p)
          PROVE  HooksInv'
        <2>1. CASE CallShutdown(p)
            BY <2>1 DEF CallShutdown, HooksInv
        <2>2. CASE MarkNotServing(p) \/ BeginGracefulStop(p) \/ EndGracefulStop(p)
            <3>1. /\ pc[p] \notin {"hooking", "returned"}
                  /\ pc'[p] \notin {"hooking", "returned"}
                  /\ \A q \in Shutters \ {p} : pc'[q] = pc[q] /\ ctx'[q] = ctx[q]
                  /\ UNCHANGED <<hooks, snapshot, ran, due>>
                BY <2>2 DEF MarkNotServing, BeginGracefulStop, EndGracefulStop, hookVars
            <3> QED BY <3>1 DEF HooksInv
        <2>3. CASE CloseMetrics(p) \/ MetricsClosed(p)
            <3>1. /\ pc[p] \notin {"hooking", "returned"}
                  /\ pc'[p] \notin {"hooking", "returned"}
                  /\ \A q \in Shutters \ {p} : pc'[q] = pc[q] /\ ctx'[q] = ctx[q]
                  /\ UNCHANGED <<hooks, snapshot, ran, due>>
                BY <2>3 DEF CloseMetrics, MetricsClosed, hookVars
            <3> QED BY <3>1 DEF HooksInv
        <2>4. CASE SnapshotHooks(p)
            <3>1. ASSUME NEW q \in Shutters, q # p
                  PROVE  /\ pc'[q] = pc[q] /\ snapshot'[q] = snapshot[q]
                         /\ ctx'[q] = ctx[q] /\ ran'[q] = ran[q] /\ due'[q] = due[q]
                BY <2>4, <3>1 DEF SnapshotHooks
            <3>2. /\ pc'[p] = "hooking" /\ snapshot'[p] = hooks /\ due'[p] = due[p]
                  /\ hooks' = hooks
                BY <2>4 DEF SnapshotHooks
            <3>3. Len(hooks) \in Nat
                OBVIOUS
            <3> QED BY <3>1, <3>2, <3>3 DEF HooksInv
        <2>5. CASE FinishHook(p)
            <3>1. /\ pc[p] = "hooking"
                  /\ UNCHANGED <<pc, ctx, hooks, snapshot, due>>
                  /\ \A q \in Shutters \ {p} : ran'[q] = ran[q]
                BY <2>5 DEF FinishHook, InHook
            <3> QED BY <3>1 DEF HooksInv
        <2>6. CASE ReturnNil(p)
            <3>1. ran[p] = Len(snapshot[p])
                <4> snapshot[p] \in Seq(Hooks)
                    OBVIOUS
                <4>1. Len(snapshot[p]) \in Nat /\ ran[p] \in Nat /\ ran[p] <= Len(snapshot[p])
                    OBVIOUS
                <4> QED BY <2>6, <4>1 DEF ReturnNil, InHook
            <3>2. /\ pc[p] = "hooking" /\ pc'[p] = "returned"
                  /\ \A q \in Shutters \ {p} : pc'[q] = pc[q]
                  /\ UNCHANGED <<ctx, hooks, snapshot, ran, due>>
                BY <2>6 DEF ReturnNil, hookVars
            <3> QED BY <3>1, <3>2 DEF HooksInv
        <2> QED BY <1>2, <2>1, <2>2, <2>3, <2>4, <2>5, <2>6 DEF Shutdown
    <1>3. CASE Start
        <2>1. /\ Main \in Shutters
              /\ pc[Main] \in StartPc
              /\ ctx[Main] = "none"
            BY <1>3 DEF Shutters, Start, Listen, MarkServing, Spawn, SelectSignal,
                        SelectError, StartPc
        <2>2. /\ UNCHANGED <<ctx, hooks, snapshot, ran>>
              /\ \A q \in Shutters \ {Main} : pc'[q] = pc[q] /\ due'[q] = due[q]
              /\ pc'[Main] # "hooking"
              /\ due'[Main] \in {due[Main], Elements(hooks)}
            BY <1>3, <2>1 DEF Start, Listen, MarkServing, Spawn, SelectSignal,
                              SelectError, hookVars
        <2> QED BY <2>1, <2>2 DEF HooksInv, StartPc
    <1>4. ASSUME NEW p \in Shutters, Expire(p)
          PROVE  HooksInv'
        BY <1>4 DEF Expire, HooksInv, hookVars
    <1>5. CASE \/ Serve \/ StartMetricsServer \/ BeginScrape \/ EndScrape \/ Signal
               \/ (\E r \in Rpcs : BeginRpc(r) \/ EndRpc(r))
               \/ UNCHANGED vars
        BY <1>5 DEF Serve, ServeBegins, AcceptFails, ServeStops, StartMetricsServer,
                    BeginScrape, EndScrape, Signal, BeginRpc, EndRpc, vars, HooksInv, hookVars
    <1> QED BY <1>1, <1>2, <1>3, <1>4, <1>5 DEF Next

LEMMA HealthStep ==
    ASSUME TypeOK, HealthInv, [Next]_vars
    PROVE  HealthInv'
    <1> USE MainAssumption DEF TypeOK, HealthInv, AfterMark, StartPc, Alone, Shutters, Goto
    <1>1. ASSUME NEW p \in Callers, Shutdown(p)
          PROVE  HealthInv'
        <2>1. pc'[p] # "idle"
            BY <1>1 DEF Shutdown, CallShutdown, MarkNotServing, BeginGracefulStop,
                        EndGracefulStop, CloseMetrics, MetricsClosed, SnapshotHooks,
                        FinishHook, InHook, ReturnNil
        <2> QED BY <2>1
    <1>2. CASE Shutdown(Main)
        <2>1. ~CallShutdown(Main)
            BY DEF CallShutdown
        <2>2. CASE MarkNotServing(Main)
            BY <2>2 DEF MarkNotServing
        <2>3. CASE BeginGracefulStop(Main) \/ EndGracefulStop(Main)
            BY <2>3 DEF BeginGracefulStop, EndGracefulStop
        <2>4. CASE CloseMetrics(Main) \/ MetricsClosed(Main) \/ SnapshotHooks(Main)
            BY <2>4 DEF CloseMetrics, MetricsClosed, SnapshotHooks
        <2>5. CASE FinishHook(Main) \/ ReturnNil(Main)
            BY <2>5 DEF FinishHook, ReturnNil
        <2> QED BY <1>2, <2>1, <2>2, <2>3, <2>4, <2>5 DEF Shutdown
    <1>3. CASE Start
        <2>1. /\ pc[Main] \in StartPc /\ pc'[Main] \notin AfterMark
              /\ \A p \in Callers : pc'[p] = pc[p]
              /\ quit' = quit
            BY <1>3 DEF Start, Listen, MarkServing, Spawn, SelectSignal, SelectError
        <2> QED BY <2>1
    <1>4. CASE \/ Serve \/ StartMetricsServer \/ BeginScrape \/ EndScrape \/ Signal
               \/ (\E p \in Shutters : Expire(p))
               \/ (\E h \in Hooks : AddShutdownFunc(h))
               \/ (\E r \in Rpcs : BeginRpc(r) \/ EndRpc(r))
               \/ UNCHANGED vars
        <2>1. UNCHANGED <<pc, quit, health>>
            BY <1>4 DEF Serve, ServeBegins, AcceptFails, ServeStops, StartMetricsServer,
                        BeginScrape, EndScrape, Signal, Expire, AddShutdownFunc,
                        BeginRpc, EndRpc, vars
        <2> QED BY <2>1
    <1> QED BY <1>1, <1>2, <1>3, <1>4 DEF Next

-----------------------------------------------------------------------------
LEMMA IInvInit ==
    ASSUME Init
    PROVE  IInv
    <1>1. ListenerInv /\ DrainInv /\ ContextInv /\ MetricsInv
        BY MainAssumption
        DEF Init, ListenerInv, NotHandedOver, DrainInv, ContextInv, AfterMark, MetricsInv, Drained, Returned, Closed
    <1>2. HooksInv
        BY DEF Init, HooksInv, Returned, Elements
    <1>3. HealthInv
        BY DEF Init, HealthInv, AfterMark, Shutters
    <1> QED BY <1>1, <1>2, <1>3, TypeInit DEF IInv

LEMMA IInvStep ==
    ASSUME IInv, [Next]_vars
    PROVE  IInv'
    BY TypeStep, ListenerStep, DrainStep, ContextStep, MetricsStep, HooksStep, HealthStep DEF IInv

(* The inductive invariant of Start and Shutdown.                          *)
THEOREM Inductive == Spec => []IInv
    <1>1. Init => IInv
        BY IInvInit
    <1>2. IInv /\ [Next]_vars => IInv'
        BY IInvStep
    <1> QED BY <1>1, <1>2, PTL DEF Spec

(* The variables have their types in every reachable state.                *)
THEOREM TypeCorrect == Spec => []TypeOK
    <1>1. IInv => TypeOK
        BY DEF IInv
    <1> QED BY <1>1, Inductive, PTL

(* server.go:170-189: whoever calls Shutdown, and however many do, no      *)
(* shutdown function runs while an RPC is in flight.                       *)
THEOREM CleanupAfterDrain == Spec => []DrainBeforeCleanup
    <1>1. IInv => DrainBeforeCleanup
        BY DEF IInv, DrainInv, Drained, DrainBeforeCleanup
    <1> QED BY <1>1, Inductive, PTL

(* server.go:180-189: a call of Shutdown that returns has executed every   *)
(* function that was registered before it was called.                      *)
THEOREM CleanupIsComplete == Spec => []CleanupComplete
    <1>1. ASSUME IInv, NEW p \in Shutters, Returned(p)
          PROVE  due[p] \subseteq {snapshot[p][i] : i \in 1 .. ran[p]}
        BY <1>1 DEF IInv, HooksInv, Elements
    <1>2. IInv => CleanupComplete
        BY <1>1 DEF CleanupComplete, Returned
    <1> QED BY <1>2, Inductive, PTL

(* server.go:109-114 and 180-189: functions run in registration order.     *)
THEOREM CleanupInOrder == Spec => []RegistrationOrder
    <1>1. ASSUME IInv, NEW p \in Shutters
          PROVE  /\ ran[p] <= Len(hooks)
                 /\ \A i \in 1 .. ran[p] : snapshot[p][i] = hooks[i]
        <2>1. /\ ran[p] \in Nat /\ Len(snapshot[p]) \in Nat /\ Len(hooks) \in Nat
              /\ ran[p] <= Len(snapshot[p]) /\ Len(snapshot[p]) <= Len(hooks)
            BY <1>1 DEF IInv, TypeOK, HooksInv
        <2> QED BY <1>1, <2>1 DEF IInv, HooksInv
    <1>2. IInv => RegistrationOrder
        BY <1>1 DEF RegistrationOrder
    <1> QED BY <1>2, Inductive, PTL

(* server.go:120-145 and 170-178: when a Shutdown has returned, no RPC is  *)
(* in flight, the metrics server listens no more, and the gRPC listener is *)
(* open only while Start has it and Serve has still to refuse it.          *)
THEOREM NothingIsServed == Spec => []NothingListens
    <1>1. ASSUME IInv, NEW p \in Shutters, Returned(p)
          PROVE  /\ inflight = {}
                 /\ EnableMetrics => metrics = "shutdown"
                 /\ listener = "open" => NotHandedOver
        <2>1. quit /\ inflight = {}
            BY <1>1 DEF IInv, DrainInv
        <2>2. EnableMetrics => metrics = "shutdown"
            BY <1>1 DEF IInv, MetricsInv, Closed
        <2> QED BY <1>1, <2>1, <2>2 DEF IInv, ListenerInv
    <1>2. IInv => NothingListens
        <2> SUFFICES ASSUME IInv PROVE NothingListens
            OBVIOUS
        <2> QED BY <1>1 DEF NothingListens, Returned
    <1> QED BY <1>2, Inductive, PTL

(* server.go:163-171: as long as no goroutine but that of Start has called *)
(* Shutdown, the service is NOT_SERVING from before GracefulStop on.  A    *)
(* Shutdown that races with Start is exempt: see NotServingAfterShutdown.  *)
THEOREM ToldBeforeDraining == Spec => []NotServingWhileDraining
    <1>1. IInv => NotServingWhileDraining
        BY DEF IInv, HealthInv, Alone, NotServingWhileDraining
    <1> QED BY <1>1, Inductive, PTL

-----------------------------------------------------------------------------
(***************************************************************************)
(* ServerLifecycle implements ServerContract, for any number of goroutines *)
(* that call Shutdown, RPCs and shutdown functions: every step of the      *)
(* server is a step of the contract or leaves all that it speaks of.       *)
(***************************************************************************)

(* A function is registered at most once, and nil is returned at the end.  *)
NoneTwice   == \A i, j \in 1 .. Len(hooks) : hooks[i] = hooks[j] => i = j
NilIsTheEnd == result = "nil" => pc[Main] = "returned"

CInv == IInv /\ RegistrationOrder /\ NoneTwice /\ NilIsTheEnd

LEMMA Numbers ==
    ASSUME NEW n \in Nat
    PROVE  IsFiniteSet(1 .. n) /\ Cardinality(1 .. n) = n
    BY FS_Interval

LEMMA HooksLength ==
    ASSUME TypeOK
    PROVE  /\ Len(hooks) \in Nat
           /\ IsFiniteSet(Executed) /\ Cardinality(Executed) \in Nat
    <1>1. Len(hooks) \in Nat
        BY DEF TypeOK
    <1>2. IsFiniteSet(1 .. Len(hooks))
        BY <1>1, Numbers
    <1>3. Executed \subseteq 1 .. Len(hooks)
        BY DEF Executed
    <1> QED BY <1>1, <1>2, <1>3, FS_Subset, FS_CardinalityType

(* As many functions are registered as the list is long.                   *)
LEMMA NumberOfHooks ==
    ASSUME TypeOK, NoneTwice
    PROVE  Cardinality(Elements(hooks)) = Len(hooks)
    <1> DEFINE nth == [i \in 1 .. Len(hooks) |-> hooks[i]]
    <1>1. Len(hooks) \in Nat
        BY DEF TypeOK
    <1>2. nth \in Bijection(1 .. Len(hooks), Elements(hooks))
        <2>1. nth \in [1 .. Len(hooks) -> Elements(hooks)]
            BY DEF Elements
        <2>2. \A i, j \in 1 .. Len(hooks) : nth[i] = nth[j] => i = j
            BY DEF NoneTwice
        <2>3. \A e \in Elements(hooks) : \E i \in 1 .. Len(hooks) : nth[i] = e
            BY DEF Elements
        <2> HIDE DEF nth
        <2> QED BY <2>1, <2>2, <2>3 DEF Bijection, Injection, Surjection, IsInjective
    <1>3. IsFiniteSet(1 .. Len(hooks)) /\ Cardinality(1 .. Len(hooks)) = Len(hooks)
        BY <1>1, Numbers
    <1> HIDE DEF nth
    <1> QED BY <1>2, <1>3, FS_Bijection DEF ExistsBijection

(* Those that were due have been executed when a call returns.             *)
LEMMA DueIsExecuted ==
    ASSUME CInv, NEW p \in Shutters, pc[p] = "hooking", ~InHook(p)
    PROVE  Cardinality(due[p]) <= Cardinality(Executed)
    <1>1. /\ ran[p] \in Nat /\ Len(hooks) \in Nat /\ ran[p] <= Len(hooks)
          /\ ran[p] = Len(snapshot[p])
          /\ \A i \in 1 .. ran[p] : snapshot[p][i] = hooks[i]
          /\ due[p] \subseteq Elements(snapshot[p])
        <2>1. /\ ran[p] \in Nat /\ Len(hooks) \in Nat /\ Len(snapshot[p]) \in Nat
              /\ ran[p] <= Len(snapshot[p])
            BY DEF CInv, IInv, TypeOK
        <2>2. ran[p] = Len(snapshot[p])
            BY <2>1 DEF InHook
        <2>3. ran[p] <= Len(hooks) /\ \A i \in 1 .. ran[p] : snapshot[p][i] = hooks[i]
            BY DEF CInv, RegistrationOrder
        <2>4. due[p] \subseteq Elements(snapshot[p])
            BY DEF CInv, IInv, HooksInv
        <2> QED BY <2>1, <2>2, <2>3, <2>4
    <1> DEFINE first == {hooks[i] : i \in 1 .. ran[p]}
    <1> DEFINE nth == [i \in 1 .. ran[p] |-> hooks[i]]
    <1>2. due[p] \subseteq first
        <2> SUFFICES ASSUME NEW e \in due[p] PROVE e \in first
            OBVIOUS
        <2>1. PICK i \in 1 .. Len(snapshot[p]) : e = snapshot[p][i]
            BY <1>1 DEF Elements
        <2>2. i \in 1 .. ran[p]
            BY <1>1
        <2>3. e = hooks[i]
            BY <1>1, <2>1, <2>2
        <2> QED BY <2>2, <2>3
    <1>3. IsFiniteSet(1 .. ran[p]) /\ Cardinality(1 .. ran[p]) = ran[p]
        BY <1>1, Numbers
    <1>4. nth \in Surjection(1 .. ran[p], first)
        <2>1. nth \in [1 .. ran[p] -> first]
            OBVIOUS
        <2>2. \A e \in first : \E i \in 1 .. ran[p] : nth[i] = e
            OBVIOUS
        <2> HIDE DEF nth, first
        <2> QED BY <2>1, <2>2 DEF Surjection
    <1>5. IsFiniteSet(first) /\ Cardinality(first) <= ran[p]
        <2> HIDE DEF first, nth
        <2> QED BY <1>3, <1>4, FS_Surjection
    <1>6. /\ IsFiniteSet(due[p]) /\ Cardinality(due[p]) <= Cardinality(first)
          /\ Cardinality(due[p]) \in Nat /\ Cardinality(first) \in Nat
        <2> HIDE DEF first
        <2> QED BY <1>2, <1>5, FS_Subset, FS_CardinalityType
    <1>7. 1 .. ran[p] \subseteq Executed
        BY <1>1 DEF Executed
    <1>8. ran[p] <= Cardinality(Executed) /\ Cardinality(Executed) \in Nat
        BY <1>3, <1>7, HooksLength, FS_Subset DEF CInv, IInv
    <1> HIDE DEF first
    <1> QED BY <1>1, <1>5, <1>6, <1>8

-----------------------------------------------------------------------------
(* Steps that leave the functions alone execute none.                      *)
LEMMA SameExecuted ==
    ASSUME TypeOK, RegistrationOrder, UNCHANGED ran,
           UNCHANGED hooks \/ \E h \in Hooks : AddShutdownFunc(h)
    PROVE  Executed' = Executed
    <1>1. CASE UNCHANGED hooks
        BY <1>1 DEF Executed
    <1>2. ASSUME NEW h \in Hooks, AddShutdownFunc(h)
          PROVE  Executed' = Executed
        <2>1. Len(hooks) \in Nat /\ Len(hooks') = Len(hooks) + 1
            BY <1>2 DEF AddShutdownFunc, TypeOK
        <2>2. \A p \in Shutters : ran[p] \in Nat /\ ran[p] <= Len(hooks)
            BY DEF TypeOK, RegistrationOrder
        <2>3. \A i \in 1 .. Len(hooks') : (\E p \in Shutters : i <= ran[p]) =>
                                              i \in 1 .. Len(hooks)
            BY <2>1, <2>2
        <2>4. 1 .. Len(hooks) \subseteq 1 .. Len(hooks')
            BY <2>1
        <2>5. ran' = ran
            OBVIOUS
        <2> QED BY <2>3, <2>4, <2>5 DEF Executed
    <1> QED BY <1>1, <1>2

(* A call that executes its next function executes it for the server, or   *)
(* another call had.                                                       *)
LEMMA FinishHookExecutes ==
    ASSUME CInv, NEW p \in Shutters, FinishHook(p)
    PROVE  /\ UNCHANGED <<quit, inflight, hooks, due, result>>
           /\ quit /\ inflight = {}
           /\ \/ Executed' = Executed
              \/ /\ Cardinality(Executed) < Len(hooks)
                 /\ Cardinality(Executed') = Cardinality(Executed) + 1
    <1>1. /\ UNCHANGED <<quit, inflight, hooks, due, result>>
          /\ pc[p] = "hooking" /\ ran[p] < Len(snapshot[p])
          /\ ran' = [ran EXCEPT ![p] = @ + 1]
        BY DEF FinishHook, InHook, rpcVars
    <1>2. quit /\ inflight = {}
        BY <1>1 DEF CInv, IInv, DrainInv, Drained
    <1>3. /\ ran \in [Shutters -> Nat] /\ Len(hooks) \in Nat
          /\ ran[p] + 1 \in 1 .. Len(hooks)
        <2>1. Len(snapshot[p]) \in Nat /\ Len(hooks) \in Nat /\ Len(snapshot[p]) <= Len(hooks)
            BY DEF CInv, IInv, TypeOK, HooksInv
        <2> QED BY <1>1, <2>1 DEF CInv, IInv, TypeOK
    <1>4. Executed' = Executed \cup {ran[p] + 1}
        <2>1. /\ \A q \in Shutters \ {p} : ran'[q] = ran[q]
              /\ ran'[p] = ran[p] + 1 /\ hooks' = hooks
            BY <1>1, <1>3
        <2>2. ASSUME NEW i \in 1 .. Len(hooks)
              PROVE  (\E q \in Shutters : i <= ran'[q])
                         <=> (\E q \in Shutters : i <= ran[q]) \/ i = ran[p] + 1
            <3>1. i <= ran'[p] <=> i <= ran[p] \/ i = ran[p] + 1
                BY <1>3, <2>1
            <3> QED BY <2>1, <3>1
        <2>3. Executed' = {i \in 1 .. Len(hooks) : \E q \in Shutters : i <= ran'[q]}
            BY <2>1 DEF Executed
        <2> QED BY <1>3, <2>2, <2>3 DEF Executed
    <1>5. CASE ran[p] + 1 \in Executed
        BY <1>1, <1>2, <1>4, <1>5
    <1>6. CASE ran[p] + 1 \notin Executed
        <2>1. IsFiniteSet(Executed) /\ Cardinality(Executed) \in Nat
            BY HooksLength DEF CInv, IInv
        <2>2. Cardinality(Executed') = Cardinality(Executed) + 1
            BY <1>4, <1>6, <2>1, FS_AddElement
        <2>3. Executed' \subseteq 1 .. Len(hooks)
            BY <1>3, <1>4 DEF Executed
        <2>4. IsFiniteSet(1 .. Len(hooks)) /\ Cardinality(1 .. Len(hooks)) = Len(hooks)
            BY <1>3, Numbers
        <2>5. Cardinality(Executed') <= Len(hooks)
            BY <2>3, <2>4, FS_Subset
        <2>6. Cardinality(Executed) < Len(hooks)
            BY <1>3, <2>1, <2>2, <2>5
        <2> QED BY <1>1, <1>2, <2>2, <2>6
    <1> QED BY <1>5, <1>6

-----------------------------------------------------------------------------
LEMMA CInvInit ==
    ASSUME Init
    PROVE  NoneTwice /\ NilIsTheEnd
    BY DEF Init, NoneTwice, NilIsTheEnd

LEMMA NoneTwiceStep ==
    ASSUME TypeOK, NoneTwice, [Next]_vars
    PROVE  NoneTwice'
    <1>1. ASSUME NEW h \in Hooks, AddShutdownFunc(h)
          PROVE  NoneTwice'
        <2>1. /\ Len(hooks) \in Nat /\ Len(hooks') = Len(hooks) + 1
              /\ \A i \in 1 .. Len(hooks) : hooks'[i] = hooks[i]
              /\ hooks'[Len(hooks) + 1] = h
            BY <1>1 DEF AddShutdownFunc, TypeOK
        <2>2. \A i \in 1 .. Len(hooks) : hooks[i] # h
            BY <1>1 DEF AddShutdownFunc, Elements
        <2> SUFFICES ASSUME NEW i \in 1 .. Len(hooks) + 1, NEW j \in 1 .. Len(hooks) + 1,
                            hooks'[i] = hooks'[j]
                     PROVE  i = j
            BY <2>1 DEF NoneTwice
        <2>3. CASE i \in 1 .. Len(hooks) /\ j \in 1 .. Len(hooks)
            BY <2>1, <2>3 DEF NoneTwice
        <2>4. CASE i = Len(hooks) + 1 \/ j = Len(hooks) + 1
            BY <2>1, <2>2, <2>4
        <2> QED BY <2>1, <2>3, <2>4
    <1>2. CASE Start \/ Serve
        BY <1>2 DEF Start, Listen, MarkServing, Spawn, SelectSignal, SelectError,
                    Serve, ServeBegins, AcceptFails, ServeStops, NoneTwice, hookVars
    <1>3. ASSUME NEW p \in Shutters, Shutdown(p) \/ Expire(p)
          PROVE  NoneTwice'
        <2>1. hooks' = hooks
            BY <1>3 DEF Shutdown, CallShutdown, MarkNotServing, BeginGracefulStop,
                        EndGracefulStop, CloseMetrics, MetricsClosed, SnapshotHooks,
                        FinishHook, ReturnNil, Expire, hookVars
        <2> QED BY <2>1 DEF NoneTwice
    <1>4. CASE \/ StartMetricsServer \/ BeginScrape \/ EndScrape \/ Signal
               \/ (\E r \in Rpcs : BeginRpc(r) \/ EndRpc(r))
               \/ UNCHANGED vars
        BY <1>4 DEF StartMetricsServer, BeginScrape, EndScrape, Signal, BeginRpc, EndRpc,
                    vars, NoneTwice, hookVars
    <1> QED BY <1>1, <1>2, <1>3, <1>4 DEF Next

LEMMA NilStep ==
    ASSUME TypeOK, NilIsTheEnd, [Next]_vars
    PROVE  NilIsTheEnd'
    <1> USE DEF NilIsTheEnd, Goto
    <1>1. pc \in [Shutters -> {"idle"} \cup StartPc \cup ShutdownPc] /\ Main \in Shutters
        BY DEF TypeOK, Shutters
    <1>2. CASE Start
        BY <1>1, <1>2 DEF Start, Listen, MarkServing, Spawn, SelectSignal, SelectError
    <1>3. ASSUME NEW p \in Shutters, Shutdown(p)
          PROVE  NilIsTheEnd'
        <2>1. CASE ReturnNil(p)
            BY <1>1, <2>1 DEF ReturnNil
        <2>2. CASE CallShutdown(p) \/ MarkNotServing(p) \/ BeginGracefulStop(p) \/ EndGracefulStop(p)
            BY <1>1, <2>2 DEF CallShutdown, MarkNotServing, BeginGracefulStop, EndGracefulStop
        <2>3. CASE CloseMetrics(p) \/ MetricsClosed(p) \/ SnapshotHooks(p) \/ FinishHook(p)
            BY <1>1, <2>3 DEF CloseMetrics, MetricsClosed, SnapshotHooks, FinishHook
        <2> QED BY <1>3, <2>1, <2>2, <2>3 DEF Shutdown
    <1>4. CASE \/ Serve \/ StartMetricsServer \/ BeginScrape \/ EndScrape \/ Signal
               \/ (\E p \in Shutters : Expire(p))
               \/ (\E h \in Hooks : AddShutdownFunc(h))
               \/ (\E r \in Rpcs : BeginRpc(r) \/ EndRpc(r))
               \/ UNCHANGED vars
        <2>1. UNCHANGED <<pc, result>>
            BY <1>4 DEF Serve, ServeBegins, AcceptFails, ServeStops, StartMetricsServer,
                        BeginScrape, EndScrape, Signal, Expire, AddShutdownFunc,
                        BeginRpc, EndRpc, vars
        <2> QED BY <2>1
    <1> QED BY <1>2, <1>3, <1>4 DEF Next

(* The invariant holds throughout.                                         *)
THEOREM ContractInvariant == Spec => []CInv
    <1>1. Init => NoneTwice /\ NilIsTheEnd
        BY CInvInit
    <1>2. IInv /\ NoneTwice /\ NilIsTheEnd /\ [Next]_vars => (NoneTwice /\ NilIsTheEnd)'
        BY NoneTwiceStep, NilStep DEF IInv
    <1>3. Spec => [](NoneTwice /\ NilIsTheEnd)
        BY <1>1, <1>2, Inductive, PTL DEF Spec
    <1>4. IInv /\ RegistrationOrder /\ NoneTwice /\ NilIsTheEnd => CInv
        BY DEF CInv
    <1> QED BY <1>3, <1>4, Inductive, CleanupInOrder, PTL

-----------------------------------------------------------------------------
(* A step that leaves what the contract speaks of is one that stutters.    *)
LEMMA Stutter ==
    ASSUME UNCHANGED <<quit, inflight, hooks>>, due'[Main] = due[Main], Executed' = Executed,
           result' = "nil" <=> result = "nil"
    PROVE  UNCHANGED Contract!vars
    BY DEF Contract!vars

LEMMA StartSteps ==
    ASSUME CInv, Start
    PROVE  [Contract!Next]_(Contract!vars)
    <1>1. /\ TypeOK /\ RegistrationOrder /\ NoneTwice /\ NilIsTheEnd
          /\ Main \in Shutters
        BY DEF CInv, IInv, Shutters
    <1>2. UNCHANGED <<quit, inflight, hooks, ran>>
        BY DEF Start, Listen, MarkServing, Spawn, SelectSignal, SelectError, rpcVars, hookVars
    <1>3. Executed' = Executed
        BY <1>1, <1>2, SameExecuted
    <1>4. CASE SelectSignal
        <2>1. due'[Main] = Elements(hooks) /\ result' = result
            BY <1>1, <1>4 DEF SelectSignal, TypeOK
        <2>2. Cardinality(due'[Main]) = Len(hooks)
            BY <1>1, <2>1, NumberOfHooks
        <2>3. Contract!Summon
            BY <1>2, <1>3, <2>1, <2>2 DEF Contract!Summon
        <2> QED BY <2>3 DEF Contract!Next
    <1>5. CASE Listen \/ MarkServing \/ Spawn \/ SelectError
        <2>1. due' = due
            BY <1>5 DEF Listen, MarkServing, Spawn, SelectError, hookVars
        <2>2. pc[Main] # "returned" /\ result' \in {result, "error"}
            BY <1>5 DEF Listen, MarkServing, Spawn, SelectError, Goto
        <2>3. result' = "nil" <=> result = "nil"
            BY <1>1, <2>2 DEF NilIsTheEnd
        <2> QED BY <1>2, <1>3, <2>1, <2>3, Stutter
    <1> QED BY <1>4, <1>5 DEF Start

LEMMA ShutdownSteps ==
    ASSUME CInv, NEW p \in Shutters, Shutdown(p)
    PROVE  [Contract!Next]_(Contract!vars)
    <1>1. /\ TypeOK /\ RegistrationOrder /\ NilIsTheEnd
          /\ Main \in Shutters
        BY DEF CInv, IInv, Shutters
    <1>2. CASE FinishHook(p)
        <2>1. /\ UNCHANGED <<quit, inflight, hooks, due, result>>
              /\ quit /\ inflight = {}
              /\ \/ Executed' = Executed
                 \/ /\ Cardinality(Executed) < Len(hooks)
                    /\ Cardinality(Executed') = Cardinality(Executed) + 1
            BY <1>2, FinishHookExecutes
        <2>2. CASE Executed' = Executed
            BY <2>1, <2>2, Stutter
        <2>3. CASE /\ Cardinality(Executed) < Len(hooks)
                   /\ Cardinality(Executed') = Cardinality(Executed) + 1
            <3>1. Contract!Clean
                BY <2>1, <2>3 DEF Contract!Clean, Contract!Drained
            <3> QED BY <3>1 DEF Contract!Next
        <2> QED BY <2>1, <2>2, <2>3
    <1>3. CASE ~FinishHook(p)
        <2>1. UNCHANGED <<inflight, hooks, ran>>
            BY <1>3 DEF Shutdown, CallShutdown, MarkNotServing, BeginGracefulStop,
                        EndGracefulStop, CloseMetrics, MetricsClosed, SnapshotHooks,
                        ReturnNil, rpcVars, hookVars
        <2>2. Executed' = Executed
            BY <1>1, <2>1, SameExecuted
        <2>3. CASE BeginGracefulStop(p)
            <3>1. quit' = TRUE /\ UNCHANGED <<due, result>>
                BY <2>3 DEF BeginGracefulStop, hookVars
            <3>2. Contract!Quit
                BY <2>1, <2>2, <3>1 DEF Contract!Quit
            <3> QED BY <3>2 DEF Contract!Next
        <2>4. CASE ReturnNil(p)
            <3>1. /\ pc[p] = "hooking" /\ ~InHook(p)
                  /\ result' = IF p = Main THEN "nil" ELSE result
                  /\ UNCHANGED <<quit, due>>
                BY <2>4 DEF ReturnNil, Goto, hookVars
            <3>2. CASE p = Main
                <4>1. quit /\ inflight = {}
                    BY <3>1 DEF CInv, IInv, DrainInv, Drained
                <4>2. Cardinality(due[Main]) <= Cardinality(Executed)
                    BY <3>1, <3>2, DueIsExecuted
                <4>3. Contract!Finish
                    BY <2>1, <2>2, <3>1, <3>2, <4>1, <4>2 DEF Contract!Finish, Contract!Drained
                <4> QED BY <4>3 DEF Contract!Next
            <3>3. CASE p # Main
                BY <2>1, <2>2, <3>1, <3>3, Stutter
            <3> QED BY <3>2, <3>3
        <2>5. CASE \/ CallShutdown(p) \/ MarkNotServing(p) \/ EndGracefulStop(p)
                   \/ CloseMetrics(p) \/ MetricsClosed(p) \/ SnapshotHooks(p)
            <3>1. UNCHANGED <<quit, result>>
                BY <2>5 DEF CallShutdown, MarkNotServing, EndGracefulStop, CloseMetrics,
                            MetricsClosed, SnapshotHooks
            <3>2. due'[Main] = due[Main]
                <4>1. CASE CallShutdown(p)
                    BY <1>1, <4>1, MainAssumption DEF CallShutdown, TypeOK
                <4>2. CASE ~CallShutdown(p)
                    BY <2>5, <4>2 DEF MarkNotServing, EndGracefulStop, CloseMetrics,
                                      MetricsClosed, SnapshotHooks, hookVars
                <4> QED BY <4>1, <4>2
            <3> QED BY <2>1, <2>2, <3>1, <3>2, Stutter
        <2> QED BY <1>3, <2>3, <2>4, <2>5 DEF Shutdown
    <1> QED BY <1>2, <1>3

LEMMA OtherSteps ==
    ASSUME CInv,
           \/ Serve \/ StartMetricsServer \/ BeginScrape \/ EndScrape \/ Signal
           \/ \E p \in Shutters : Expire(p)
           \/ \E h \in Hooks : AddShutdownFunc(h)
           \/ \E r \in Rpcs : BeginRpc(r) \/ EndRpc(r)
           \/ UNCHANGED vars
    PROVE  [Contract!Next]_(Contract!vars)
    <1>1. TypeOK /\ ListenerInv /\ RegistrationOrder
        BY DEF CInv, IInv
    <1>2. UNCHANGED <<quit, ran, due, result>>
        BY DEF Serve, ServeBegins, AcceptFails, ServeStops, StartMetricsServer, BeginScrape,
               EndScrape, Signal, Expire, AddShutdownFunc, BeginRpc, EndRpc, vars, hookVars
    <1>3. ASSUME NEW h \in Hooks, AddShutdownFunc(h)
          PROVE  Contract!Next
        <2>1. hooks' = Append(hooks, h) /\ inflight' = inflight
            BY <1>3 DEF AddShutdownFunc, rpcVars
        <2>2. Executed' = Executed
            BY <1>1, <1>2, <1>3, SameExecuted
        <2>3. Contract!Register(h)
            BY <1>2, <2>1, <2>2 DEF Contract!Register
        <2> QED BY <2>3 DEF Contract!Next
    <1>4. ASSUME NEW r \in Rpcs, BeginRpc(r) \/ EndRpc(r)
          PROVE  Contract!Next
        <2>1. hooks' = hooks
            BY <1>4 DEF BeginRpc, EndRpc, hookVars
        <2>2. Executed' = Executed
            BY <1>1, <1>2, <2>1, SameExecuted
        <2>3. Contract!Begin(r) \/ Contract!End(r)
            BY <1>1, <1>2, <1>4, <2>1, <2>2
            DEF BeginRpc, EndRpc, Accepting, ListenerInv, Contract!Begin, Contract!End
        <2> QED BY <2>3 DEF Contract!Next
    <1>5. CASE \/ Serve \/ StartMetricsServer \/ BeginScrape \/ EndScrape \/ Signal
               \/ (\E p \in Shutters : Expire(p))
               \/ UNCHANGED vars
        <2>1. UNCHANGED <<inflight, hooks>>
            BY <1>5 DEF Serve, ServeBegins, AcceptFails, ServeStops, StartMetricsServer,
                        BeginScrape, EndScrape, Signal, Expire, vars, rpcVars, hookVars
        <2>2. Executed' = Executed
            BY <1>1, <1>2, <2>1, SameExecuted
        <2> QED BY <1>2, <2>1, <2>2, Stutter
    <1> QED BY <1>3, <1>4, <1>5

(* The contract that Service builds on is kept: handlers are served until  *)
(* the server quits, functions are executed behind the last of them, each  *)
(* behind the one registered before it, and nil is returned behind all     *)
(* that were registered when the signal came.                              *)
THEOREM ContractKept == Spec => ImplementsContract
    <1>1. Init => Contract!Init
        <2> SUFFICES ASSUME Init PROVE Contract!Init
            OBVIOUS
        <2>1. hooks = <<>> /\ Len(hooks) = 0
            BY DEF Init
        <2>2. Executed = {}
            BY <2>1 DEF Executed
        <2>3. due[Main] = {}
            BY DEF Init, Shutters
        <2>4. Cardinality(Executed) = 0 /\ Cardinality(due[Main]) = 0
            BY <2>2, <2>3, FS_EmptySet
        <2> QED BY <2>1, <2>4 DEF Init, Contract!Init
    <1>2. CInv /\ [Next]_vars => [Contract!Next]_(Contract!vars)
        BY StartSteps, ShutdownSteps, OtherSteps DEF Next
    <1> QED BY <1>1, <1>2, ContractInvariant, PTL DEF Spec, ImplementsContract, Contract!Spec
=============================================================================
