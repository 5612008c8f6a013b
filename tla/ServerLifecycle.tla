-------------------------- MODULE ServerLifecycle --------------------------
(***************************************************************************)
(* The life of a Server of pkg/server/server.go, from New to the return of *)
(* Start: the goroutine in Start, the two goroutines it spawns (Serve and  *)
(* the metrics server), goroutines that call Shutdown themselves, as the   *)
(* tests do, goroutines that register shutdown functions, the signals of   *)
(* the operating system, and the RPCs in flight.                           *)
(*                                                                         *)
(* grpc.Server and http.Server are libraries: they are modelled by the     *)
(* states that their calls in server.go observe.                           *)
(***************************************************************************)
EXTENDS Integers, Sequences, FiniteSets

CONSTANTS
    Main,          \* the goroutine that runs Start
    Callers,       \* other goroutines that call Shutdown
    Rpcs,          \* RPCs that clients may start, one handler each
    Hooks,         \* shutdown functions that may be registered
    EnableMetrics  \* config.EnableMetrics

ASSUME MainAssumption == Main \notin Callers
ASSUME MetricsAssumption == EnableMetrics \in BOOLEAN

VARIABLES
    pc,          \* progress of each goroutine through Start and Shutdown
    result,      \* what Start returned, if it has
    health,      \* status of config.ServiceName in healthServer
    signalled,   \* a signal is buffered in sigChan (capacity 1)
    errChan,     \* an error is buffered in errChan (capacity 1)
    listener,    \* the listener that net.Listen returned to Start
    serve,       \* progress of the goroutine that calls grpcServer.Serve
    quit,        \* grpcServer.GracefulStop has been called
    inflight,    \* RPCs whose handler is running
    finished,    \* RPCs whose handler has returned
    metrics,     \* progress of metricsServer
    scraping,    \* a request to metricsServer is being answered
    ctx,         \* the context of each call of Shutdown
    hooks,       \* s.shutdownFuncs
    snapshot,    \* the local variable shutdownFuncs of each call of Shutdown
    ran,         \* how many of them that call has executed
    due          \* history: hooks registered when that call began

rpcVars   == <<inflight, finished>>
serveVars == <<listener, serve>>
hookVars  == <<hooks, snapshot, ran, due>>
vars == <<pc, result, health, signalled, errChan, serveVars, quit, rpcVars,
          metrics, scraping, ctx, hookVars>>

Shutters == Callers \cup {Main}

(* Where Start is before it selects, and where a call of Shutdown is.      *)
StartPc    == {"new", "listening", "marked", "selecting"}
ShutdownPc == {"shutdown", "notServing", "stopping", "drained", "closing",
               "closed", "hooking", "returned"}

TypeOK ==
    /\ pc \in [Shutters -> {"idle"} \cup StartPc \cup ShutdownPc]
    /\ result \in {"none", "nil", "error"}
    /\ health \in {"unknown", "SERVING", "NOT_SERVING"}
    /\ signalled \in BOOLEAN
    /\ errChan \in BOOLEAN
    /\ listener \in {"none", "open", "closed"}
    /\ serve \in {"unborn", "spawned", "accepting", "returned"}
    /\ quit \in BOOLEAN
    /\ inflight \subseteq Rpcs
    /\ finished \subseteq Rpcs \ inflight
    /\ metrics \in {"configured", "spawned", "listening", "shutdown"}
    /\ scraping \in BOOLEAN
    /\ ctx \in [Shutters -> {"none", "live", "expired"}]
    /\ hooks \in Seq(Hooks)
    /\ snapshot \in [Shutters -> Seq(Hooks)]
    /\ ran \in [Shutters -> Nat]
    /\ \A p \in Shutters : ran[p] <= Len(snapshot[p])
    /\ due \in [Shutters -> SUBSET Hooks]

Elements(s) == {s[i] : i \in 1 .. Len(s)}

(* New.                                                                    *)
Init ==
    /\ pc = [p \in Shutters |-> IF p = Main THEN "new" ELSE "idle"]
    /\ result = "none"
    /\ health = "unknown"
    /\ signalled = FALSE
    /\ errChan = FALSE
    /\ listener = "none"
    /\ serve = "unborn"
    /\ quit = FALSE
    /\ inflight = {}
    /\ finished = {}
    /\ metrics = "configured"
    /\ scraping = FALSE
    /\ ctx = [p \in Shutters |-> "none"]
    /\ hooks = <<>>
    /\ snapshot = [p \in Shutters |-> <<>>]
    /\ ran = [p \in Shutters |-> 0]
    /\ due = [p \in Shutters |-> {}]

Goto(p, from, to) ==
    /\ pc[p] = from
    /\ pc' = [pc EXCEPT ![p] = to]

(* Mutant of AddShutdownFunc: the newest function comes first.             *)
AddShutdownFunc_Prepends(h) ==
    /\ h \notin Elements(hooks)
    /\ hooks' = <<h>> \o hooks
    /\ UNCHANGED <<pc, result, health, signalled, errChan, serveVars, quit, rpcVars,
                   metrics, scraping, ctx, snapshot, ran, due>>

(* AddShutdownFunc appends under s.mu, at any time and from any goroutine. *)
AddShutdownFunc(h) ==
    /\ h \notin Elements(hooks)
    /\ hooks' = Append(hooks, h)
    /\ UNCHANGED <<pc, result, health, signalled, errChan, serveVars, quit, rpcVars,
                   metrics, scraping, ctx, snapshot, ran, due>>

-----------------------------------------------------------------------------
(* Start: net.Listen, which may fail ...                                   *)
Listen ==
    /\ \/ /\ Goto(Main, "new", "listening")
          /\ listener' = "open"
          /\ UNCHANGED result
       \/ /\ Goto(Main, "new", "returned")
          /\ result' = "error"
          /\ UNCHANGED listener
    /\ UNCHANGED <<health, signalled, errChan, serve, quit, rpcVars, metrics,
                   scraping, ctx, hookVars>>

(* ... SetServingStatus(SERVING) ...                                       *)
MarkServing ==
    /\ Goto(Main, "listening", "marked")
    /\ health' = "SERVING"
    /\ UNCHANGED <<result, signalled, errChan, serveVars, quit, rpcVars, metrics,
                   scraping, ctx, hookVars>>

(* Mutant of Spawn: the metrics server is made anew by Start.              *)
Spawn_NewMetricsServer ==
    /\ Goto(Main, "marked", "selecting")
    /\ serve' = "spawned"
    /\ metrics' = IF EnableMetrics THEN "spawned" ELSE metrics
    /\ UNCHANGED <<result, health, signalled, errChan, listener, quit, rpcVars,
                   scraping, ctx, hookVars>>

(* ... the two goroutines and signal.Notify ...                            *)
Spawn ==
    /\ Goto(Main, "marked", "selecting")
    /\ serve' = "spawned"
    /\ metrics' = IF EnableMetrics /\ metrics = "configured" THEN "spawned" ELSE metrics
    /\ UNCHANGED <<result, health, signalled, errChan, listener, quit, rpcVars,
                   scraping, ctx, hookVars>>

(* ... and the select: a signal leads to Shutdown, an error is returned.   *)
SelectSignal ==
    /\ signalled
    /\ Goto(Main, "selecting", "shutdown")
    /\ signalled' = FALSE
    /\ due' = [due EXCEPT ![Main] = Elements(hooks)]
    /\ UNCHANGED <<result, health, errChan, serveVars, quit, rpcVars, metrics,
                   scraping, ctx, hooks, snapshot, ran>>

SelectError ==
    /\ errChan
    /\ Goto(Main, "selecting", "returned")
    /\ errChan' = FALSE
    /\ result' = "error"
    /\ UNCHANGED <<health, signalled, serveVars, quit, rpcVars, metrics, scraping,
                   ctx, hookVars>>

-----------------------------------------------------------------------------
(* Shutdown, called from Start or by another goroutine.                    *)
CallShutdown(p) ==
    /\ p \in Callers
    /\ Goto(p, "idle", "shutdown")
    /\ due' = [due EXCEPT ![p] = Elements(hooks)]
    /\ UNCHANGED <<result, health, signalled, errChan, serveVars, quit, rpcVars,
                   metrics, scraping, ctx, hooks, snapshot, ran>>

(* Mutant of MarkNotServing: the status is not touched.                    *)
MarkNotServing_Forgotten(p) ==
    /\ Goto(p, "shutdown", "notServing")
    /\ ctx' = [ctx EXCEPT ![p] = "live"]
    /\ UNCHANGED <<result, health, signalled, errChan, serveVars, quit, rpcVars, metrics,
                   scraping, hookVars>>

(* SetServingStatus(NOT_SERVING) and context.WithTimeout ...               *)
MarkNotServing(p) ==
    /\ Goto(p, "shutdown", "notServing")
    /\ health' = "NOT_SERVING"
    /\ ctx' = [ctx EXCEPT ![p] = "live"]
    /\ UNCHANGED <<result, signalled, errChan, serveVars, quit, rpcVars, metrics,
                   scraping, hookVars>>

(* Mutant of BeginGracefulStop: only the first call stops and waits.       *)
BeginGracefulStop_FirstOnly(p) ==
    /\ Goto(p, "notServing", IF quit THEN "drained" ELSE "stopping")
    /\ quit' = TRUE
    /\ listener' = IF serve = "accepting" THEN "closed" ELSE listener
    /\ UNCHANGED <<result, health, signalled, errChan, serve, rpcVars, metrics,
                   scraping, ctx, hookVars>>

(* ... GracefulStop closes the listeners that Serve has been given, and    *)
(* drains the transports ...                                               *)
BeginGracefulStop(p) ==
    /\ Goto(p, "notServing", "stopping")
    /\ quit' = TRUE
    /\ listener' = IF serve = "accepting" THEN "closed" ELSE listener
    /\ UNCHANGED <<result, health, signalled, errChan, serve, rpcVars, metrics,
                   scraping, ctx, hookVars>>

(* ... and returns when no RPC is left; ctx does not bound this wait ...   *)
EndGracefulStop(p) ==
    /\ inflight = {}
    /\ Goto(p, "stopping", "drained")
    /\ UNCHANGED <<result, health, signalled, errChan, serveVars, quit, rpcVars,
                   metrics, scraping, ctx, hookVars>>

(* ... metricsServer.Shutdown(ctx) closes the listener, now or before      *)
(* ListenAndServe opens it ...                                             *)
CloseMetrics(p) ==
    /\ Goto(p, "drained", IF EnableMetrics THEN "closing" ELSE "closed")
    /\ metrics' = IF EnableMetrics THEN "shutdown" ELSE metrics
    /\ UNCHANGED <<result, health, signalled, errChan, serveVars, quit, rpcVars,
                   scraping, ctx, hookVars>>

(* Mutant of MetricsClosed: Shutdown(context.Background()).                *)
MetricsClosed_NoTimeout(p) ==
    /\ ~scraping
    /\ Goto(p, "closing", "closed")
    /\ UNCHANGED <<result, health, signalled, errChan, serveVars, quit, rpcVars,
                   metrics, scraping, ctx, hookVars>>

(* ... and waits for requests being answered until ctx expires ...         *)
MetricsClosed(p) ==
    /\ ~scraping \/ ctx[p] = "expired"
    /\ Goto(p, "closing", "closed")
    /\ UNCHANGED <<result, health, signalled, errChan, serveVars, quit, rpcVars,
                   metrics, scraping, ctx, hookVars>>

(* Mutant of SnapshotHooks: the functions are taken away, to run once.     *)
SnapshotHooks_TakesThem(p) ==
    /\ Goto(p, "closed", "hooking")
    /\ snapshot' = [snapshot EXCEPT ![p] = hooks]
    /\ hooks' = <<>>
    /\ UNCHANGED <<result, health, signalled, errChan, serveVars, quit, rpcVars,
                   metrics, scraping, ctx, ran, due>>

(* ... s.shutdownFuncs is copied under s.mu ...                            *)
SnapshotHooks(p) ==
    /\ Goto(p, "closed", "hooking")
    /\ snapshot' = [snapshot EXCEPT ![p] = hooks]
    /\ UNCHANGED <<result, health, signalled, errChan, serveVars, quit, rpcVars,
                   metrics, scraping, ctx, hooks, ran, due>>

(* Mutant of InHook: the loop runs once too often.                         *)
InHook_OffByOne(p) == pc[p] = "hooking" /\ ran[p] <= Len(snapshot[p])

(* ... each function is executed in turn; an error is only logged ...      *)
InHook(p) == pc[p] = "hooking" /\ ran[p] < Len(snapshot[p])

FinishHook(p) ==
    /\ InHook(p)
    /\ ran' = [ran EXCEPT ![p] = @ + 1]
    /\ UNCHANGED <<pc, result, health, signalled, errChan, serveVars, quit, rpcVars,
                   metrics, scraping, ctx, hooks, snapshot, due>>

(* ... and Shutdown returns nil, and Start with it.                        *)
ReturnNil(p) ==
    /\ ~InHook(p)
    /\ Goto(p, "hooking", "returned")
    /\ result' = IF p = Main THEN "nil" ELSE result
    /\ UNCHANGED <<health, signalled, errChan, serveVars, quit, rpcVars, metrics,
                   scraping, ctx, hookVars>>

Shutdown(p) ==
    \/ CallShutdown(p)
    \/ MarkNotServing(p)
    \/ BeginGracefulStop(p)
    \/ EndGracefulStop(p)
    \/ CloseMetrics(p)
    \/ MetricsClosed(p)
    \/ SnapshotHooks(p)
    \/ FinishHook(p)
    \/ ReturnNil(p)

-----------------------------------------------------------------------------
(* Mutant of ServeBegins: Serve refuses and leaves the listener as it is.  *)
ServeBegins_LeavesOpen ==
    /\ serve = "spawned"
    /\ serve' = IF quit THEN "returned" ELSE "accepting"
    /\ errChan' = quit
    /\ UNCHANGED <<pc, result, health, signalled, listener, quit, rpcVars, metrics,
                   scraping, ctx, hookVars>>

(* The goroutine of Start that calls Serve: after a GracefulStop Serve     *)
(* closes the listener and refuses with ErrServerStopped ...               *)
ServeBegins ==
    /\ serve = "spawned"
    /\ serve' = IF quit THEN "returned" ELSE "accepting"
    /\ listener' = IF quit THEN "closed" ELSE listener
    /\ errChan' = quit
    /\ UNCHANGED <<pc, result, health, signalled, quit, rpcVars, metrics,
                   scraping, ctx, hookVars>>

(* A client is served when Serve accepts on the listener Start has opened. *)
Accepting == serve = "accepting" /\ listener = "open"

(* ... an accept that fails for good makes it close the listener and       *)
(* return the error ...                                                    *)
AcceptFails ==
    /\ Accepting
    /\ serve' = "returned"
    /\ listener' = "closed"
    /\ errChan' = TRUE
    /\ UNCHANGED <<pc, result, health, signalled, quit, rpcVars, metrics,
                   scraping, ctx, hookVars>>

(* ... and GracefulStop, once it is done, makes it return nil, which the   *)
(* goroutine does not report.                                              *)
ServeStops ==
    /\ serve = "accepting"
    /\ quit
    /\ inflight = {}
    /\ serve' = "returned"
    /\ UNCHANGED <<pc, result, health, signalled, errChan, listener, quit, rpcVars,
                   metrics, scraping, ctx, hookVars>>

(* RPCs are accepted until GracefulStop; running handlers go on.           *)
BeginRpc(r) ==
    /\ Accepting
    /\ r \notin inflight \cup finished
    /\ inflight' = inflight \cup {r}
    /\ UNCHANGED <<pc, result, health, signalled, errChan, serveVars, quit, finished,
                   metrics, scraping, ctx, hookVars>>

EndRpc(r) ==
    /\ r \in inflight
    /\ inflight' = inflight \ {r}
    /\ finished' = finished \cup {r}
    /\ UNCHANGED <<pc, result, health, signalled, errChan, serveVars, quit, metrics,
                   scraping, ctx, hookVars>>

(* startMetricsServer: ListenAndServe fails at once after Shutdown, and    *)
(* its error, like that of a busy port, ends only this goroutine.          *)
StartMetricsServer ==
    /\ metrics = "spawned"
    /\ metrics' \in {"listening", "shutdown"}
    /\ UNCHANGED <<pc, result, health, signalled, errChan, serveVars, quit, rpcVars,
                   scraping, ctx, hookVars>>

BeginScrape ==
    /\ metrics = "listening"
    /\ ~scraping
    /\ scraping' = TRUE
    /\ UNCHANGED <<pc, result, health, signalled, errChan, serveVars, quit, rpcVars,
                   metrics, ctx, hookVars>>

EndScrape ==
    /\ scraping
    /\ scraping' = FALSE
    /\ UNCHANGED <<pc, result, health, signalled, errChan, serveVars, quit, rpcVars,
                   metrics, ctx, hookVars>>

(* SIGINT or SIGTERM after signal.Notify; one more than sigChan holds is   *)
(* dropped.                                                                *)
Signal ==
    /\ pc[Main] \notin {"new", "listening", "marked"}
    /\ signalled' = TRUE
    /\ UNCHANGED <<pc, result, health, errChan, serveVars, quit, rpcVars, metrics,
                   scraping, ctx, hookVars>>

(* ShutdownTimeout elapses.                                                *)
Expire(p) ==
    /\ ctx[p] = "live"
    /\ ctx' = [ctx EXCEPT ![p] = "expired"]
    /\ UNCHANGED <<pc, result, health, signalled, errChan, serveVars, quit, rpcVars,
                   metrics, scraping, hookVars>>

-----------------------------------------------------------------------------
Start  == Listen \/ MarkServing \/ Spawn \/ SelectSignal \/ SelectError
Serve  == ServeBegins \/ AcceptFails \/ ServeStops

Next ==
    \/ Start
    \/ Serve
    \/ StartMetricsServer
    \/ \E p \in Shutters : Shutdown(p) \/ Expire(p)
    \/ \E h \in Hooks : AddShutdownFunc(h)
    \/ \E r \in Rpcs : BeginRpc(r) \/ EndRpc(r)
    \/ BeginScrape \/ EndScrape
    \/ Signal

Spec == Init /\ [][Next]_vars

(* Goroutines that can run do run and timers fire.  Nothing is assumed of  *)
(* the environment: signals need not come, callers need not call, RPCs,    *)
(* scrapes and shutdown functions need not end.                            *)
Fairness ==
    /\ WF_vars(Start)
    /\ WF_vars(ServeBegins \/ ServeStops)
    /\ WF_vars(StartMetricsServer)
    /\ \A p \in Shutters :
          /\ WF_vars(MarkNotServing(p) \/ BeginGracefulStop(p) \/ EndGracefulStop(p)
                        \/ CloseMetrics(p) \/ MetricsClosed(p) \/ SnapshotHooks(p)
                        \/ ReturnNil(p))
          /\ WF_vars(Expire(p))

FairSpec == Spec /\ Fairness

-----------------------------------------------------------------------------
(* Shutdown functions close what handlers use (db.Close() in README.md:216)*)
(* so none runs while an RPC is in flight, whoever calls Shutdown, however *)
(* many do, and wherever Start is.                                         *)
DrainBeforeCleanup ==
    \A p \in Shutters : pc[p] = "hooking" => inflight = {}

(* A call of Shutdown that returns has executed every function registered  *)
(* before it was called, although some fail, others are being registered,  *)
(* and ctx may long have expired.                                          *)
CleanupComplete ==
    \A p \in Shutters : pc[p] = "returned" /\ ctx[p] # "none" =>
        due[p] \subseteq {snapshot[p][i] : i \in 1 .. ran[p]}

(* Functions are executed in the order of registration: what a call has    *)
(* executed is a prefix of s.shutdownFuncs, even of its later value.       *)
RegistrationOrder ==
    \A p \in Shutters :
        /\ ran[p] <= Len(hooks)
        /\ \A i \in 1 .. ran[p] : snapshot[p][i] = hooks[i]

(* Load balancers are told before connections are refused: unless another  *)
(* goroutine has called Shutdown, the service is NOT_SERVING from before   *)
(* GracefulStop on.                                                        *)
NotServingWhileDraining ==
    quit /\ (\A p \in Callers : pc[p] = "idle") => health = "NOT_SERVING"

(* Where Start still has the listener in its own hands, and grpcServer     *)
(* does not know it: GracefulStop cannot close it there.                   *)
NotHandedOver == pc[Main] \in {"listening", "marked"} \/ serve = "spawned"

(* A Shutdown that has returned leaves nothing that serves, wherever it    *)
(* has overtaken Start: no RPC is in flight, the metrics server will never *)
(* listen again, and the gRPC listener is open only where Start has opened *)
(* it too late for GracefulStop and Serve has still to refuse it.          *)
NothingListens ==
    \A p \in Shutters : pc[p] = "returned" /\ ctx[p] # "none" =>
        /\ inflight = {}
        /\ EnableMetrics => metrics = "shutdown"
        /\ listener = "open" => NotHandedOver

(* A signal makes Start return and leaves no listener open, however slow   *)
(* the goroutine that calls Serve, unless an RPC or a shutdown function    *)
(* never ends.  In particular a scrape that never ends cannot prevent it.  *)
SignalEndsStart ==
    \/ signalled ~> result # "none" /\ listener # "open"
    \/ <>[](inflight # {})
    \/ <>[](\E p \in Shutters : InHook(p))

(* The detailed server implements what the application is promised:        *)
(* however many goroutines shut it down, a function has been executed when *)
(* one of them has executed it.                                            *)
Executed == {i \in 1 .. Len(hooks) : \E p \in Shutters : i <= ran[p]}

Contract == INSTANCE ServerContract WITH
    quit     <- quit,
    inflight <- inflight,
    hooks    <- hooks,
    due      <- Cardinality(due[Main]),
    cleaned  <- Cardinality(Executed),
    over     <- (result = "nil")

ImplementsContract == Contract!Spec

(* "Start() will complete after Shutdown() calls GracefulStop() which      *)
(* causes Serve() to return" (server_test.go:437).                         *)
ShutdownEndsStart ==
    \A p \in Callers :
        pc[p] = "returned" /\ pc[Main] = "selecting" ~> pc[Main] # "selecting"

(* "Verify health status changed to NOT_SERVING" (server_test.go:363):     *)
(* after Shutdown the service is no longer SERVING.                        *)
NotServingAfterShutdown ==
    \A p \in Callers : pc[p] = "returned" => health = "NOT_SERVING"
=============================================================================
