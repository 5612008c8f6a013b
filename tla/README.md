# A verification of go-grpc-foundation

TLA+ modules that model the repository's own logic (commit under `src/`), TLC
configurations that check them on small instances, and TLAPS proofs of what
matters most, for every value of the constants.

To check a run: `tlc -config RateLimiter.cfg MCRateLimiter.tla`; to check the
proofs of a module: `tlapm RateLimiterProofs.tla`. `PROJECT.json` lists the
runs, the theorems, the hazards, the lines each definition models, and for every
property a mutant of the code model that violates it.

## The system

| component | source | state | operations | what is hard |
|---|---|---|---|---|
| rate limiter | `pkg/middleware/ratelimit.go` | `rl.tokens`, a map of buckets; the ticker | `Allow`, the cleanup goroutine, `Stop` | two-level locking: a pointer is used after the map's lock is released; lost remainders; what the sweep may delete |
| server lifecycle | `pkg/server/server.go` | health status, shutdown functions, the listener, the gRPC and metrics servers | `New`, `Start`, `Shutdown`, `AddShutdownFunc` | any goroutine may call `Shutdown` while `Start` runs; goroutines that start late; order of draining and cleanup |
| interceptor chain | `pkg/logging/middleware.go`, `pkg/middleware/recovery.go`, `pkg/server/metrics.go`, wired at `server.go:66-76` | gauge and counter | every RPC | what a panic skips as it unwinds; what never reaches the chain |
| auth, rate-limit interceptors | `pkg/middleware/auth.go`, `ratelimit.go:105` | none | every unary RPC of a server composed with them (`server.New` takes no further interceptors) | callbacks that fail or panic |
| event subscription | `example/server/main.go:105-305` | `s.events`, an `eventChan` per subscription | `broadcastEvents`, `SubscribeToEvents` | a forwarder goroutine that nobody stops or awaits |
| chat | `example/server/main.go:452-526` | the shared room, a `messageChan` per stream | `Chat` | a reader goroutine that nobody stops; closing behind messages |
| interactive, upload, batch | `example/server/main.go:318-439`, `535-603` | the stream | `Interactive`, `UploadData`, `ProcessBatch` | two sides that may wait for each other's window; what a deadline cuts short |
| users | `example/server/main.go:143-236` | `s.users`, constant after `NewDemoService` | `GetUser`, `ListUsers`, `LogEvent` | page sizes at their limits, the order of a map |
| demo client | `example/client/main.go` | the stream, a timer of its own | one function per demo | it looks at its timer between blocking calls |
| generated code | `example/proto/demo/v1/demo_grpc.pb.go` | none | stubs and handlers | a request that cannot be decoded |
| databases | `pkg/database` | a pool, a client | `NewPostgresPool`, `NewRedisClient` (called by no program of the repository) | releasing on the failure paths; handlers that use what shutdown closes |
| configuration, logger | `pkg/config`, `pkg/logging/logger.go` | viper's globals | `Load`, `Get`, `NewLogger` | which of file and environment decides when one cannot be read |

How they interact: `server.New` builds the chain through which every RPC of a
registered service passes; `RateLimitInterceptor` calls `Allow`; the demo
service runs in handlers below the chain and starts goroutines that are *not*
below it, so that the recovery interceptor does not cover them; shutdown
functions close the connections that handlers use; client and handler of a
stream wait for each other through the windows of the transport.

What makes each correct:

* rate limiter: nobody gets more than the burst and what time has earned, per
  bucket and per key, whatever the sweep deletes; idle buckets go away; no deadlock;
* server: told unhealthy before draining, drained before cleanup, cleanup
  complete and in order, nothing served afterwards, `Start` returns and leaves no
  listener open;
* interceptors: panics are contained and reported, the gauge is exact, calls are
  logged and counted with the code their client got, only admitted calls are handled;
* streams: no message lost, repeated or reordered, an end that means complete,
  goroutines that end with their stream, and a process that survives;
* a whole service: a variable that is set wins over the file, no handler meets a
  closed connection, and an orderly end leaves no connection open.

## Modules

| module | models | runs | proofs |
|---|---|---|---|
| `RateLimiter` | the limiter; implements `TokenBudget` | `rl`, `rl_idle` | `RateLimiterProofs` |
| `TokenBudget` | abstractly, what a limiter promises to its callers | | |
| `ServerLifecycle` | `Start`, `Shutdown` and their environment; implements `ServerContract` | `srv`, `srv_start_hangs`, `srv_health_race` | `ServerLifecycleProofs` |
| `ServerContract` | abstractly, what an application may rely on | | |
| `Service` | a service on top of `ServerContract`: configuration, logger, databases, calls, the end | `service` | `ServiceProofs` |
| `Interceptors` | the chain, entered, returned through and unwound | `int` | `InterceptorsProofs` |
| `EventStream` | broadcaster, forwarders, handlers, many subscriptions | `ev`, `ev_crash` | `EventStreamProofs` |
| `Chat` | readers, handlers, the room, many streams | `chat`, `chat_leak` | `ChatProofs` |
| `StreamingCalls` | one call of `ListUsers`, `SubscribeToEvents`, `UploadData`, `ProcessBatch` or `Interactive`, from the demo client through the stubs to the handler and back | `calls` | `StreamingProofs` |
| `SetInduction` | induction over the natural numbers, for the proofs about sums and filtered sequences | | itself |
| `MC*` | instances for TLC: sets of model values, symmetry | | |

### State and actions

*RateLimiter.* A bucket is an identity in `Buckets` with its contents in `bucket`,
so that the map (`tokens`) and the local variable of a caller (`held`) can point
to the same or to different buckets. `Lookup` is the critical section under
`rl.mu` (lines 48-57), `Take` the one under `bucket.mu` (59-80); between the two
everything may happen. The cleanup goroutine holds `rl.mu` from `BeginSweep` to
`EndSweep` and visits one bucket per step. The ticker's channel holds one tick.
`born`, `grants`, `opened` and `granted` are history variables: what was granted,
and since when. `Stop` follows the ticker of the Go version in `go.mod`, in which
no stale tick is received after `Stop`.

*ServerLifecycle.* `pc` is the place in `Start` or `Shutdown` of the goroutine
`Main` and of every other goroutine that calls `Shutdown`; the goroutines that
`Start` spawns are the variables `serve` and `metrics`. `listener` is what
`net.Listen` returned to `Start` (line 120): in `Start`'s hands until `Serve` is
given it, closed by `GracefulStop` only if `Serve` has it, and otherwise by the
`Serve` that comes too late and refuses. `grpc.Server` and `http.Server` are
libraries, modelled by the states their calls observe: `Serve` returns nil after
`GracefulStop` and `ErrServerStopped` when called behind it, `GracefulStop` returns
when `inflight` is empty, `ListenAndServe` fails at once after
`http.Server.Shutdown`. `due` is a history variable: the functions registered
when a call of `Shutdown` began.

*ServerContract.* What is left when goroutines, libraries and contexts are taken
away: calls in flight until `quit`, functions executed one after the other with
no call in flight, and an end only behind those that were due. The refinement
mapping (`ServerLifecycle!Contract`) takes for `cleaned` the length of the longest
prefix that any call of `Shutdown` has executed (`Executed`), because two calls
execute the same functions, each in turn.

*Service.* `stage` is the progress of `main`: `Configure` (`main.go:605-624`: the
port, the metrics port and the environment; what follows are constants), the two
databases, `Start`. The databases are used as `README.md:196-227` and
`complete-guide.md:330-375` compose them, since no program of the repository does:
where these differ, on a Redis that does not answer, `PingClientFails` has both
ways, the fatal error of the guide and the `Close` of a nil client of the README.
The steps use the operators of `ServerContract`, so that what holds of them holds
over any implementation of the contract. `conn` follows a connection from `none`
over `open` (not yet pinged) and `held` (in the hands of the service) to `closed`;
`leaked` is open and in nobody's hands. `source` is what the process finds: the
state of the file, its values, and the environment. The order in which viper asks
its sources is that of `Get`, a function of `source`, not a sequence of steps.

*Interceptors.* `at[c]` is the number of interceptors of `Chain(method[c])` a
call is inside of. Entering runs what stands before `handler(ctx, req)`,
`Leave...` what stands behind it, `Unwind...` and `Recover` what is deferred. A
call in phase `panicking` outside all interceptors has ended the process. `auth`
and `ratelimit` are in the constant `Added`, behind the chain of `server.New`.
`server.New` itself takes no further interceptors: a longer `Added` is the
composition of `complete-guide.md:496-528`, and `<<>>` the repository's own servers.
`garbled` calls carry a request that cannot be decoded: the generated handler of
a unary method answers it before the chain, that of a stream inside it. A panic
of user code may be that of a handler, of `validateToken`, of `getKey`, or of
`Allow` with a `refillRate` of 0.

*EventStream, Chat.* One progress variable per goroutine and stream, channels as
bounded sequences, `closed` for a closed channel. A send on a closed channel is
the action `ForwardPanics`. `stream.Context()` is `done`: by the client at any
time, and by gRPC after the handler has returned. `Sent`, `Echo` and their
failing counterparts end a `stream.Send`, which may also never end when the
client does not read.

*StreamingCalls.* Each direction of the stream is a bounded sequence (gRPC's
flow-control window, counted in messages); a full window blocks the sender.
`sender`, `receiver` and `handler` are the progress of the three parties; in
`Interactive` the client has a goroutine for each side, otherwise `receiver` waits
until `sender` is through. `done` is the context of the call, which may expire at
any moment and need not. `timeUp` is the subscriber's own timer of 10 seconds,
`late` counts the events received after it (history). `tally` is what `UploadData`
and `ProcessBatch` count; an item of a batch fails at random, as in the code.

## Runs

Those that pass, each a whole component with its safety, action and liveness
properties:

| run | instance | shows |
|---|---|---|
| `rl` | 1 key, 2 callers, 3 buckets, burst 2, a token per 2 ticks, 6 ticks | no interleaving over-grants, an orphaned bucket included; a sweep forgets no debt; every call returns; `RateLimiter` implements `TokenBudget` |
| `srv` | signals, a goroutine that calls `Shutdown`, 1 RPC, 2 functions, metrics | unhealthy before draining if only `Start` calls `Shutdown`, drained before cleanup, cleanup complete and in order; a `Shutdown` that returns leaves nothing that serves, and no gRPC listener but one that `Start` opened too late and a refusing `Serve` has still to close; a signal ends `Start` and leaves no listener open unless an RPC or a function never ends; `ServerLifecycle` implements `ServerContract` |
| `service` | every kind of file, values and nonsense in file and environment, both databases up or down, 2 calls | a variable that is set decides, also over a file that cannot be read; no handler meets a closed connection; an orderly end leaves none open, and the only one in nobody's hands is a Redis client whose ping failed |
| `int` | 2 calls, any method, credentials and decodability, `auth` and `ratelimit` added | panics contained and reported, the gauge exact; calls that meet the chain are logged as answered, and those that return through metrics are counted under their code only; only admitted calls handled |
| `ev` | 2 subscriptions, one with a filter, 3 events, `s.events` of 2, `eventChan` of 1 | order and filter; of what was taken nothing is lost or repeated, and it arrives; a forwarder that holds an event is released |
| `chat` | 2 streams, 2 messages each, room of 2, `messageChan` of 1 | order, nothing lost at EOF, the room is recent, a client that half-closes is let go |
| `calls` | each of the five methods; 4 users, 4 page sizes, 5 commands, 4 items of two sizes with `IsLast` or without, 3 events, windows of 1 | answers in turn, an end that means complete, a summary that covers everything, at most one event too late, and no two sides that wait for each other |

Those that are violated, each a disagreement between the code and what the
repository says of it (`PROJECT.json`, `findings`):

| run | property | what happens |
|---|---|---|
| `rl_idle` | `SweepRemovesIdle` | a bucket that was ever used is never full again, so the sweep keeps it for ever |
| `srv_start_hangs` | `ShutdownEndsStart` | after a direct `Shutdown` `Start` waits for a signal for ever |
| `srv_health_race` | `NotServingAfterShutdown` | a `Shutdown` that overtakes `Start` leaves the service SERVING |
| `ev_crash` | `NeverCrashes` | a forwarder sends on the channel its handler closed |
| `chat_leak` | `EndedIsClosed` | a reader waits for room in the channel of a handler that is gone |

Disagreements with the documents that no run states; the runs above are those for
the failures that end a process, leak, hang or mislead. The properties of the
passing runs leave the first three open, asserting neither side, and are weaker
than the documents' wording where the others name them.

* Subscribers compete for events, each of which has one taker: all forwarders
  range over `s.events` (`main.go:264`). `main.go:248`, `demo.proto:36` and
  `demo_grpc.pb.go:231` speak of pub/sub. The theorem
  `EventStreamProofs!SubscribersCompete` states it for all instances, as the
  refutation it is; no property of `ev` says who else gets an event.
* A unary call that cannot be decoded is answered before the chain, so it is
  neither logged nor counted; `README.md:285` and `complete-guide.md:405` promise
  that all requests are logged. `LoggedAsAnswered` says nothing of such calls.
* A call whose handler panics and a stream are not in `grpc_requests_total`
  either; `metrics.go:17` and `complete-guide.md:459` speak of the total number.
  `CountedByCode` bounds the counter from both sides and leaves these calls open.
* The `Close` that `README.md:223-226` registers is called on nil when the ping of
  Redis failed, and ends the process. `Released` says what has been closed by then.
* One event may arrive after the "10 seconds" of `example/client/main.go:169`, and a
  silent stream is left only at 30: `AtMostOneLate`.
* The warning "using defaults" (`main.go:608`) for a file that cannot be read is not
  what happens when a variable is set; `EnvironmentWins` follows `config.go:18`,
  "Environment variable override", instead.
* `complete-guide.md:231` gives "development" as the default environment where
  `DefaultConfig` has "production"; `logging.level` of the YAML file is read
  nowhere, although `complete-guide.md:313` has all values overridable.

What the properties do not cover of the hazards they are named with:

* `SignalEndsStart` exempts RPCs that never end, so it says nothing of
  `GracefulStop` waiting past `ShutdownTimeout` (`server.go:171`), which the model has.
* `NotServingWhileDraining` exempts calls of `Shutdown` that race with `Start`; for
  these `srv_health_race` refutes it.
* `ForwarderReleased` speaks of a forwarder that holds an event. One that ranges
  over `s.events` after its client has left is never released: it takes the next
  event it wants and gives it up, again and again.
* `EveryCallReturns` has `rl.mu` as a lock that is held; a critical section under
  `bucket.mu` is one step, which is why no order of the two locks is checked: the
  sweep takes `bucket.mu` under `rl.mu`, and nobody takes `rl.mu` under `bucket.mu`.

### Bounds

`MaxTime` (clock), `MaxEvents`, `MaxMsgs`, `Events` and `Items` (guards of the
actions that produce) make the state spaces finite; a hook is registered once and
an RPC of `ServerLifecycle` runs once. The sizes let every interesting case
happen: a bucket is deleted under a caller's feet while a third is created (3
buckets, 2 callers), time passes `IdleLimit`, channels, windows and the room fill
up and overflow (capacities of 1 to 3 stand for 10, 100 and the transport's: the
code only compares a length with a capacity), an event is dropped because
`s.events` is full, two calls of `Shutdown` overlap at every pair of places, a
page is cut, default, or longer than the list. Time is in ticks, of which
`RefillRate` takes two in `rl`, so that remainders are lost. One key is enough in
`rl`: keys share nothing but `rl.mu`, whose holder `Lookup` and the sweep respect
for all keys. What is proved below holds without any of these bounds.

`KeyBudget` has the premise `IdleLimit >= |Threads| * RefillRate`: each caller may
hold one orphaned bucket, and the time that makes a bucket idle must earn its
token. With the code's five minutes it holds for any refill rate and number of
goroutines whose product is below that; the instances satisfy it.

### Fairness

Goroutines that can run do run (weak fairness per goroutine), Go's mutexes are
starvation free, timers fire. Nothing is assumed of clients, operating system or
user code: signals need not come, `Send` need not end when the client does not
read (in `chat` and `ev`; in `calls` both parties are modelled and both run), RPCs
and shutdown functions need not end; where one of these would keep a property
from holding the property says so. Deadlines need not expire, except that of a
subscription in `calls`, which has no other end. `select` with several ready cases
is a nondeterministic choice, over which weak fairness is taken as a whole, never
per case. `chat_leak` and `srv_start_hangs` are refuted under these assumptions,
by behaviours in which the goroutine concerned can never run again.

`CHECK_DEADLOCK FALSE` stands in the runs of systems that really stop: streams,
calls and processes that have ended, a broadcaster that is bounded.

## Proofs

Each proof module states an inductive invariant `IInv`, proves it of the initial
states and, lemma by lemma, of every action, and derives the theorems from it.
Every invariant and every action property of the runs has a theorem, and so have
both refinements.

| theorem | property of a run |
|---|---|
| `RateLimiterProofs!TypeCorrect` | `TypeOK` |
| `RateLimiterProofs!BucketNeverOverdrawn` | `BucketBudget` |
| `RateLimiterProofs!SweepIsHarmless` | `SweepForgetsNoDebt` |
| `RateLimiterProofs!KeyNeverOverdrawn` | `KeyBudget` |
| `RateLimiterProofs!BudgetKept` | `ImplementsTokenBudget` |
| `ServerLifecycleProofs!TypeCorrect` | `TypeOK` |
| `ServerLifecycleProofs!CleanupAfterDrain` | `DrainBeforeCleanup` |
| `ServerLifecycleProofs!CleanupIsComplete` | `CleanupComplete` |
| `ServerLifecycleProofs!CleanupInOrder` | `RegistrationOrder` |
| `ServerLifecycleProofs!NothingIsServed` | `NothingListens` |
| `ServerLifecycleProofs!ToldBeforeDraining` | `NotServingWhileDraining` |
| `ServerLifecycleProofs!ContractKept` | `ImplementsContract` |
| `ServiceProofs!ConnectionsOutliveHandlers` | `HandlersFindConnections` |
| `ServiceProofs!ConnectionsReleased` | `Released` |
| `ServiceProofs!EnvironmentDecides` | `EnvironmentWins` |
| `ServiceProofs!TypeCorrect` | `TypeOK` |
| `InterceptorsProofs!TypeCorrect` | `TypeOK` |
| `InterceptorsProofs!GaugeNeverDrifts` | `GaugeIsExact` |
| `InterceptorsProofs!PanicsEndInRecovery` | `PanicsAreContained` |
| `InterceptorsProofs!LogTellsTheAnswer` | `LoggedAsAnswered` |
| `InterceptorsProofs!CountersAreRight` | `CountedByCode` |
| `InterceptorsProofs!AuthAdmits` | `OnlyAdmitted` |
| `EventStreamProofs!TypeCorrect` | `TypeOK` |
| `EventStreamProofs!OrderIsKept` | `InOrder` |
| `EventStreamProofs!TakenIsKept` | `NothingTakenIsLost` |
| `ChatProofs!TypeCorrect` | `TypeOK` |
| `ChatProofs!EofIsBehindTheLast` | `EofDrains` |
| `ChatProofs!RoomKeepsTheLast` | `RoomIsRecent` |
| `ChatProofs!EchoesInOrder` | `EchoesFollowStore` |
| `StreamingProofs!TypeCorrect` | `TypeOK` |
| `StreamingProofs!TimeIsLookedAt` | `AtMostOneLate` |
| `StreamingProofs!AnsweredInTurn` | `EachAnswersItsRequest` |
| `StreamingProofs!EofIsTheEnd` | `EofMeansComplete` |
| `StreamingProofs!SummaryIsComplete` | `SummaryCoversAll` |

Three theorems state what no run does: `RateLimiterProofs!UsedBucketNeverFull`
(`UsedIsNotFull`, why `rl_idle` is violated), `RateLimiterProofs!StopEndsCleanup`
(`StopIsFinal`: a stopped cleanup never sweeps again) and
`EventStreamProofs!SubscribersCompete` (`OneClientEach`, above).

Liveness under fairness is out of the prover's reach, but what it rests on is
not: that nobody waits for ever (in each state somebody can go on, or waits for
the environment in a way the property exempts), that the steps run out (a natural
number that they decrease), and that what was taken is kept.

| theorem | states | is the safety half of |
|---|---|---|
| `RateLimiterProofs!HeapSuffices` | `BucketToMake`: a call that has to create a bucket finds one; needs `EnoughBuckets`, which `rl` satisfies | `EveryCallReturns` |
| `EventStreamProofs!TakenIsKept` | `NothingTakenIsLost`, which `ev` checks too: until client or handler leaves, what was taken for a subscription stays, in order | `TakenIsDelivered` |
| `EventStreamProofs!ForwarderGoesOn` | `NoForwarderStuck`: forwarder and handler do not wait for each other; alone, the forwarder goes on | `TakenIsDelivered`, `ForwarderReleased` |
| `ChatProofs!ReaderAndHandlerGoOn` | `NoStandstill`: nor do reader and handler of a half-closed stream | `EofEndsStream` |
| `ChatProofs!HalfClosedEnds` | `EndComesCloser`: each of their steps decreases `Left(s)` | `EofEndsStream` |
| `StreamingProofs!NoSideWaitsForTheOther` | `NoStandstill`: nor do client and handler of a call, whatever the windows | `CallEnds` |
| `StreamingProofs!CallsAreBounded` | `StepsRunOut`: each step but the expiry of a deadline decreases `Left` | `CallEnds` |

What is left to TLC in these is the temporal rule that leads from the two facts to
the end: that a step which stays possible is taken.

The assumptions are those named in the modules: rates and limits are positive or
natural numbers, sets that are counted (of calls, goroutines, users) are finite,
`NoBucket` is no bucket, `Main` is not one of the `Callers`, the `Texts` of a file
or a variable include the defaults, and the `Hooks` of `Service` are the two
databases. Two theorems have a premise of their own:
`BudgetKept` that of `KeyBudget`, `HeapSuffices` the size of the heap.

*Induction over data.* `BytesOfFirst` (the sum of the sizes) and `Picked` (the
filter by stream) are recursive functions. That such a function exists, and hence
satisfies its equations, is proved by induction over the argument, with a set of
numbers in place of a predicate: `SetInduction!HoldsForAll`, which rests on the
well-foundedness of inclusion between finite sets. The equations are all that the
proofs use, since the invariants follow the sum and the filter step by step.

*RateLimiter.* `BucketBudget` speaks of `lastRefill`, so `IInv` adds that no
`lastRefill` lies in the future (`ClockInv`), and that a key still to be visited
by a sweep has a bucket, since nobody writes the map while the sweep holds `rl.mu`
(`SweepInv`). The step that matters is `Take`: `RefilledFacts` bounds what a
refill adds by the time it consumes, with the division and the cap, and
`BudgetArithmetic` carries that bound over to the budget. `UsedIsNotFull` is
inductive beside these, because `Take` either grants and leaves less than
`MaxTokens`, or finds an empty bucket. `SweepForgetsNoDebt` follows: what the
sweep deletes is full, so unused.

The budget of a key spans buckets, and callers may draw on one that the sweep has
deleted, so `KeyInv` keeps an `Account` of each key: what its earlier buckets have
granted, plus one token for each caller that holds an orphan of it, was earned
before its present bucket was born. A take from an orphan uses up what was
reserved. The step that matters is the sweep's (`SweepKeepsAccount`): it makes
orphans of all callers that hold the bucket, which has granted nothing and has
been idle for `IdleLimit`, and under the premise of `KeyBudget` that idle time earns
a token for each of them. Without the premise the property is not claimed.
`KeyBudget` follows by adding the present bucket's budget (`AccountsAddUp`), and
with it that each step of the limiter is one of `TokenBudget` or a stutter:
`BudgetKept`, which assumes the premise.

`HeapSuffices` counts what can be reached: a caller about to create a bucket holds
none and its key has none, so the map reaches at most `|Keys| - 1` and the other
callers at most `|Threads| - 1`. It says that the bound on `Buckets` withholds no
behaviour from `rl`.

*ServerLifecycle.* `IInv` adds `ListenerInv` (the listener is open only before
`Serve` has it and while `Serve` accepts on it; `GracefulStop` closes what `Serve`
accepts on, and a `Serve` behind it refuses), `DrainInv` (past `GracefulStop` nothing is in
flight, and `quit` keeps it so), `ContextInv` (who has a context is past
`MarkNotServing`, which separates a returned `Shutdown` from a `Start` that
returned an error), `MetricsInv` (a closed metrics server is never reopened, also
by the goroutine that runs late), `HooksInv` (a snapshot is a prefix of the
functions registered since and contains those that were due; `AddShutdownFunc`
only appends, so prefixes stay prefixes) and `HealthInv` (as long as nobody but
`Start` calls `Shutdown`, the service is marked before it is drained).

*The contract.* `CInv`, in the same module, adds to that invariant what the
mapping needs: no function is registered twice, the order of execution, and that
`Start` has returned when its result is nil. Each action of `ServerLifecycle` is shown to be one of the
contract or to leave all of its six variables as they are; the executed prefix
grows by one only in the call of `Shutdown` that is ahead.

*Service.* `IInv` gives for each stage what is registered (`HooksInv`) and what
state the connections are in (`ConnInv`); `ClosedInv` is the point: a connection
is closed only behind the last call, and no other call can begin then.
`Configured`, which needs nothing else to be inductive, keeps what `main` found and
what it made of it; `EnvironmentWins` follows by the cases of `Chosen` and `Level`. `ContractShape`, inductive beside `IInv`, types the variables of
the contract and ties the end of the server to that of `main`.

*Interceptors.* `CallInv` describes one call by its place in the chain. `Gauge`
and `Counters` equate `active` and `counted` with the cardinalities of the sets of
calls inside metrics, and behind it with a code; each step moves at most one call
between these sets. `CountedByCode` follows by inclusion: the set that `Counters`
names contains `Measured` and is contained in `Countable`. This is proved for any `Added`, with `auth` at any position.

*EventStream.* `Order` follows the events of a subscription from its client back
to `s.events`: whatever is further from the broadcaster was made earlier
(`Sorted`), and is of a type asked for (`Asked`). `Apart` says that no two
subscriptions have the same event, from which `SubscribersCompete` follows. `Taken` joins the places of a subscription to one sequence; each
action of forwarder and handler is shown to regroup it or to append to it.
`ForwarderGoesOn` needs that `eventChan` is closed only by the handler that
returns (`ClosedByHandler`).

*Chat.* `Kept` counts: as long as the handler runs, what was sent is on the wire,
in the reader's hand, in the channel, in the handler's hand or echoed, and the
channel is closed only with nothing before it. `Recent` describes the room as a
suffix of all messages stored, cut to `RoomCap`. `Follows` says where the messages
of a stream are: what the room was given by it is what was echoed, then what is to
be echoed, then what the reader has stored and not yet handed over. `EchoesFollowStore`
is what remains of it when the handler has returned. The measure `Left(s)` weighs a
message by the steps it still takes, so that handing it on always makes it lighter.

*StreamingCalls.* `Conversation` numbers the requests still on the wire from the
answers already given; `Listing` says that what was sent and what is to be sent is
one of the `Pages`; `Subscription` that the receiver, once it has received a late
event, is not in `Recv`; `Flow` and `Counting` tie the windows to what was sent.
`Summing` equates what is tallied with what was sent and is no longer on the wire,
to the byte. `Waiting` says what each party may still wait for; with it
`NoStandstill` is a case distinction over the progress of the three parties. `Left`
weighs what is still to be sent, received and answered, and `AnswersBounded` keeps
it natural.

Model-checked only: the liveness properties `EveryCallReturns`, `SignalEndsStart`,
`ForwarderReleased`, `TakenIsDelivered`, `EofEndsStream` and `CallEnds`, but for the
safety halves above. `SignalEndsStart` has none: its steps are those of one
goroutine, which waits for RPCs, for scrapes until its context expires, and for
functions.

## Not modelled

* `demoUnary` and `main` of the demo client: calls in a row whose errors are
  printed. `GetBool`, `GetDuration` and `Set` of `config.go`: wrappers of viper that
  nothing calls. `demo.pb.go`: message types and descriptors. The build files, the
  scripts and the documents.
* In the modules: durations, log texts, the service label of the metrics, the
  contents of messages; `runtime.Goexit` in a handler; the status codes gRPC itself
  substitutes for plain context errors; a client that marks a chunk `IsLast` and
  goes on sending.
* Errors the code does not promise to handle: a failing `Serve` leaves shutdown
  functions unexecuted (`server.go:151`, modelled, and exempted from the
  properties), two calls of `Shutdown` execute each function twice (modelled; the
  contract counts it once).

## Plan

1. `Interceptors` composed with `RateLimiter` through `RateLimitInterceptor`: the
   admissions of a key seen from the handlers.
2. Abstract specifications: a subscription as a queue that loses nothing it took,
   which `EventStream` implements up to the events dropped when a client leaves
   (`TakenIsKept` is the step of that refinement); a
   chat stream as a log with a reading position, which `Chat` implements.
