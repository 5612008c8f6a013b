---------------------------- MODULE Interceptors ----------------------------
(***************************************************************************)
(* The interceptors every RPC passes: the chains of server.New (logging,   *)
(* recovery and, for unary calls, metrics) and, behind them, the auth and  *)
(* rate-limit interceptors of pkg/middleware.  server.New takes no further *)
(* interceptors, so Added is <<>> in the servers it makes; a longer Added  *)
(* is the composition that complete-guide.md:496-528 speaks of, custom     *)
(* interceptors in a server that "already includes" the other three.       *)
(*                                                                         *)
(* A call is inside the first at[c] interceptors of its chain. It goes in  *)
(* one by one, is handled or turned back, and comes out one by one: an     *)
(* interceptor it returns to runs its code behind handler(ctx, req), one a *)
(* panic unwinds runs only what it deferred.                               *)
(***************************************************************************)
EXTENDS Integers, Sequences, FiniteSets

CONSTANTS
    Calls,   \* the RPCs that clients may make
    Added    \* interceptors composed behind those of server.New; <<>> in its own servers

ASSUME CallsAssumption == IsFiniteSet(Calls)
ASSUME AddedAssumption == Added \in Seq({"auth", "ratelimit"})

VARIABLES
    method,    \* what each call calls
    cred,      \* the credentials each call carries
    garbled,   \* calls whose request message cannot be decoded
    phase,     \* progress of each call
    at,        \* how many interceptors of its chain the call is inside of
    code,      \* the status each call returns with
    active,    \* grpc_active_requests
    counted,   \* grpc_requests_total by code
    logged,    \* the codes logged for each call
    handled,   \* history: calls that reached their handler
    panicked   \* history: calls in which user code panicked

input      == <<method, cred, garbled>>
callVars   == <<input, phase, at, code>>
metricVars == <<active, counted>>
vars == <<callVars, metricVars, logged, handled, panicked>>

(* Two methods of the demo service, a health check, a streaming RPC.       *)
Methods == {"GetUser", "LogEvent", "Check", "stream"}

(* No metadata or no header; not of the form "Bearer <token>"; a token     *)
(* that validateToken accepts, rejects or fails on.                        *)
Creds == {"missing", "malformed", "accepted", "rejected", "failing"}
Codes == {"OK", "NotFound", "Internal", "Unauthenticated", "ResourceExhausted"}

(* Mutants of Chain: logging innermost of the two; streams not recovered.  *)
Chain_RecoveryFirst(m) ==
    IF m = "stream" THEN <<"recovery", "logging">>
                    ELSE <<"recovery", "logging", "metrics">> \o Added

Chain_StreamUnprotected(m) ==
    IF m = "stream" THEN <<"logging">> ELSE <<"logging", "recovery", "metrics">> \o Added

(* ChainUnaryInterceptor and ChainStreamInterceptor, outermost first.      *)
Chain(m) ==
    IF m = "stream" THEN <<"logging", "recovery">>
                    ELSE <<"logging", "recovery", "metrics">> \o Added

Following(c) == Chain(method[c])[at[c] + 1]
Innermost(c) == Chain(method[c])[at[c]]

Inside(c, i) == \E n \in 1 .. at[c] : Chain(method[c])[n] = i

TypeOK ==
    /\ method \in [Calls -> Methods]
    /\ cred \in [Calls -> Creds]
    /\ garbled \subseteq Calls
    /\ phase \in [Calls -> {"idle", "entering", "returning", "panicking", "answered"}]
    /\ at \in [Calls -> Nat] /\ \A c \in Calls : at[c] <= Len(Chain(method[c]))
    /\ code \in [Calls -> Codes]
    /\ active \in 0 .. Cardinality(Calls)
    /\ counted \in [Codes -> 0 .. Cardinality(Calls)]
    /\ logged \in [Calls -> Seq(Codes)] /\ \A c \in Calls : Len(logged[c]) <= 1
    /\ handled \subseteq Calls
    /\ panicked \subseteq Calls

(* A client may make any call with any credentials.                        *)
Init ==
    /\ method \in [Calls -> Methods]
    /\ cred \in [Calls -> Creds]
    /\ garbled \in SUBSET Calls
    /\ phase = [c \in Calls |-> "idle"]
    /\ at = [c \in Calls |-> 0]
    /\ code = [c \in Calls |-> "OK"]
    /\ active = 0
    /\ counted = [k \in Codes |-> 0]
    /\ logged = [c \in Calls |-> <<>>]
    /\ handled = {}
    /\ panicked = {}

-----------------------------------------------------------------------------
GoOn(c) ==
    /\ at' = [at EXCEPT ![c] = @ + 1]
    /\ UNCHANGED <<input, phase, code>>

TurnBack(c, k) ==
    /\ phase' = [phase EXCEPT ![c] = "returning"]
    /\ code' = [code EXCEPT ![c] = k]
    /\ UNCHANGED <<input, at>>

(* User code (a handler, validateToken, getKey) panics.                    *)
Panic(c) ==
    /\ phase' = [phase EXCEPT ![c] = "panicking"]
    /\ panicked' = panicked \cup {c}
    /\ UNCHANGED <<input, at, code>>

(* Calls that the chain never sees.                                        *)
Unseen == {c \in garbled : method[c] # "stream"}

(* The generated _Handler of a unary method decodes the request before it  *)
(* calls the interceptors: a request that cannot be decoded never meets    *)
(* them.  That of a streaming RPC decodes it inside the chain.             *)
Arrive(c) ==
    /\ phase[c] = "idle"
    /\ \/ /\ c \in Unseen
          /\ TurnBack(c, "Internal")
       \/ /\ c \notin Unseen
          /\ phase' = [phase EXCEPT ![c] = "entering"]
          /\ UNCHANGED <<input, at, code>>
    /\ UNCHANGED <<metricVars, logged, handled, panicked>>

(* The call stands before interceptor i.                                   *)
Before(c, i) ==
    /\ phase[c] = "entering"
    /\ at[c] < Len(Chain(method[c]))
    /\ Following(c) = i

EnterLogging(c) ==
    /\ Before(c, "logging")
    /\ GoOn(c)
    /\ UNCHANGED <<metricVars, logged, handled, panicked>>

EnterRecovery(c) ==
    /\ Before(c, "recovery")
    /\ GoOn(c)
    /\ UNCHANGED <<metricVars, logged, handled, panicked>>

EnterMetrics(c) ==
    /\ Before(c, "metrics")
    /\ GoOn(c)
    /\ active' = active + 1
    /\ UNCHANGED <<counted, logged, handled, panicked>>

Exempt(c) == method[c] = "Check"

(* Mutant of Verdict: a failing validateToken is only logged.              *)
Verdict_IgnoresFailure(r) ==
    CASE r \in {"missing", "malformed", "rejected"} -> "Unauthenticated"
      [] r \in {"accepted", "failing"}              -> "OK"

Verdict(r) ==
    CASE r \in {"missing", "malformed", "rejected"} -> "Unauthenticated"
      [] r = "failing"                              -> "Internal"
      [] r = "accepted"                             -> "OK"

(* AuthInterceptor. It calls validateToken on whatever token it finds.     *)
EnterAuth(c) ==
    /\ Before(c, "auth")
    /\ \/ /\ Exempt(c) \/ Verdict(cred[c]) = "OK"
          /\ GoOn(c)
          /\ UNCHANGED panicked
       \/ /\ ~Exempt(c) /\ Verdict(cred[c]) # "OK"
          /\ TurnBack(c, Verdict(cred[c]))
          /\ UNCHANGED panicked
       \/ /\ ~Exempt(c) /\ cred[c] \notin {"missing", "malformed"}
          /\ Panic(c)
    /\ UNCHANGED <<metricVars, logged, handled>>

(* RateLimitInterceptor: Allow answers either way (module RateLimiter), or *)
(* divides by a refillRate of zero, which panics as getKey may.            *)
EnterRateLimit(c) ==
    /\ Before(c, "ratelimit")
    /\ \/ /\ GoOn(c) \/ TurnBack(c, "ResourceExhausted")
          /\ UNCHANGED panicked
       \/ Panic(c)
    /\ UNCHANGED <<metricVars, logged, handled>>

(* How a handler returns: GetUser and Check may not find what they are     *)
(* asked for; a streaming RPC may fail to decode its request, or later.    *)
Outcomes(c) ==
    CASE method[c] = "LogEvent"                   -> {"OK"}
      [] method[c] \in {"GetUser", "Check"}       -> {"OK", "NotFound"}
      [] method[c] = "stream" /\ c \in garbled    -> {"Internal"}
      [] method[c] = "stream" /\ c \notin garbled -> {"OK", "Internal"}

(* The handler of a service returns or panics.                             *)
Handle(c) ==
    /\ phase[c] = "entering"
    /\ at[c] = Len(Chain(method[c]))
    /\ handled' = handled \cup {c}
    /\ \/ /\ \E k \in Outcomes(c) : TurnBack(c, k)
          /\ UNCHANGED panicked
       \/ /\ c \notin garbled
          /\ Panic(c)
    /\ UNCHANGED <<metricVars, logged>>

-----------------------------------------------------------------------------
(* The call leaves its innermost interceptor, which is i, in phase p.      *)
Leaves(c, p, i) ==
    /\ phase[c] = p
    /\ at[c] > 0
    /\ Innermost(c) = i
    /\ at' = [at EXCEPT ![c] = @ - 1]

LeaveLogging(c) ==
    /\ Leaves(c, "returning", "logging")
    /\ logged' = [logged EXCEPT ![c] = Append(@, code[c])]
    /\ UNCHANGED <<input, phase, code, metricVars, handled, panicked>>

(* Mutants of LeaveMetrics: Dec is deferred and also called; every call    *)
(* counts as a success.                                                    *)
LeaveMetrics_DecTwice(c) ==
    /\ Leaves(c, "returning", "metrics")
    /\ active' = active - 2
    /\ counted' = [counted EXCEPT ![code[c]] = @ + 1]
    /\ UNCHANGED <<input, phase, code, logged, handled, panicked>>

LeaveMetrics_AllOK(c) ==
    /\ Leaves(c, "returning", "metrics")
    /\ active' = active - 1
    /\ counted' = [counted EXCEPT !["OK"] = @ + 1]
    /\ UNCHANGED <<input, phase, code, logged, handled, panicked>>

LeaveMetrics(c) ==
    /\ Leaves(c, "returning", "metrics")
    /\ active' = active - 1
    /\ counted' = [counted EXCEPT ![code[c]] = @ + 1]
    /\ UNCHANGED <<input, phase, code, logged, handled, panicked>>

LeaveOther(c) ==
    /\ \E i \in {"recovery", "auth", "ratelimit"} : Leaves(c, "returning", i)
    /\ UNCHANGED <<input, phase, code, metricVars, logged, handled, panicked>>

Answer(c) ==
    /\ phase[c] = "returning"
    /\ at[c] = 0
    /\ phase' = [phase EXCEPT ![c] = "answered"]
    /\ UNCHANGED <<input, at, code, metricVars, logged, handled, panicked>>

-----------------------------------------------------------------------------
(* A panic unwinds the call: the deferred Dec of metrics runs ...          *)
(* Mutant of UnwindMetrics: Dec is not deferred but called at the end.     *)
UnwindMetrics_NoDec(c) ==
    /\ Leaves(c, "panicking", "metrics")
    /\ UNCHANGED <<input, phase, code, metricVars, logged, handled, panicked>>

UnwindMetrics(c) ==
    /\ Leaves(c, "panicking", "metrics")
    /\ active' = active - 1
    /\ UNCHANGED <<input, phase, code, counted, logged, handled, panicked>>

(* ... recover() in the deferred function of recovery stops it ...         *)
Recover(c) ==
    /\ Leaves(c, "panicking", "recovery")
    /\ phase' = [phase EXCEPT ![c] = "returning"]
    /\ code' = [code EXCEPT ![c] = "Internal"]
    /\ UNCHANGED <<input, metricVars, logged, handled, panicked>>

(* ... the others defer nothing. (A panic that unwound the whole chain, in *)
(* phase "panicking" with at[c] = 0, has ended the process.)               *)
UnwindOther(c) ==
    /\ \E i \in {"auth", "ratelimit", "logging"} : Leaves(c, "panicking", i)
    /\ UNCHANGED <<input, phase, code, metricVars, logged, handled, panicked>>

Enter(c)  == \/ EnterLogging(c) \/ EnterRecovery(c) \/ EnterMetrics(c)
             \/ EnterAuth(c) \/ EnterRateLimit(c)
Leave(c)  == LeaveLogging(c) \/ LeaveMetrics(c) \/ LeaveOther(c) \/ Answer(c)
Unwind(c) == UnwindMetrics(c) \/ Recover(c) \/ UnwindOther(c)

Next == \E c \in Calls : Arrive(c) \/ Enter(c) \/ Handle(c) \/ Leave(c) \/ Unwind(c)

Spec == Init /\ [][Next]_vars
-----------------------------------------------------------------------------
(* grpc_active_requests is the number of unary calls in flight, whether    *)
(* they return, are turned back or panic.                                  *)
GaugeIsExact == active = Cardinality({c \in Calls : Inside(c, "metrics")})

(* No panic of a handler or of validateToken, unary or stream, ends the    *)
(* process: some interceptor of the chain recovers it, and the client is   *)
(* told codes.Internal.                                                    *)
PanicsAreContained ==
    \A c \in panicked :
        /\ ~(phase[c] = "panicking" /\ at[c] = 0)
        /\ phase[c] = "answered" => code[c] = "Internal"

(* On every path through the chain, panics included, an answered call is   *)
(* logged once and with the code its client got.  Nothing is said of the   *)
(* unary calls that cannot be decoded and never meet the chain.            *)
LoggedAsAnswered ==
    \A c \in Calls \ Unseen : phase[c] = "answered" => logged[c] = <<code[c]>>

(* Calls on their way out that have left the metrics interceptor, if they  *)
(* met it; of them, those that it saw return with k, and those that may    *)
(* count under k at all.                                                   *)
Out == {c \in Calls : /\ phase[c] \in {"returning", "panicking", "answered"}
                      /\ ~Inside(c, "metrics")}

Measured(k)  == {c \in Out \ (panicked \cup Unseen) : method[c] # "stream" /\ code[c] = k}
Countable(k) == {c \in Out : code[c] = k \/ c \in panicked}

(* grpc_requests_total loses no call that returned through metrics, and    *)
(* counts none twice, before its end or under a code it did not return.    *)
(* Whether it should count streams, calls that panicked and calls that     *)
(* cannot be decoded, which never return through metrics, is left open.    *)
CountedByCode ==
    \A k \in Codes :
        Cardinality(Measured(k)) <= counted[k] /\ counted[k] <= Cardinality(Countable(k))

(* With auth in the chain, only a health check, a stream or a call whose   *)
(* token validateToken accepted reaches its handler.                       *)
OnlyAdmitted ==
    \A c \in handled :
        method[c] \in {"GetUser", "LogEvent"} /\ (\E n \in 1 .. Len(Added) : Added[n] = "auth")
            => cred[c] = "accepted"
=============================================================================
