------------------------- MODULE InterceptorsProofs -------------------------
(***************************************************************************)
(* Proofs about Interceptors, for any number of calls and any interceptors *)
(* behind those of server.New.                                             *)
(***************************************************************************)
EXTENDS Interceptors, FiniteSetTheorems, SequenceTheorems, TLAPS

Phases == {"idle", "entering", "returning", "panicking", "answered"}

(* What each variable is, but for the bounds of the counters.              *)
Shape ==
    /\ method \in [Calls -> Methods]
    /\ cred \in [Calls -> Creds]
    /\ garbled \subseteq Calls
    /\ phase \in [Calls -> Phases]
    /\ at \in [Calls -> Nat]
    /\ code \in [Calls -> Codes]
    /\ logged \in [Calls -> Seq(Codes)]
    /\ handled \subseteq Calls
    /\ panicked \subseteq Calls

MetricsShape == active \in Int /\ counted \in [Codes -> Int]

(* Where the interceptors stand.                                           *)
LEMMA ChainFacts ==
    ASSUME NEW m
    PROVE  /\ Len(Chain(m)) \in Nat
           /\ IF m = "stream" THEN Len(Chain(m)) = 2 ELSE Len(Chain(m)) >= 3
           /\ Chain(m)[1] = "logging"
           /\ Chain(m)[2] = "recovery"
           /\ m # "stream" => Chain(m)[3] = "metrics"
           /\ m # "stream" => /\ Len(Chain(m)) = 3 + Len(Added)
                              /\ \A n \in 1 .. Len(Added) : Chain(m)[3 + n] = Added[n]
           /\ \A n \in 1 .. Len(Chain(m)) : n > 3 => Chain(m)[n] \in {"auth", "ratelimit"}
    <1>1. CASE m = "stream"
        BY <1>1 DEF Chain
    <1>2. CASE m # "stream"
        <2> DEFINE kinds == {"logging", "recovery", "metrics", "auth", "ratelimit"}
        <2> DEFINE first == <<"logging", "recovery", "metrics">>
        <2>1. /\ Len(first) = 3
              /\ first[1] = "logging" /\ first[2] = "recovery" /\ first[3] = "metrics"
              /\ first \in Seq(kinds)
            OBVIOUS
        <2>2. Chain(m) = first \o Added
            BY <1>2 DEF Chain
        <2>3. Added \in Seq(kinds)
            BY AddedAssumption
        <2>4. /\ Len(Added) \in Nat /\ Len(first \o Added) = 3 + Len(Added)
              /\ \A n \in 1 .. 3 : (first \o Added)[n] = first[n]
              /\ \A n \in 4 .. 3 + Len(Added) : (first \o Added)[n] = Added[n - 3]
            <3> HIDE DEF first, kinds
            <3>0. Len(Added) \in Nat
                BY <2>3
            <3>1. /\ Len(first \o Added) = Len(first) + Len(Added)
                  /\ \A n \in 1 .. Len(first) + Len(Added) :
                        (first \o Added)[n] = IF n <= Len(first) THEN first[n]
                                                               ELSE Added[n - Len(first)]
                BY <2>1, <2>3, ConcatProperties, Zenon
            <3>2. Len(first) = 3
                BY <2>1
            <3>3. ASSUME NEW n \in 1 .. 3
                  PROVE  (first \o Added)[n] = first[n]
                BY <3>0, <3>1, <3>2
            <3>4. ASSUME NEW n \in 4 .. 3 + Len(Added)
                  PROVE  (first \o Added)[n] = Added[n - 3]
                BY <3>0, <3>1, <3>2
            <3> QED BY <3>0, <3>1, <3>2, <3>3, <3>4
        <2>5. \A i \in 1 .. Len(Added) : Added[i] \in {"auth", "ratelimit"}
            BY AddedAssumption
        <2>6. \A n \in 1 .. 3 + Len(Added) : n > 3 => (first \o Added)[n] \in {"auth", "ratelimit"}
            <3> HIDE DEF first
            <3> SUFFICES ASSUME NEW n \in 1 .. 3 + Len(Added), n > 3
                         PROVE  (first \o Added)[n] \in {"auth", "ratelimit"}
                OBVIOUS
            <3>1. n \in 4 .. 3 + Len(Added) /\ n - 3 \in 1 .. Len(Added)
                BY <2>4
            <3>2. (first \o Added)[n] = Added[n - 3]
                BY <2>4, <3>1
            <3>3. Added[n - 3] \in {"auth", "ratelimit"}
                BY <2>5, <3>1
            <3> QED BY <3>2, <3>3
        <2> HIDE DEF first
        <2> QED BY <1>2, <2>1, <2>2, <2>4, <2>6
    <1> QED BY <1>1, <1>2

(* ... each at its place, auth and ratelimit behind the third.             *)
LEMMA Standing ==
    ASSUME NEW m, NEW n \in 1 .. Len(Chain(m))
    PROVE  /\ Chain(m)[n] = "logging" <=> n = 1
           /\ Chain(m)[n] = "recovery" <=> n = 2
           /\ Chain(m)[n] = "metrics" <=> n = 3
           /\ Chain(m)[n] \in {"auth", "ratelimit"} <=> n > 3
           /\ n >= 3 => m # "stream"
    <1>1. n \in Nat /\ n >= 1 /\ Len(Chain(m)) \in Nat /\ n <= Len(Chain(m))
        BY ChainFacts
    <1>2. n >= 3 => m # "stream"
        <2>1. Len(Chain(m)) # 2 => m # "stream"
            BY ChainFacts
        <2>2. n >= 3 => Len(Chain(m)) # 2
            BY <1>1
        <2> QED BY <2>1, <2>2
    <1>3. CASE n = 1
        BY <1>3, ChainFacts
    <1>4. CASE n = 2
        BY <1>4, ChainFacts
    <1>5. CASE n = 3
        BY <1>2, <1>5, ChainFacts
    <1>6. CASE n > 3
        <2>1. Chain(m)[n] \in {"auth", "ratelimit"}
            BY <1>6, ChainFacts
        <2> QED BY <1>1, <1>2, <1>6, <2>1
    <1> QED BY <1>1, <1>3, <1>4, <1>5, <1>6

-----------------------------------------------------------------------------
(* A call that interceptor auth has let pass, if it has met it.            *)
Passed(c, depth) ==
    \A n \in 1 .. depth : Chain(method[c])[n] = "auth" => Exempt(c) \/ cred[c] = "accepted"

(* The invariant of one call: where it may be in each phase, that recovery *)
(* is still around a panic and has turned it into codes.Internal behind    *)
(* it, what is logged, and what auth has seen.                             *)
CallInv(c) ==
    /\ at[c] <= Len(Chain(method[c]))
    /\ phase[c] \in {"idle", "answered"} \/ c \in Unseen => at[c] = 0
    /\ c \in Unseen => phase[c] \notin {"entering", "panicking"}
    /\ phase[c] = "panicking" => c \in panicked
    /\ c \in panicked =>
          \/ phase[c] = "panicking" /\ at[c] >= 2
          \/ phase[c] \in {"returning", "answered"} /\ at[c] < 2 /\ code[c] = "Internal"
    /\ logged[c] = IF phase[c] \in {"returning", "answered"} /\ at[c] = 0 /\ c \notin Unseen
                   THEN <<code[c]>> ELSE <<>>
    /\ phase[c] = "entering" => Passed(c, at[c])
    /\ c \in handled => Passed(c, Len(Chain(method[c])))

(* Calls inside metrics; calls that have returned from it.                 *)
InMetrics(c) == method[c] # "stream" /\ at[c] >= 3

BehindMetrics(c) ==
    /\ method[c] # "stream" /\ at[c] < 3
    /\ phase[c] \in {"returning", "answered"}
    /\ c \notin panicked /\ c \notin Unseen

Gauge    == active = Cardinality({c \in Calls : InMetrics(c)})
Counters == \A k \in Codes :
                counted[k] = Cardinality({c \in Calls : BehindMetrics(c) /\ code[c] = k})

IInv == Shape /\ MetricsShape /\ (\A c \in Calls : CallInv(c)) /\ Gauge /\ Counters

(* A step of call c leaves the others as they are ...                      *)
Frame(c) ==
    /\ UNCHANGED input
    /\ \A d \in Calls \ {c} :
          /\ phase'[d] = phase[d] /\ at'[d] = at[d] /\ code'[d] = code[d]
          /\ logged'[d] = logged[d]
          /\ d \in handled' <=> d \in handled
          /\ d \in panicked' <=> d \in panicked

(* ... and, unless it enters or leaves metrics, the metrics.               *)
Unmeasured(c) ==
    /\ UNCHANGED metricVars
    /\ InMetrics(c)' <=> InMetrics(c)
    /\ BehindMetrics(c)' <=> BehindMetrics(c)
    /\ BehindMetrics(c) => code'[c] = code[c]

-----------------------------------------------------------------------------
LEMMA ArriveStep ==
    ASSUME Shape, NEW c \in Calls, CallInv(c), Arrive(c)
    PROVE  Shape' /\ Frame(c) /\ CallInv(c)' /\ Unmeasured(c)
    <1>1. /\ phase[c] = "idle" /\ at'[c] = at[c] /\ logged'[c] = logged[c]
          /\ UNCHANGED <<input, metricVars, handled, panicked>>
          /\ \/ c \in Unseen /\ phase'[c] = "returning"
             \/ c \notin Unseen /\ phase'[c] = "entering"
        BY DEF Arrive, TurnBack, Shape
    <1>2. Shape'
        BY DEF Arrive, TurnBack, Shape, input, metricVars, Phases, Codes
    <1>3. Frame(c)
        BY DEF Arrive, TurnBack, Shape, Frame
    <1>4. at[c] = 0 /\ at'[c] = 0 /\ logged[c] = <<>> /\ c \notin panicked
        BY <1>1 DEF CallInv
    <1>5. (c \in Unseen)' <=> c \in Unseen
        BY <1>1 DEF Unseen, input
    <1>6. CallInv(c)'
        <2>1. Passed(c, at[c])' /\ (c \in handled' => Passed(c, Len(Chain(method[c])))')
            BY <1>1, <1>4 DEF CallInv, Passed, Exempt, input
        <2>2. at'[c] <= Len(Chain(method'[c]))
            BY <1>1, <1>4 DEF CallInv, input
        <2> QED BY <1>1, <1>4, <1>5, <2>1, <2>2 DEF CallInv, input
    <1>7. Unmeasured(c)
        BY <1>1, <1>4, <1>5 DEF Unmeasured, InMetrics, BehindMetrics, input
    <1> QED BY <1>2, <1>3, <1>6, <1>7

(* A call goes into the next interceptor, which auth allows only if it     *)
(* lets the call pass.                                                     *)
LEMMA GoOnStep ==
    ASSUME Shape, NEW c \in Calls, CallInv(c), NEW i, Before(c, i), GoOn(c),
           UNCHANGED <<logged, handled, panicked>>,
           i = "auth" => Exempt(c) \/ cred[c] = "accepted"
    PROVE  /\ Shape' /\ Frame(c) /\ CallInv(c)'
           /\ at'[c] = at[c] + 1 /\ at'[c] \in 1 .. Len(Chain(method[c]))
           /\ Chain(method[c])[at'[c]] = i
           /\ ~BehindMetrics(c) /\ ~BehindMetrics(c)'
    <1>1. /\ phase[c] = "entering" /\ at[c] \in Nat /\ at[c] < Len(Chain(method[c]))
          /\ Chain(method[c])[at[c] + 1] = i
          /\ at'[c] = at[c] + 1
          /\ UNCHANGED <<input, phase, code, logged, handled, panicked>>
        BY DEF Before, Following, GoOn, Shape
    <1>2. Shape'
        BY <1>1 DEF GoOn, Shape, input
    <1>3. Frame(c)
        BY <1>1 DEF GoOn, Shape, Frame
    <1>4. at'[c] \in 1 .. Len(Chain(method[c]))
        BY <1>1, ChainFacts
    <1>5. CallInv(c)'
        <2>1. Passed(c, at[c])'
            <3> SUFFICES ASSUME NEW n \in 1 .. at'[c], Chain(method[c])[n] = "auth"
                         PROVE  Exempt(c) \/ cred[c] = "accepted"
                BY <1>1 DEF Passed, Exempt, input
            <3>1. CASE n = at'[c]
                BY <1>1, <3>1
            <3>2. CASE n # at'[c]
                <4>1. n \in 1 .. at[c]
                    BY <1>1, <3>2
                <4> QED BY <1>1, <4>1 DEF CallInv, Passed
            <3> QED BY <3>1, <3>2
        <2>2. c \in handled' => Passed(c, Len(Chain(method[c])))'
            BY <1>1 DEF CallInv, Passed, Exempt, input
        <2>3. at'[c] <= Len(Chain(method'[c])) /\ c \notin Unseen /\ c \notin Unseen'
            BY <1>1, <1>4 DEF CallInv, input, Unseen
        <2>4. c \notin panicked
            BY <1>1 DEF CallInv
        <2> QED BY <1>1, <2>1, <2>2, <2>3, <2>4 DEF CallInv
    <1>6. ~BehindMetrics(c) /\ ~BehindMetrics(c)'
        BY <1>1 DEF BehindMetrics
    <1> QED BY <1>1, <1>2, <1>3, <1>4, <1>5, <1>6

(* A call turns back or panics, inside recovery and, unless it is a        *)
(* stream, inside metrics; it may have reached its handler.                *)
LEMMA TurnStep ==
    ASSUME Shape, NEW c \in Calls, CallInv(c), phase[c] = "entering",
           at[c] >= 2, method[c] = "stream" \/ at[c] >= 3,
           \/ /\ \E k \in Codes : TurnBack(c, k)
              /\ UNCHANGED panicked
           \/ Panic(c),
           UNCHANGED <<metricVars, logged>>,
           \/ UNCHANGED handled
           \/ handled' = handled \cup {c} /\ at[c] = Len(Chain(method[c]))
    PROVE  Shape' /\ Frame(c) /\ CallInv(c)' /\ Unmeasured(c)
    <1>1. UNCHANGED <<input, at, metricVars, logged>> /\ at[c] \in Nat
        BY DEF TurnBack, Panic, Shape
    <1>2. \/ phase'[c] = "returning" /\ (c \in panicked' <=> c \in panicked)
          \/ phase'[c] = "panicking" /\ c \in panicked'
        BY DEF TurnBack, Panic, Shape
    <1>3. Shape'
        BY <1>1 DEF TurnBack, Panic, Shape, input, Phases
    <1>4. Frame(c)
        BY <1>1 DEF TurnBack, Panic, Shape, Frame
    <1>5. c \notin Unseen /\ c \notin Unseen' /\ c \notin panicked /\ logged[c] = <<>>
        BY <1>1 DEF CallInv, Unseen, input
    <1>6. CallInv(c)'
        <2>1. c \in handled' => Passed(c, Len(Chain(method[c])))'
            BY <1>1 DEF CallInv, Passed, Exempt, input
        <2>2. at'[c] <= Len(Chain(method'[c]))
            BY <1>1 DEF CallInv, input
        <2> QED BY <1>1, <1>2, <1>5, <2>1, <2>2 DEF CallInv
    <1>7. Unmeasured(c)
        BY <1>1, <1>2, <1>5 DEF Unmeasured, InMetrics, BehindMetrics, input
    <1> QED BY <1>3, <1>4, <1>6, <1>7

-----------------------------------------------------------------------------
LEMMA EnterStep ==
    ASSUME Shape, NEW c \in Calls, CallInv(c), EnterLogging(c) \/ EnterRecovery(c)
    PROVE  Shape' /\ Frame(c) /\ CallInv(c)' /\ Unmeasured(c)
    <1>1. PICK i \in {"logging", "recovery"} :
              /\ Before(c, i) /\ GoOn(c)
              /\ UNCHANGED <<metricVars, logged, handled, panicked>>
        BY DEF EnterLogging, EnterRecovery
    <1>2. /\ Shape' /\ Frame(c) /\ CallInv(c)'
          /\ at'[c] = at[c] + 1 /\ at'[c] \in 1 .. Len(Chain(method[c]))
          /\ Chain(method[c])[at'[c]] = i
          /\ ~BehindMetrics(c) /\ ~BehindMetrics(c)'
        BY <1>1, GoOnStep
    <1>3. at'[c] \in {1, 2}
        BY <1>1, <1>2, Standing
    <1>4. ~InMetrics(c) /\ ~InMetrics(c)'
        BY <1>2, <1>3 DEF InMetrics, Shape
    <1> QED BY <1>1, <1>2, <1>4 DEF Unmeasured

LEMMA EnterMetricsStep ==
    ASSUME Shape, NEW c \in Calls, CallInv(c), EnterMetrics(c)
    PROVE  /\ Shape' /\ Frame(c) /\ CallInv(c)'
           /\ active' = active + 1 /\ UNCHANGED counted
           /\ ~InMetrics(c) /\ InMetrics(c)'
           /\ ~BehindMetrics(c) /\ ~BehindMetrics(c)'
    <1>1. /\ Before(c, "metrics") /\ GoOn(c) /\ active' = active + 1
          /\ UNCHANGED <<counted, logged, handled, panicked>>
        BY DEF EnterMetrics
    <1>2. /\ Shape' /\ Frame(c) /\ CallInv(c)'
          /\ at'[c] = at[c] + 1 /\ at'[c] \in 1 .. Len(Chain(method[c]))
          /\ Chain(method[c])[at'[c]] = "metrics"
          /\ ~BehindMetrics(c) /\ ~BehindMetrics(c)'
        BY <1>1, GoOnStep
    <1>3. at'[c] = 3 /\ method[c] # "stream"
        BY <1>2, Standing
    <1>4. ~InMetrics(c) /\ InMetrics(c)'
        BY <1>1, <1>2, <1>3 DEF InMetrics, Shape, GoOn, input
    <1> QED BY <1>1, <1>2, <1>4

(* auth and ratelimit, behind metrics: a call passes, turns back or panics.*)
LEMMA EnterAddedStep ==
    ASSUME Shape, NEW c \in Calls, CallInv(c), EnterAuth(c) \/ EnterRateLimit(c)
    PROVE  Shape' /\ Frame(c) /\ CallInv(c)' /\ Unmeasured(c)
    <1>1. PICK i \in {"auth", "ratelimit"} :
              /\ Before(c, i)
              /\ \/ /\ GoOn(c) /\ UNCHANGED panicked
                    /\ i = "auth" => Exempt(c) \/ cred[c] = "accepted"
                 \/ /\ \E k \in Codes : TurnBack(c, k)
                    /\ UNCHANGED panicked
                 \/ Panic(c)
              /\ UNCHANGED <<metricVars, logged, handled>>
        <2>1. CASE EnterAuth(c)
            <3>1. cred[c] \in Creds
                BY DEF Shape
            <3>2. /\ Verdict(cred[c]) = "OK" => cred[c] = "accepted"
                  /\ Verdict(cred[c]) \in Codes
                BY <3>1 DEF Verdict, Creds, Codes
            <3> QED BY <2>1, <3>2 DEF EnterAuth
        <2>2. CASE EnterRateLimit(c)
            <3>1. "ResourceExhausted" \in Codes
                BY DEF Codes
            <3> QED BY <2>2, <3>1 DEF EnterRateLimit
        <2> QED BY <2>1, <2>2
    <1>2. /\ phase[c] = "entering" /\ at[c] \in Nat
          /\ at[c] + 1 \in 1 .. Len(Chain(method[c]))
          /\ Chain(method[c])[at[c] + 1] = i
        BY <1>1, ChainFacts DEF Before, Following, Shape
    <1>3. at[c] + 1 > 3 /\ method[c] # "stream"
        <2>1. /\ Chain(method[c])[at[c] + 1] \in {"auth", "ratelimit"}
            BY <1>1, <1>2
        <2>2. at[c] + 1 > 3
            BY <1>2, <2>1, Standing
        <2> QED BY <1>2, <2>2, Standing
    <1>4. CASE GoOn(c) /\ UNCHANGED panicked /\ (i = "auth" => Exempt(c) \/ cred[c] = "accepted")
        <2>1. /\ Shape' /\ Frame(c) /\ CallInv(c)'
              /\ at'[c] = at[c] + 1
              /\ ~BehindMetrics(c) /\ ~BehindMetrics(c)'
            BY <1>1, <1>4, GoOnStep
        <2>2. InMetrics(c) /\ InMetrics(c)'
            BY <1>2, <1>3, <1>4, <2>1 DEF InMetrics, GoOn, input
        <2> QED BY <1>1, <2>1, <2>2 DEF Unmeasured
    <1>5. CASE (\E k \in Codes : TurnBack(c, k)) /\ UNCHANGED panicked
        <2>1. at[c] >= 3
            BY <1>2, <1>3
        <2> QED BY <1>1, <1>2, <1>5, <2>1, TurnStep
    <1>6. CASE Panic(c)
        <2>1. at[c] >= 3
            BY <1>2, <1>3
        <2> QED BY <1>1, <1>2, <1>6, <2>1, TurnStep
    <1> QED BY <1>1, <1>4, <1>5, <1>6

LEMMA HandleStep ==
    ASSUME Shape, NEW c \in Calls, CallInv(c), Handle(c)
    PROVE  Shape' /\ Frame(c) /\ CallInv(c)' /\ Unmeasured(c)
    <1>1. /\ phase[c] = "entering" /\ at[c] = Len(Chain(method[c]))
          /\ handled' = handled \cup {c}
          /\ UNCHANGED <<metricVars, logged>>
        BY DEF Handle
    <1>2. Outcomes(c) \subseteq Codes
        <2>1. method[c] \in Methods
            BY DEF Shape
        <2> QED BY <2>1 DEF Methods, Outcomes, Codes
    <1>3. \/ /\ \E k \in Codes : TurnBack(c, k)
             /\ UNCHANGED panicked
          \/ Panic(c)
        BY <1>2 DEF Handle
    <1>4. at[c] >= 2 /\ (method[c] = "stream" \/ at[c] >= 3)
        BY <1>1, ChainFacts
    <1> QED BY <1>1, <1>3, <1>4, TurnStep

-----------------------------------------------------------------------------
(* A call comes out of an interceptor, in phase p.                         *)
LEMMA LeavesFacts ==
    ASSUME Shape, NEW c \in Calls, CallInv(c), NEW p, NEW i, Leaves(c, p, i)
    PROVE  /\ phase[c] = p
           /\ at[c] \in 1 .. Len(Chain(method[c]))
           /\ Chain(method[c])[at[c]] = i
           /\ at'[c] = at[c] - 1 /\ at'[c] \in Nat
           /\ at' \in [Calls -> Nat]
           /\ \A d \in Calls \ {c} : at'[d] = at[d]
           /\ c \notin Unseen
    <1>1. /\ phase[c] = p /\ at[c] \in Nat /\ at[c] > 0 /\ at[c] <= Len(Chain(method[c]))
          /\ Chain(method[c])[at[c]] = i
          /\ at' = [at EXCEPT ![c] = @ - 1]
        BY DEF Leaves, Innermost, CallInv, Shape
    <1>2. at[c] - 1 \in Nat /\ at[c] \in 1 .. Len(Chain(method[c]))
        BY <1>1, ChainFacts
    <1>3. at' \in [Calls -> Nat] /\ at'[c] = at[c] - 1 /\ \A d \in Calls \ {c} : at'[d] = at[d]
        BY <1>1, <1>2 DEF Shape
    <1>4. c \notin Unseen
        BY <1>1 DEF CallInv
    <1> QED BY <1>1, <1>2, <1>3, <1>4

LEMMA AnswerStep ==
    ASSUME Shape, NEW c \in Calls, CallInv(c), Answer(c)
    PROVE  Shape' /\ Frame(c) /\ CallInv(c)' /\ Unmeasured(c)
    <1>1. /\ phase[c] = "returning" /\ phase'[c] = "answered" /\ at[c] = 0
          /\ UNCHANGED <<input, at, code, metricVars, logged, handled, panicked>>
        BY DEF Answer, Shape
    <1>2. Shape'
        BY <1>1 DEF Answer, Shape, input, Phases
    <1>3. Frame(c)
        BY <1>1 DEF Answer, Shape, Frame
    <1>4. CallInv(c)'
        <2>1. c \in handled' => Passed(c, Len(Chain(method[c])))'
            BY <1>1 DEF CallInv, Passed, Exempt, input
        <2>2. at'[c] <= Len(Chain(method'[c])) /\ (c \in Unseen' <=> c \in Unseen)
            BY <1>1 DEF CallInv, input, Unseen
        <2> QED BY <1>1, <2>1, <2>2 DEF CallInv
    <1>5. Unmeasured(c)
        BY <1>1 DEF Unmeasured, InMetrics, BehindMetrics, input, Unseen
    <1> QED BY <1>2, <1>3, <1>4, <1>5

(* The call comes out of an interceptor that neither logs nor recovers.    *)
LEMMA OutStep ==
    ASSUME Shape, NEW c \in Calls, CallInv(c), NEW p, NEW i, Leaves(c, p, i),
           \/ p = "returning" /\ at[c] >= 2
           \/ p = "panicking" /\ at[c] >= 3,
           UNCHANGED <<input, phase, code, logged, handled, panicked>>
    PROVE  Shape' /\ Frame(c) /\ CallInv(c)'
    <1>1. /\ phase[c] = p /\ at[c] \in 1 .. Len(Chain(method[c]))
          /\ at'[c] = at[c] - 1 /\ at'[c] \in Nat /\ at' \in [Calls -> Nat]
          /\ \A d \in Calls \ {c} : at'[d] = at[d]
          /\ c \notin Unseen
        BY LeavesFacts
    <1>2. Shape'
        BY <1>1 DEF Shape, input
    <1>3. Frame(c)
        BY <1>1 DEF Frame
    <1>4. c \notin Unseen'
        BY <1>1 DEF Unseen, input
    <1>5. c \in handled' => Passed(c, Len(Chain(method[c])))'
        BY DEF CallInv, Passed, Exempt, input
    <1>6. at'[c] <= Len(Chain(method'[c])) /\ at'[c] >= 1 /\ (p = "panicking" => at'[c] >= 2)
        BY <1>1, ChainFacts DEF input
    <1>7. at[c] >= 2
        BY <1>1
    <1>8. c \in panicked' <=> c \in panicked
        OBVIOUS
    <1>9. c \in panicked => p = "panicking"
        BY <1>1, <1>7 DEF CallInv
    <1>10. logged'[c] = <<>>
        BY <1>1, <1>7 DEF CallInv
    <1>11. phase'[c] = p /\ p \in {"returning", "panicking"} /\ (p = "panicking" => c \in panicked)
        BY <1>1 DEF CallInv
    <1>12. CallInv(c)'
        BY <1>1, <1>4, <1>5, <1>6, <1>8, <1>9, <1>10, <1>11 DEF CallInv
    <1> QED BY <1>2, <1>3, <1>12

LEMMA OutOfOtherStep ==
    ASSUME Shape, NEW c \in Calls, CallInv(c), LeaveOther(c) \/ UnwindOther(c)
    PROVE  Shape' /\ Frame(c) /\ CallInv(c)' /\ Unmeasured(c)
    <1>1. PICK p, i :
              /\ Leaves(c, p, i)
              /\ \/ p = "returning" /\ i \in {"recovery", "auth", "ratelimit"}
                 \/ p = "panicking" /\ i \in {"auth", "ratelimit", "logging"}
              /\ UNCHANGED <<input, phase, code, metricVars, logged, handled, panicked>>
        BY DEF LeaveOther, UnwindOther
    <1>2. /\ phase[c] = p /\ at[c] \in 1 .. Len(Chain(method[c]))
          /\ Chain(method[c])[at[c]] = i
          /\ at'[c] = at[c] - 1 /\ at'[c] \in Nat
        BY <1>1, LeavesFacts
    <1>3. i = "logging" => at[c] >= 2
        BY <1>1, <1>2 DEF CallInv
    <1>4. \/ p = "returning" /\ at[c] = 2
          \/ p \in {"returning", "panicking"} /\ at[c] > 3
        <2>1. CASE i = "logging"
            BY <1>2, <1>3, <2>1, Standing
        <2>2. CASE i = "recovery"
            BY <1>1, <1>2, <2>2, Standing
        <2>3. CASE i \in {"auth", "ratelimit"}
            BY <1>1, <1>2, <2>3, Standing
        <2> QED BY <1>1, <2>1, <2>2, <2>3
    <1>5. \/ p = "returning" /\ at[c] >= 2
          \/ p = "panicking" /\ at[c] >= 3
        BY <1>2, <1>4
    <1>6. Shape' /\ Frame(c) /\ CallInv(c)'
        BY <1>1, <1>5, OutStep
    <1>7. InMetrics(c)' <=> InMetrics(c)
        BY <1>1, <1>2, <1>4 DEF InMetrics, input
    <1>8. at[c] < 3 <=> at'[c] < 3
        BY <1>2, <1>4
    <1>9. Unmeasured(c)
        BY <1>1, <1>7, <1>8 DEF Unmeasured, BehindMetrics, Unseen, input
    <1> QED BY <1>6, <1>9

LEMMA OutOfMetricsStep ==
    ASSUME Shape, NEW c \in Calls, CallInv(c), LeaveMetrics(c) \/ UnwindMetrics(c)
    PROVE  /\ Shape' /\ Frame(c) /\ CallInv(c)'
           /\ active' = active - 1
           /\ InMetrics(c) /\ ~InMetrics(c)'
           /\ ~BehindMetrics(c) /\ code'[c] = code[c] /\ code[c] \in Codes
           /\ \/ BehindMetrics(c)' /\ counted' = [counted EXCEPT ![code[c]] = @ + 1]
              \/ ~BehindMetrics(c)' /\ UNCHANGED counted
    <1>1. PICK p \in {"returning", "panicking"} :
              /\ Leaves(c, p, "metrics")
              /\ active' = active - 1
              /\ \/ p = "returning" /\ counted' = [counted EXCEPT ![code[c]] = @ + 1]
                 \/ p = "panicking" /\ UNCHANGED counted
              /\ UNCHANGED <<input, phase, code, logged, handled, panicked>>
        BY DEF LeaveMetrics, UnwindMetrics
    <1>2. /\ phase[c] = p /\ at[c] \in 1 .. Len(Chain(method[c]))
          /\ Chain(method[c])[at[c]] = "metrics"
          /\ at'[c] = at[c] - 1 /\ at'[c] \in Nat /\ c \notin Unseen
        BY <1>1, LeavesFacts
    <1>3. at[c] = 3 /\ method[c] # "stream"
        BY <1>2, Standing
    <1>4. Shape' /\ Frame(c) /\ CallInv(c)'
        BY <1>1, <1>3, OutStep
    <1>5. InMetrics(c) /\ ~InMetrics(c)'
        BY <1>2, <1>3 DEF InMetrics
    <1>6. ~BehindMetrics(c)
        BY <1>3 DEF BehindMetrics
    <1>7. p = "returning" => c \notin panicked
        BY <1>2, <1>3 DEF CallInv
    <1>8. p = "returning" <=> BehindMetrics(c)'
        BY <1>1, <1>2, <1>3, <1>7 DEF BehindMetrics, Unseen, input
    <1>9. code[c] \in Codes /\ code'[c] = code[c]
        BY <1>1 DEF Shape
    <1> QED BY <1>1, <1>4, <1>5, <1>6, <1>8, <1>9

(* recovery turns a panic into codes.Internal.                             *)
LEMMA RecoverStep ==
    ASSUME Shape, NEW c \in Calls, CallInv(c), Recover(c)
    PROVE  Shape' /\ Frame(c) /\ CallInv(c)' /\ Unmeasured(c)
    <1>1. /\ Leaves(c, "panicking", "recovery")
          /\ phase' = [phase EXCEPT ![c] = "returning"]
          /\ code' = [code EXCEPT ![c] = "Internal"]
          /\ UNCHANGED <<input, metricVars, logged, handled, panicked>>
        BY DEF Recover
    <1>2. /\ phase[c] = "panicking" /\ at[c] \in 1 .. Len(Chain(method[c]))
          /\ Chain(method[c])[at[c]] = "recovery"
          /\ at'[c] = at[c] - 1 /\ at' \in [Calls -> Nat]
          /\ \A d \in Calls \ {c} : at'[d] = at[d]
          /\ c \notin Unseen
        BY <1>1, LeavesFacts
    <1>3. at[c] = 2 /\ at'[c] = 1
        BY <1>2, Standing
    <1>4. phase'[c] = "returning" /\ code'[c] = "Internal" /\ c \in panicked
        BY <1>1, <1>2 DEF Shape, CallInv
    <1>5. Shape'
        BY <1>1, <1>2 DEF Shape, input, Phases, Codes
    <1>6. Frame(c)
        BY <1>1, <1>2 DEF Frame, Shape
    <1>7. CallInv(c)'
        <2>1. c \in handled' => Passed(c, Len(Chain(method[c])))'
            BY <1>1 DEF CallInv, Passed, Exempt, input
        <2>2. at'[c] <= Len(Chain(method'[c])) /\ c \notin Unseen'
            BY <1>1, <1>2, <1>3, ChainFacts DEF Unseen, input
        <2>3. logged'[c] = <<>>
            BY <1>1, <1>2 DEF CallInv
        <2> QED BY <1>1, <1>3, <1>4, <2>1, <2>2, <2>3 DEF CallInv
    <1>8. Unmeasured(c)
        BY <1>1, <1>2, <1>3, <1>4 DEF Unmeasured, InMetrics, BehindMetrics, input
    <1> QED BY <1>5, <1>6, <1>7, <1>8

LEMMA AppendToNothing ==
    ASSUME NEW S, NEW x \in S
    PROVE  Append(<<>>, x) = <<x>>
    <1>1. <<>> \in Seq(S) /\ <<x>> \in Seq(S)
        OBVIOUS
    <1>2. Append(<<>>, x) = <<>> \o <<x>>
        BY <1>1, AppendIsConcat
    <1> QED BY <1>1, <1>2, ConcatEmptySeq

(* logging is the last to see the call, and logs what it returns with.     *)
LEMMA LeaveLoggingStep ==
    ASSUME Shape, NEW c \in Calls, CallInv(c), LeaveLogging(c)
    PROVE  Shape' /\ Frame(c) /\ CallInv(c)' /\ Unmeasured(c)
    <1>1. /\ Leaves(c, "returning", "logging")
          /\ logged' = [logged EXCEPT ![c] = Append(@, code[c])]
          /\ UNCHANGED <<input, phase, code, metricVars, handled, panicked>>
        BY DEF LeaveLogging
    <1>2. /\ phase[c] = "returning" /\ at[c] \in 1 .. Len(Chain(method[c]))
          /\ Chain(method[c])[at[c]] = "logging"
          /\ at'[c] = at[c] - 1 /\ at' \in [Calls -> Nat]
          /\ \A d \in Calls \ {c} : at'[d] = at[d]
          /\ c \notin Unseen
        BY <1>1, LeavesFacts
    <1>3. at[c] = 1 /\ at'[c] = 0
        BY <1>2, Standing
    <1>4. code[c] \in Codes /\ logged[c] \in Seq(Codes) /\ logged[c] = <<>>
        BY <1>3 DEF Shape, CallInv
    <1>5. Append(logged[c], code[c]) = <<code[c]>> /\ <<code[c]>> \in Seq(Codes)
        BY <1>4, AppendToNothing
    <1>6. /\ logged' \in [Calls -> Seq(Codes)] /\ logged'[c] = <<code[c]>>
          /\ \A d \in Calls \ {c} : logged'[d] = logged[d]
        BY <1>1, <1>5 DEF Shape
    <1>7. Shape'
        BY <1>1, <1>2, <1>6 DEF Shape, input
    <1>8. Frame(c)
        BY <1>1, <1>2, <1>6 DEF Frame
    <1>9. CallInv(c)'
        <2>1. c \in handled' => Passed(c, Len(Chain(method[c])))'
            BY <1>1 DEF CallInv, Passed, Exempt, input
        <2>2. at'[c] <= Len(Chain(method'[c])) /\ c \notin Unseen'
            BY <1>1, <1>2, <1>3, ChainFacts DEF Unseen, input
        <2>3. c \in panicked' => code'[c] = "Internal"
            BY <1>1, <1>2 DEF CallInv
        <2> QED BY <1>1, <1>2, <1>3, <1>6, <2>1, <2>2, <2>3 DEF CallInv
    <1>10. Unmeasured(c)
        BY <1>1, <1>2, <1>3 DEF Unmeasured, InMetrics, BehindMetrics, Unseen, input
    <1> QED BY <1>7, <1>8, <1>9, <1>10

-----------------------------------------------------------------------------
(* What a step of call c leaves as it is.                                  *)
LEMMA OthersKept ==
    ASSUME NEW c, Frame(c), NEW d \in Calls \ {c}
    PROVE  /\ CallInv(d) => CallInv(d)'
           /\ InMetrics(d)' <=> InMetrics(d)
           /\ BehindMetrics(d)' <=> BehindMetrics(d)
           /\ code'[d] = code[d]
    <1>1. /\ UNCHANGED input
          /\ phase'[d] = phase[d] /\ at'[d] = at[d] /\ code'[d] = code[d]
          /\ logged'[d] = logged[d]
          /\ d \in handled' <=> d \in handled
          /\ d \in panicked' <=> d \in panicked
        BY DEF Frame
    <1>2. UNCHANGED <<method, cred, garbled>> /\ (d \in Unseen' <=> d \in Unseen)
        BY <1>1 DEF input, Unseen
    <1>3. Passed(d, at[d])' = Passed(d, at[d])
        BY <1>1, <1>2 DEF Passed, Exempt
    <1>4. Passed(d, Len(Chain(method[d])))' = Passed(d, Len(Chain(method[d])))
        BY <1>1, <1>2 DEF Passed, Exempt
    <1>5. CallInv(d) => CallInv(d)'
        BY <1>1, <1>2, <1>3, <1>4 DEF CallInv
    <1> QED BY <1>1, <1>2, <1>5 DEF InMetrics, BehindMetrics

(* A step that is not measured preserves the gauge and the counters.       *)
LEMMA UnmeasuredStep ==
    ASSUME NEW c \in Calls, Frame(c), Unmeasured(c), MetricsShape, Gauge, Counters
    PROVE  MetricsShape' /\ Gauge' /\ Counters'
    <1>1. \A d \in Calls :
              /\ InMetrics(d)' <=> InMetrics(d)
              /\ BehindMetrics(d)' <=> BehindMetrics(d)
              /\ BehindMetrics(d) => code'[d] = code[d]
        BY OthersKept DEF Unmeasured
    <1>2. active' = active /\ counted' = counted
        BY DEF Unmeasured, metricVars
    <1>3. {d \in Calls : InMetrics(d)}' = {d \in Calls : InMetrics(d)}
        BY <1>1
    <1>4. \A k \in Codes : {d \in Calls : BehindMetrics(d) /\ code[d] = k}'
                             = {d \in Calls : BehindMetrics(d) /\ code[d] = k}
        BY <1>1
    <1>5. Gauge'
        BY <1>2, <1>3 DEF Gauge
    <1>6. Counters'
        BY <1>2, <1>4 DEF Counters
    <1> QED BY <1>2, <1>5, <1>6 DEF MetricsShape

LEMMA FiniteSubset ==
    ASSUME NEW S, S \subseteq Calls
    PROVE  IsFiniteSet(S) /\ Cardinality(S) \in Nat /\ Cardinality(S) <= Cardinality(Calls)
    BY CallsAssumption, FS_Subset, FS_CardinalityType

(* One more call inside metrics, one more on the gauge.                    *)
LEMMA InStep ==
    ASSUME NEW c \in Calls, Frame(c), MetricsShape, Gauge, Counters,
           active' = active + 1, UNCHANGED counted,
           ~InMetrics(c), InMetrics(c)', ~BehindMetrics(c), ~BehindMetrics(c)'
    PROVE  MetricsShape' /\ Gauge' /\ Counters'
    <1> DEFINE inside == {d \in Calls : InMetrics(d)}
    <1>1. inside' = inside \cup {c} /\ c \notin inside
        BY OthersKept
    <1>2. Cardinality(inside') = Cardinality(inside) + 1 /\ Cardinality(inside) \in Nat
        <2>1. IsFiniteSet(inside) /\ Cardinality(inside) \in Nat
            BY FiniteSubset
        <2> HIDE DEF inside
        <2> QED BY <1>1, <2>1, FS_AddElement
    <1>3. Gauge'
        BY <1>2 DEF Gauge
    <1>4. \A k \in Codes : {d \in Calls : BehindMetrics(d) /\ code[d] = k}'
                             = {d \in Calls : BehindMetrics(d) /\ code[d] = k}
        BY OthersKept
    <1>5. Counters'
        BY <1>4 DEF Counters
    <1> QED BY <1>3, <1>5 DEF MetricsShape

(* One call less inside, one less on the gauge, and if it has returned one *)
(* more under its code.                                                    *)
LEMMA OutGaugeStep ==
    ASSUME NEW c \in Calls, Frame(c), MetricsShape, Gauge, active' = active - 1,
           InMetrics(c), ~InMetrics(c)'
    PROVE  active' \in Int /\ Gauge'
    <1> DEFINE inside == {d \in Calls : InMetrics(d)}
    <1>1. inside' = inside \ {c} /\ c \in inside
        BY OthersKept
    <1>2. Cardinality(inside') = Cardinality(inside) - 1 /\ Cardinality(inside) \in Nat
        <2>1. IsFiniteSet(inside) /\ Cardinality(inside) \in Nat
            BY FiniteSubset
        <2> HIDE DEF inside
        <2> QED BY <1>1, <2>1, FS_RemoveElement
    <1> QED BY <1>2 DEF Gauge, MetricsShape

LEMMA OutCountersStep ==
    ASSUME NEW c \in Calls, Frame(c), MetricsShape, Counters,
           ~BehindMetrics(c), code'[c] = code[c], code[c] \in Codes,
           \/ BehindMetrics(c)' /\ counted' = [counted EXCEPT ![code[c]] = @ + 1]
           \/ ~BehindMetrics(c)' /\ UNCHANGED counted
    PROVE  counted' \in [Codes -> Int] /\ Counters'
    <1> DEFINE behind(k) == {d \in Calls : BehindMetrics(d) /\ code[d] = k}
    <1>1. \A k \in Codes : IsFiniteSet(behind(k)) /\ Cardinality(behind(k)) \in Nat
        BY FiniteSubset
    <1>2. \A k \in Codes : counted[k] = Cardinality(behind(k))
        BY DEF Counters
    <1>3. CASE BehindMetrics(c)' /\ counted' = [counted EXCEPT ![code[c]] = @ + 1]
        <2>1. counted' \in [Codes -> Int]
            BY <1>3 DEF MetricsShape
        <2>2. ASSUME NEW k \in Codes
              PROVE  counted'[k] = Cardinality(behind(k)')
            <3>1. CASE k = code[c]
                <4>1. behind(k)' = behind(k) \cup {c} /\ c \notin behind(k)
                    BY <1>3, <3>1, OthersKept
                <4>2. Cardinality(behind(k)') = Cardinality(behind(k)) + 1
                    <5> HIDE DEF behind
                    <5> QED BY <1>1, <4>1, FS_AddElement
                <4>3. counted'[k] = counted[k] + 1
                    BY <1>3, <3>1 DEF MetricsShape
                <4> HIDE DEF behind
                <4> QED BY <1>2, <4>2, <4>3
            <3>2. CASE k # code[c]
                <4>1. behind(k)' = behind(k)
                    BY <3>2, OthersKept
                <4>2. counted'[k] = counted[k]
                    BY <1>3, <3>2 DEF MetricsShape
                <4> HIDE DEF behind
                <4> QED BY <1>2, <4>1, <4>2
            <3> QED BY <3>1, <3>2
        <2> QED BY <2>1, <2>2 DEF Counters
    <1>4. CASE ~BehindMetrics(c)' /\ UNCHANGED counted
        <2>1. \A k \in Codes : behind(k)' = behind(k)
            BY <1>4, OthersKept
        <2>2. \A k \in Codes : counted'[k] = Cardinality(behind(k)')
            <3> HIDE DEF behind
            <3> QED BY <1>2, <1>4, <2>1
        <2> QED BY <1>4, <2>2 DEF Counters, MetricsShape
    <1> QED BY <1>3, <1>4

-----------------------------------------------------------------------------
LEMMA IInvInit ==
    ASSUME Init
    PROVE  IInv
    <1>1. Shape
        BY DEF Init, Shape, Phases, Codes
    <1>2. MetricsShape
        BY DEF Init, MetricsShape
    <1>3. ASSUME NEW c \in Calls
          PROVE  CallInv(c)
        <2>1. Len(Chain(method[c])) >= 0
            BY ChainFacts
        <2> QED BY <2>1 DEF Init, CallInv, Passed
    <1>4. Gauge
        <2>1. {c \in Calls : InMetrics(c)} = {}
            BY DEF Init, InMetrics
        <2> QED BY <2>1, FS_EmptySet DEF Init, Gauge
    <1>5. Counters
        <2>1. \A k \in Codes : {c \in Calls : BehindMetrics(c) /\ code[c] = k} = {}
            BY DEF Init, BehindMetrics
        <2> QED BY <2>1, FS_EmptySet DEF Init, Counters
    <1> QED BY <1>1, <1>2, <1>3, <1>4, <1>5 DEF IInv

LEMMA IInvStep ==
    ASSUME IInv, [Next]_vars
    PROVE  IInv'
    <1>1. Shape /\ MetricsShape /\ Gauge /\ Counters /\ \A c \in Calls : CallInv(c)
        BY DEF IInv
    <1>2. CASE UNCHANGED vars
        BY <1>1, <1>2 DEF vars, callVars, input, metricVars, IInv, Shape, MetricsShape, Gauge,
                          Counters, CallInv, InMetrics, BehindMetrics, Unseen, Passed, Exempt
    <1>3. ASSUME NEW c \in Calls,
                 Arrive(c) \/ Enter(c) \/ Handle(c) \/ Leave(c) \/ Unwind(c)
          PROVE  IInv'
        <2>1. \/ Shape' /\ Frame(c) /\ CallInv(c)' /\ Unmeasured(c)
              \/ EnterMetrics(c)
              \/ LeaveMetrics(c) \/ UnwindMetrics(c)
            BY <1>1, <1>3, ArriveStep, EnterStep, EnterAddedStep, HandleStep, AnswerStep,
               OutOfOtherStep, RecoverStep, LeaveLoggingStep DEF Enter, Leave, Unwind
        <2>2. CASE Shape' /\ Frame(c) /\ CallInv(c)' /\ Unmeasured(c)
            <3>1. \A d \in Calls : CallInv(d)'
                BY <1>1, <2>2, OthersKept
            <3> QED BY <1>1, <2>2, <3>1, UnmeasuredStep DEF IInv
        <2>3. CASE EnterMetrics(c)
            <3>1. /\ Shape' /\ Frame(c) /\ CallInv(c)'
                  /\ active' = active + 1 /\ UNCHANGED counted
                  /\ ~InMetrics(c) /\ InMetrics(c)'
                  /\ ~BehindMetrics(c) /\ ~BehindMetrics(c)'
                BY <1>1, <2>3, EnterMetricsStep
            <3>2. \A d \in Calls : CallInv(d)'
                BY <1>1, <3>1, OthersKept
            <3> QED BY <1>1, <3>1, <3>2, InStep DEF IInv
        <2>4. CASE LeaveMetrics(c) \/ UnwindMetrics(c)
            <3>1. /\ Shape' /\ Frame(c) /\ CallInv(c)'
                  /\ active' = active - 1
                  /\ InMetrics(c) /\ ~InMetrics(c)'
                  /\ ~BehindMetrics(c) /\ code'[c] = code[c] /\ code[c] \in Codes
                  /\ \/ BehindMetrics(c)' /\ counted' = [counted EXCEPT ![code[c]] = @ + 1]
                     \/ ~BehindMetrics(c)' /\ UNCHANGED counted
                BY <1>1, <2>4, OutOfMetricsStep
            <3>2. \A d \in Calls : CallInv(d)'
                BY <1>1, <3>1, OthersKept
            <3>3. active' \in Int /\ Gauge'
                BY <1>1, <3>1, OutGaugeStep
            <3>4. counted' \in [Codes -> Int] /\ Counters'
                BY <1>1, <3>1, OutCountersStep
            <3> QED BY <3>1, <3>2, <3>3, <3>4 DEF IInv, MetricsShape
        <2> QED BY <2>1, <2>2, <2>3, <2>4
    <1> QED BY <1>2, <1>3 DEF Next

(* IInv is inductive.                                                      *)
THEOREM Inductive == Spec => []IInv
    <1>1. Init => IInv
        BY IInvInit
    <1>2. IInv /\ [Next]_vars => IInv'
        BY IInvStep
    <1> QED BY <1>1, <1>2, PTL DEF Spec

-----------------------------------------------------------------------------
(* The counters stay between zero and the number of calls, and no call is  *)
(* logged twice.                                                           *)
THEOREM TypeCorrect == Spec => []TypeOK
    <1>1. ASSUME IInv PROVE TypeOK
        <2> USE <1>1
        <2>1. Shape /\ MetricsShape /\ Gauge /\ Counters /\ \A c \in Calls : CallInv(c)
            BY DEF IInv
        <2>2. Cardinality(Calls) \in Nat
            BY FiniteSubset
        <2>3. active \in 0 .. Cardinality(Calls)
            <3>1. /\ Cardinality({c \in Calls : InMetrics(c)}) \in Nat
                  /\ Cardinality({c \in Calls : InMetrics(c)}) <= Cardinality(Calls)
                BY FiniteSubset
            <3> QED BY <2>1, <2>2, <3>1 DEF Gauge
        <2>4. counted \in [Codes -> 0 .. Cardinality(Calls)]
            <3> DEFINE behind(k) == {c \in Calls : BehindMetrics(c) /\ code[c] = k}
            <3>1. \A k \in Codes : /\ Cardinality(behind(k)) \in Nat
                                   /\ Cardinality(behind(k)) <= Cardinality(Calls)
                BY FiniteSubset
            <3>2. \A k \in Codes : counted[k] = Cardinality(behind(k))
                BY <2>1 DEF Counters
            <3> HIDE DEF behind
            <3>3. \A k \in Codes : counted[k] \in 0 .. Cardinality(Calls)
                BY <2>2, <3>1, <3>2
            <3> QED BY <2>1, <3>3 DEF MetricsShape
        <2>5. \A c \in Calls : Len(logged[c]) <= 1
            <3> SUFFICES ASSUME NEW c \in Calls PROVE Len(logged[c]) <= 1
                OBVIOUS
            <3>1. logged[c] = <<code[c]>> \/ logged[c] = <<>>
                BY <2>1 DEF CallInv
            <3>2. Len(<<code[c]>>) = 1 /\ Len(<<>>) = 0
                OBVIOUS
            <3>3. CASE logged[c] = <<code[c]>>
                BY <3>2, <3>3
            <3>4. CASE logged[c] = <<>>
                BY <3>2, <3>4
            <3> QED BY <3>1, <3>3, <3>4
        <2> QED BY <2>1, <2>3, <2>4, <2>5 DEF TypeOK, Shape, CallInv, Phases
    <1> QED BY <1>1, Inductive, PTL

(* Inside, for interceptor metrics.                                        *)
LEMMA InsideMetrics ==
    ASSUME IInv, NEW c \in Calls
    PROVE  Inside(c, "metrics") <=> InMetrics(c)
    <1>1. at[c] \in Nat /\ at[c] <= Len(Chain(method[c])) /\ Len(Chain(method[c])) \in Nat
        BY ChainFacts DEF IInv, Shape, CallInv
    <1>2. CASE at[c] < 3
        <2>1. \A n \in 1 .. at[c] : Chain(method[c])[n] # "metrics"
            BY <1>1, <1>2, Standing
        <2> QED BY <1>1, <1>2, <2>1 DEF Inside, InMetrics
    <1>3. CASE at[c] >= 3
        <2>1. 3 \in 1 .. at[c] /\ 3 \in 1 .. Len(Chain(method[c]))
            BY <1>1, <1>3
        <2>2. Chain(method[c])[3] = "metrics" /\ method[c] # "stream"
            BY <2>1, Standing
        <2> QED BY <1>3, <2>1, <2>2 DEF Inside, InMetrics
    <1> QED BY <1>1, <1>2, <1>3

(* The gauge never drifts: with any number of concurrent calls, each       *)
(* returning, turned back or panicking, grpc_active_requests is the number *)
(* of unary calls in flight.                                               *)
THEOREM GaugeNeverDrifts == Spec => []GaugeIsExact
    <1>1. ASSUME IInv PROVE GaugeIsExact
        <2>1. {c \in Calls : Inside(c, "metrics")} = {c \in Calls : InMetrics(c)}
            BY <1>1, InsideMetrics
        <2> QED BY <1>1, <2>1 DEF IInv, Gauge, GaugeIsExact
    <1> QED BY <1>1, Inductive, PTL

(* No panic of user code passes the chain, whatever a service adds to it,  *)
(* and its client is told codes.Internal.                                  *)
THEOREM PanicsEndInRecovery == Spec => []PanicsAreContained
    <1>1. IInv => PanicsAreContained
        <2> SUFFICES ASSUME IInv, NEW c \in panicked
                     PROVE  /\ ~(phase[c] = "panicking" /\ at[c] = 0)
                            /\ phase[c] = "answered" => code[c] = "Internal"
            BY DEF PanicsAreContained
        <2>1. c \in Calls /\ CallInv(c)
            BY DEF IInv, Shape
        <2> QED BY <2>1 DEF CallInv
    <1> QED BY <1>1, Inductive, PTL

(* Each answered call that the chain has seen is logged once, with the     *)
(* code its client got, on every path through the chain.                   *)
THEOREM LogTellsTheAnswer == Spec => []LoggedAsAnswered
    <1>1. IInv => LoggedAsAnswered
        BY DEF IInv, CallInv, LoggedAsAnswered
    <1> QED BY <1>1, Inductive, PTL

(* metrics.go:61-66: grpc_requests_total has each call that returned       *)
(* through metrics under its code, and no call twice or under another.     *)
THEOREM CountersAreRight == Spec => []CountedByCode
    <1>1. ASSUME IInv, NEW k \in Codes
          PROVE  /\ Cardinality(Measured(k)) <= counted[k]
                 /\ counted[k] <= Cardinality(Countable(k))
        <2>1. ASSUME NEW c \in Calls
              PROVE  /\ c \in Out \ (panicked \cup Unseen)
                     /\ method[c] # "stream"
                     <=> BehindMetrics(c)
            <3>1. Inside(c, "metrics") <=> InMetrics(c)
                BY <1>1, InsideMetrics
            <3>2. at[c] \in Nat
                BY <1>1 DEF IInv, Shape
            <3>3. at[c] < 3 <=> ~(at[c] >= 3)
                BY <3>2
            <3>4. c \notin panicked => phase[c] # "panicking"
                BY <1>1 DEF IInv, CallInv
            <3> QED BY <3>1, <3>3, <3>4 DEF Out, InMetrics, BehindMetrics
        <2>2. Measured(k) = {c \in Calls : BehindMetrics(c) /\ code[c] = k}
            BY <2>1 DEF Measured, Out
        <2>3. counted[k] = Cardinality(Measured(k))
            BY <1>1, <2>2 DEF IInv, Counters
        <2>4. Measured(k) \subseteq Countable(k) /\ Countable(k) \subseteq Calls
            BY DEF Measured, Countable, Out
        <2>5. /\ IsFiniteSet(Countable(k))
              /\ Cardinality(Measured(k)) <= Cardinality(Countable(k))
              /\ Cardinality(Measured(k)) \in Nat
            BY <2>4, CallsAssumption, FS_Subset, FS_CardinalityType
        <2> QED BY <2>3, <2>5
    <1>2. IInv => CountedByCode
        <2> SUFFICES ASSUME IInv PROVE CountedByCode
            OBVIOUS
        <2> QED BY <1>1 DEF CountedByCode
    <1> QED BY <1>2, Inductive, PTL

(* Wherever auth stands among the interceptors that a service adds, no     *)
(* unary call but a health check reaches its handler without a token that  *)
(* validateToken accepted.                                                 *)
THEOREM AuthAdmits == Spec => []OnlyAdmitted
    <1>1. IInv => OnlyAdmitted
        <2> SUFFICES ASSUME IInv, NEW c \in handled, method[c] \in {"GetUser", "LogEvent"},
                            NEW n \in 1 .. Len(Added), Added[n] = "auth"
                     PROVE  cred[c] = "accepted"
            BY DEF OnlyAdmitted
        <2>1. c \in Calls /\ Passed(c, Len(Chain(method[c])))
            BY DEF IInv, Shape, CallInv
        <2>2. /\ Len(Chain(method[c])) = 3 + Len(Added) /\ Chain(method[c])[3 + n] = Added[n]
            <3>1. method[c] # "stream"
                OBVIOUS
            <3> QED BY <3>1, ChainFacts
        <2>3. 3 + n \in 1 .. Len(Chain(method[c]))
            BY <2>2, AddedAssumption
        <2> QED BY <2>1, <2>2, <2>3 DEF Passed, Exempt
    <1> QED BY <1>1, Inductive, PTL
=============================================================================
