------------------------- MODULE RateLimiterProofs -------------------------
(***************************************************************************)
(* Proofs about RateLimiter for every number of keys, callers and tokens,  *)
(* every refill rate and every clock value.                                *)
(***************************************************************************)
EXTENDS RateLimiter, FiniteSetTheorems, TLAPS

-----------------------------------------------------------------------------
(* Integer division, as Refilled uses it.                                  *)
LEMMA DivBound ==
    ASSUME NEW e \in Nat, NEW r \in Nat \ {0}
    PROVE  e \div r \in Nat /\ (e \div r) * r <= e
    BY SMT

LEMMA DivPositive ==
    ASSUME NEW e \in Nat, NEW r \in Nat \ {0}, e >= r
    PROVE  e \div r >= 1
    BY SMT

LEMMA TimesMonotone ==
    ASSUME NEW a \in Int, NEW b \in Int, NEW r \in Nat, a <= b
    PROVE  a * r <= b * r
    BY SMT

LEMMA TimesDistributes ==
    ASSUME NEW a \in Int, NEW b \in Int, NEW r \in Nat
    PROVE  (a + b) * r = a * r + b * r
    BY SMT

(* Tokens and grants before and after a refill that spends what it earned. *)
LEMMA BudgetArithmetic ==
    ASSUME NEW g \in Nat, NEW k \in Nat, NEW k2 \in Nat, NEW l \in Nat, NEW l2 \in Nat,
           NEW from \in Nat, NEW m \in Nat, NEW r \in Nat,
           (k2 - k) * r <= l2 - l,
           (g + k - m) * r <= l - from
    PROVE  (g + k2 - m) * r <= l2 - from
    <1>1. g + k2 - m = (g + k - m) + (k2 - k)
        OBVIOUS
    <1>2. (g + k2 - m) * r = (g + k - m) * r + (k2 - k) * r
        BY <1>1, TimesDistributes
    <1> DEFINE x == (g + k - m) * r
               y == (k2 - k) * r
    <1>3. x \in Int /\ y \in Int
        OBVIOUS
    <1> HIDE DEF x, y
    <1> QED BY <1>2, <1>3 DEF x, y

(* What a refill returns: a well-formed bucket that is not in the future,  *)
(* that gained no more tokens than were earned, and that has one if it was *)
(* refilled at all.                                                        *)
LEMMA RefilledFacts ==
    ASSUME now \in Nat, NEW b \in TokenBucket, b.lastRefill <= now
    PROVE  /\ Refilled(b) \in TokenBucket
           /\ Refilled(b).lastRefill <= now
           /\ (Refilled(b).tokens - b.tokens) * RefillRate
                  <= Refilled(b).lastRefill - b.lastRefill
    <1> DEFINE e == now - b.lastRefill
               q == e \div RefillRate
               n == AtMost(b.tokens + q, MaxTokens)
    <1>1. /\ e \in Nat
          /\ RefillRate \in Nat \ {0}
          /\ MaxTokens \in Nat
          /\ b.tokens \in 0 .. MaxTokens
          /\ b.lastRefill \in Nat
        BY RatesAssumption, TokensAssumption DEF TokenBucket
    <1>2. q \in Nat /\ q * RefillRate <= e
        BY <1>1, DivBound
    <1>3. n \in 0 .. MaxTokens /\ n - b.tokens \in Int /\ n - b.tokens <= q
        BY <1>1, <1>2 DEF AtMost
    <1>4. (n - b.tokens) * RefillRate <= q * RefillRate
        BY <1>1, <1>2, <1>3, TimesMonotone
    <1>5. (n - b.tokens) * RefillRate <= e
        <2> HIDE DEF n, q, e
        <2>1. (n - b.tokens) * RefillRate \in Int /\ q * RefillRate \in Int
            BY <1>1, <1>2, <1>3
        <2> QED BY <2>1, <1>1, <1>2, <1>4
    <1>6. CASE e >= RefillRate
        <2>1. Refilled(b) = [tokens |-> n, lastRefill |-> now]
            BY <1>6 DEF Refilled
        <2> QED BY <2>1, <1>1, <1>3, <1>5 DEF TokenBucket
    <1>7. CASE ~(e >= RefillRate)
        <2>1. Refilled(b) = b
            BY <1>7 DEF Refilled
        <2> QED BY <2>1, <1>1 DEF TokenBucket
    <1> QED BY <1>6, <1>7

-----------------------------------------------------------------------------
(* The inductive invariant of the component: well-typed state, a sweep     *)
(* that visits only keys with a bucket (rl.mu is held, so nothing removes  *)
(* them behind its back), no bucket in the future, and the two invariants  *)
(* on tokens.                                                              *)
SweepInv ==
    /\ cleaner # "sweeping" => toVisit = {}
    /\ \A k \in toVisit : tokens[k] # NoBucket

ClockInv == \A b \in Buckets : bucket[b].lastRefill <= now

IInv == TypeOK /\ SweepInv /\ ClockInv /\ BucketBudget /\ UsedIsNotFull

LEMMA TypeInit ==
    ASSUME Init
    PROVE  TypeOK
    <1>1. bucket \in [Buckets -> TokenBucket]
        BY TokensAssumption DEF Init, TokenBucket
    <1>2. \A t \in Threads : pc[t] = "holding" <=> held[t] # NoBucket
        BY DEF Init
    <1> QED BY <1>1, <1>2 DEF Init, TypeOK, Unopened

LEMMA HeldIsBucket ==
    ASSUME TypeOK, NEW t \in Threads, pc[t] = "holding"
    PROVE  held[t] \in Buckets
    BY DEF TypeOK

-----------------------------------------------------------------------------
(* Type correctness is inductive once a sweep visits existing buckets.     *)
LEMMA TypeStep ==
    ASSUME TypeOK, SweepInv, ClockInv, [Next]_vars
    PROVE  TypeOK'
    <1> USE TokensAssumption, NoBucketAssumption
    <1>1. ASSUME NEW t \in Threads, NEW k \in Keys, Call(t, k)
          PROVE  TypeOK'
        BY <1>1 DEF TypeOK, Call, history
    <1>2. ASSUME NEW t \in Threads, Lookup(t)
          PROVE  TypeOK'
        <2>1. CASE tokens[key[t]] # NoBucket
            BY <1>2, <2>1 DEF TypeOK, Lookup
        <2>2. CASE tokens[key[t]] = NoBucket
            <3>1. PICK b \in Buckets \ Reachable :
                     /\ NewBucket(b)
                     /\ tokens' = [tokens EXCEPT ![key[t]] = b]
                     /\ held' = [held EXCEPT ![t] = b]
                BY <1>2, <2>2 DEF Lookup
            <3>2. bucket' \in [Buckets -> TokenBucket] /\ born' \in [Buckets -> Nat]
                      /\ grants' \in [Buckets -> Nat]
                BY <3>1 DEF TypeOK, NewBucket, TokenBucket
            <3>3. opened' \in [Keys -> Nat \cup {Unopened}]
                BY <1>2, <2>2 DEF TypeOK, Lookup
            <3>4. tokens' \in [Keys -> Buckets \cup {NoBucket}]
                      /\ held' \in [Threads -> Buckets \cup {NoBucket}]
                BY <3>1 DEF TypeOK
            <3>5. pc' = [pc EXCEPT ![t] = "holding"]
                BY <1>2 DEF Lookup
            <3>6. \A s \in Threads : pc'[s] = "holding" <=> held'[s] # NoBucket
                BY <3>1, <3>5 DEF TypeOK
            <3> QED BY <1>2, <3>2, <3>3, <3>4, <3>5, <3>6 DEF TypeOK, Lookup
        <2> QED BY <2>1, <2>2
    <1>3. ASSUME NEW t \in Threads, Take(t)
          PROVE  TypeOK'
        <2> DEFINE b == held[t]
                   r == Refilled(bucket[b])
        <2>1. b \in Buckets /\ bucket[b] \in TokenBucket
            BY <1>3, HeldIsBucket DEF Take, TypeOK
        <2>2. r \in TokenBucket
            BY <2>1, RefilledFacts DEF TypeOK, ClockInv
        <2>3. bucket' \in [Buckets -> TokenBucket]
            <3> HIDE DEF r
            <3>1. CASE bucket' = [bucket EXCEPT ![b] = r]
                BY <3>1, <2>1, <2>2 DEF TypeOK
            <3>2. CASE /\ r.tokens > 0
                       /\ bucket' = [bucket EXCEPT ![b] = [r EXCEPT !.tokens = r.tokens - 1]]
                BY <3>2, <2>1, <2>2 DEF TypeOK, TokenBucket
            <3> QED BY <1>3, <3>1, <3>2 DEF Take, r
        <2>4. grants' \in [Buckets -> Nat] /\ granted' \in [Keys -> Nat]
            BY <1>3, <2>1 DEF TypeOK, Take
        <2> QED BY <1>3, <2>3, <2>4 DEF TypeOK, Take
    <1>4. ASSUME Cleanup
          PROVE  TypeOK'
        <2>1. CASE Wake
            BY <2>1 DEF TypeOK, Wake, history
        <2>2. CASE BeginSweep
            BY <2>2 DEF TypeOK, BeginSweep, history
        <2>3. ASSUME NEW k \in Keys, SweepBucket(k)
              PROVE  TypeOK'
            BY <2>3 DEF TypeOK, SweepBucket, history
        <2>4. CASE EndSweep
            BY <2>4 DEF TypeOK, EndSweep, history
        <2> QED BY <1>4, <2>1, <2>2, <2>3, <2>4 DEF Cleanup
    <1>5. CASE Tick
        BY <1>5 DEF TypeOK, Tick, history
    <1>6. CASE Stop
        BY <1>6 DEF TypeOK, Stop, history
    <1>7. CASE UNCHANGED vars
        BY <1>7 DEF TypeOK, vars, code, history
    <1> QED BY <1>1, <1>2, <1>3, <1>4, <1>5, <1>6, <1>7 DEF Next

LEMMA SweepStep ==
    ASSUME TypeOK, SweepInv, [Next]_vars
    PROVE  SweepInv'
    <1>1. ASSUME NEW t \in Threads, NEW k \in Keys, Call(t, k)
          PROVE  SweepInv'
        BY <1>1 DEF SweepInv, Call
    <1>2. ASSUME NEW t \in Threads, Lookup(t)
          PROVE  SweepInv'
        BY <1>2 DEF SweepInv, Lookup, MuIsFree
    <1>3. ASSUME NEW t \in Threads, Take(t)
          PROVE  SweepInv'
        BY <1>3 DEF SweepInv, Take
    <1>4. ASSUME Cleanup
          PROVE  SweepInv'
        BY <1>4 DEF SweepInv, TypeOK, Cleanup, Wake, BeginSweep, SweepBucket, EndSweep
    <1>5. CASE Tick
        BY <1>5 DEF SweepInv, Tick
    <1>6. CASE Stop
        BY <1>6 DEF SweepInv, Stop
    <1>7. CASE UNCHANGED vars
        BY <1>7 DEF SweepInv, vars, code
    <1> QED BY <1>1, <1>2, <1>3, <1>4, <1>5, <1>6, <1>7 DEF Next

-----------------------------------------------------------------------------
(* Only Allow touches the heap: by creating a bucket or by taking a token. *)
LEMMA HeapStep ==
    ASSUME TypeOK, [Next]_vars
    PROVE  \/ UNCHANGED <<bucket, born, grants>> /\ now' \in {now, now + 1}
           \/ UNCHANGED now /\ \E b \in Buckets : NewBucket(b)
           \/ \E t \in Threads : Take(t)
    <1>0. now \in Nat
        BY DEF TypeOK
    <1>1. ASSUME NEW t \in Threads, NEW k \in Keys, Call(t, k)
          PROVE  UNCHANGED <<bucket, born, grants>> /\ now' \in {now, now + 1}
        BY <1>0, <1>1 DEF Call, history
    <1>2. ASSUME NEW t \in Threads, Lookup(t)
          PROVE  \/ UNCHANGED <<bucket, born, grants>> /\ now' \in {now, now + 1}
                 \/ UNCHANGED now /\ \E b \in Buckets : NewBucket(b)
        BY <1>0, <1>2 DEF Lookup
    <1>3. ASSUME Cleanup
          PROVE  UNCHANGED <<bucket, born, grants>> /\ now' \in {now, now + 1}
        BY <1>0, <1>3 DEF Cleanup, Wake, BeginSweep, SweepBucket, EndSweep, history
    <1>4. ASSUME Tick \/ Stop \/ UNCHANGED vars
          PROVE  UNCHANGED <<bucket, born, grants>> /\ now' \in {now, now + 1}
        BY <1>0, <1>4 DEF Tick, Stop, vars, code, history
    <1> QED BY <1>1, <1>2, <1>3, <1>4 DEF Next

(* What a call of Allow leaves in the bucket it has locked: r is the       *)
(* bucket after the refill.                                                *)
LEMMA TakeFacts ==
    ASSUME TypeOK, ClockInv, NEW t \in Threads, Take(t)
    PROVE  \E b \in Buckets, r \in TokenBucket :
               /\ r = Refilled(bucket[b])
               /\ now' = now /\ born' = born
               /\ \/ /\ r.tokens > 0
                     /\ bucket' = [bucket EXCEPT ![b] =
                            [tokens |-> r.tokens - 1, lastRefill |-> r.lastRefill]]
                     /\ grants' = [grants EXCEPT ![b] = @ + 1]
                  \/ /\ r.tokens = 0
                     /\ bucket' = [bucket EXCEPT ![b] = r]
                     /\ grants' = grants
    <1> DEFINE b == held[t]
               r == Refilled(bucket[b])
    <1>1. b \in Buckets /\ bucket[b] \in TokenBucket
        BY HeldIsBucket DEF Take, TypeOK
    <1>2. r \in TokenBucket
        BY <1>1, RefilledFacts DEF TypeOK, ClockInv
    <1>3. now' = now /\ born' = born
        BY DEF Take
    <1>4. \/ /\ r.tokens > 0
             /\ bucket' = [bucket EXCEPT ![b] = [r EXCEPT !.tokens = r.tokens - 1]]
             /\ grants' = [grants EXCEPT ![b] = @ + 1]
          \/ /\ r.tokens = 0
             /\ bucket' = [bucket EXCEPT ![b] = r]
             /\ grants' = grants
        BY DEF Take
    <1>5. [r EXCEPT !.tokens = r.tokens - 1]
              = [tokens |-> r.tokens - 1, lastRefill |-> r.lastRefill]
        <2> HIDE DEF r
        <2> QED BY <1>2 DEF TokenBucket
    <1> QED
        <2> HIDE DEF r
        <2>1. r = Refilled(bucket[b])
            BY DEF r
        <2> QED BY <1>1, <1>2, <1>3, <1>4, <1>5, <2>1

LEMMA ClockStep ==
    ASSUME TypeOK, ClockInv, [Next]_vars
    PROVE  ClockInv'
    <1>1. CASE UNCHANGED <<bucket, born, grants>> /\ now' \in {now, now + 1}
        <2> SUFFICES ASSUME NEW c \in Buckets
                     PROVE  bucket'[c].lastRefill <= now'
            BY DEF ClockInv
        <2>1. now \in Nat /\ bucket[c].lastRefill \in Nat /\ bucket[c].lastRefill <= now
            BY DEF TypeOK, ClockInv, TokenBucket
        <2> QED BY <1>1, <2>1
    <1>2. ASSUME UNCHANGED now, NEW b \in Buckets, NewBucket(b)
          PROVE  ClockInv'
        BY <1>2 DEF TypeOK, ClockInv, NewBucket
    <1>3. ASSUME NEW t \in Threads, Take(t)
          PROVE  ClockInv'
        <2>1. PICK b \in Buckets, r \in TokenBucket :
                  /\ r = Refilled(bucket[b])
                  /\ now' = now
                  /\ \/ bucket' = [bucket EXCEPT ![b] =
                            [tokens |-> r.tokens - 1, lastRefill |-> r.lastRefill]]
                     \/ bucket' = [bucket EXCEPT ![b] = r]
            BY <1>3, TakeFacts
        <2>2. r.lastRefill <= now
            BY <2>1, RefilledFacts DEF TypeOK, ClockInv
        <2>3. \A c \in Buckets : bucket'[c].lastRefill =
                  IF c = b THEN r.lastRefill ELSE bucket[c].lastRefill
            BY <2>1 DEF TypeOK
        <2> QED BY <2>1, <2>2, <2>3 DEF ClockInv
    <1> QED BY <1>1, <1>2, <1>3, HeapStep

LEMMA UsedStep ==
    ASSUME TypeOK, ClockInv, UsedIsNotFull, [Next]_vars
    PROVE  UsedIsNotFull'
    <1>1. CASE UNCHANGED <<bucket, born, grants>> /\ now' \in {now, now + 1}
        BY <1>1 DEF UsedIsNotFull
    <1>2. ASSUME UNCHANGED now, NEW b \in Buckets, NewBucket(b)
          PROVE  UsedIsNotFull'
        BY <1>2 DEF TypeOK, UsedIsNotFull, NewBucket
    <1>3. ASSUME NEW t \in Threads, Take(t)
          PROVE  UsedIsNotFull'
        <2>1. PICK b \in Buckets, r \in TokenBucket :
                  \/ /\ r.tokens > 0
                     /\ bucket' = [bucket EXCEPT ![b] =
                            [tokens |-> r.tokens - 1, lastRefill |-> r.lastRefill]]
                     /\ grants' = [grants EXCEPT ![b] = @ + 1]
                  \/ /\ r.tokens = 0
                     /\ bucket' = [bucket EXCEPT ![b] = r]
                     /\ grants' = grants
            BY <1>3, TakeFacts
        <2>2. r.tokens \in 0 .. MaxTokens /\ bucket[b].tokens \in 0 .. MaxTokens
                  /\ MaxTokens \in Nat
            BY TokensAssumption DEF TypeOK, TokenBucket
        <2>3. \A c \in Buckets \ {b} : bucket'[c] = bucket[c] /\ grants'[c] = grants[c]
            BY <2>1 DEF TypeOK
        <2>4. grants'[b] > 0 => bucket'[b].tokens < MaxTokens
            BY <2>1, <2>2 DEF TypeOK, UsedIsNotFull
        <2> QED BY <2>3, <2>4 DEF UsedIsNotFull
    <1> QED BY <1>1, <1>2, <1>3, HeapStep

LEMMA BudgetStep ==
    ASSUME TypeOK, ClockInv, BucketBudget, [Next]_vars
    PROVE  BucketBudget'
    <1>0. RefillRate \in Nat /\ MaxTokens \in Nat
        BY RatesAssumption, TokensAssumption
    <1>1. CASE UNCHANGED <<bucket, born, grants>> /\ now' \in {now, now + 1}
        BY <1>1 DEF BucketBudget
    <1>2. ASSUME UNCHANGED now, NEW b \in Buckets, NewBucket(b)
          PROVE  BucketBudget'
        <2>1. \A c \in Buckets \ {b} : /\ bucket'[c] = bucket[c]
                                       /\ grants'[c] = grants[c]
                                       /\ born'[c] = born[c]
            BY <1>2 DEF TypeOK, NewBucket
        <2>2. /\ grants'[b] = 0
              /\ bucket'[b] = [tokens |-> MaxTokens, lastRefill |-> now]
              /\ born'[b] = now
            BY <1>2 DEF TypeOK, NewBucket
        <2>3. (0 + MaxTokens - MaxTokens) * RefillRate <= now - now
            BY <1>0 DEF TypeOK
        <2> QED BY <2>1, <2>2, <2>3 DEF BucketBudget
    <1>3. ASSUME NEW t \in Threads, Take(t)
          PROVE  BucketBudget'
        <2>1. PICK b \in Buckets, r \in TokenBucket :
                  /\ r = Refilled(bucket[b])
                  /\ born' = born
                  /\ \/ /\ r.tokens > 0
                        /\ bucket' = [bucket EXCEPT ![b] =
                               [tokens |-> r.tokens - 1, lastRefill |-> r.lastRefill]]
                        /\ grants' = [grants EXCEPT ![b] = @ + 1]
                     \/ /\ r.tokens = 0
                        /\ bucket' = [bucket EXCEPT ![b] = r]
                        /\ grants' = grants
            BY <1>3, TakeFacts
        <2>2. \A c \in Buckets \ {b} : bucket'[c] = bucket[c] /\ grants'[c] = grants[c]
            BY <2>1 DEF TypeOK
        <2> DEFINE g == grants[b]
                   k == bucket[b].tokens
                   l == bucket[b].lastRefill
        <2>3. /\ g \in Nat /\ k \in Nat /\ l \in Nat /\ born[b] \in Nat
              /\ r.tokens \in Nat /\ r.lastRefill \in Nat
            BY DEF TypeOK, TokenBucket
        <2>4. (r.tokens - k) * RefillRate <= r.lastRefill - l
            BY <2>1, RefilledFacts DEF TypeOK, ClockInv
        <2>5. (g + k - MaxTokens) * RefillRate <= l - born[b]
            BY DEF BucketBudget
        <2>6. /\ grants'[b] \in Nat /\ bucket'[b].tokens \in Nat
              /\ grants'[b] + bucket'[b].tokens = g + r.tokens
              /\ bucket'[b].lastRefill = r.lastRefill
              /\ born'[b] = born[b]
            BY <2>1, <2>3 DEF TypeOK
        <2>7. (grants'[b] + bucket'[b].tokens - MaxTokens) * RefillRate
                  <= bucket'[b].lastRefill - born'[b]
            <3> DEFINE s == grants'[b] + bucket'[b].tokens
            <3>1. s \in Nat /\ s = g + r.tokens
                BY <2>6
            <3> HIDE DEF g, k, l, s
            <3>2. (g + r.tokens - MaxTokens) * RefillRate <= r.lastRefill - born[b]
                BY <1>0, <2>3, <2>4, <2>5, BudgetArithmetic
            <3>3. (s - MaxTokens) * RefillRate <= r.lastRefill - born[b]
                BY <1>0, <2>3, <3>1, <3>2
            <3> QED BY <1>0, <2>3, <2>6, <3>3 DEF s
        <2> QED BY <2>1, <2>2, <2>7 DEF BucketBudget
    <1> QED BY <1>1, <1>2, <1>3, HeapStep

-----------------------------------------------------------------------------
LEMMA IInvInit ==
    ASSUME Init
    PROVE  IInv
    <1>1. SweepInv /\ ClockInv /\ UsedIsNotFull
        BY DEF Init, SweepInv, ClockInv, UsedIsNotFull
    <1>2. BucketBudget
        <2>1. (0 + 0 - MaxTokens) * RefillRate <= 0 - 0
            BY RatesAssumption, TokensAssumption
        <2> QED BY <2>1 DEF Init, BucketBudget
    <1> QED BY <1>1, <1>2, TypeInit DEF IInv

LEMMA IInvStep ==
    ASSUME IInv, [Next]_vars
    PROVE  IInv'
    BY TypeStep, SweepStep, ClockStep, BudgetStep, UsedStep DEF IInv

(* The inductive invariant of the buckets and the sweep.                   *)
THEOREM Inductive == Spec => []IInv
    <1>1. Init => IInv
        BY IInvInit
    <1>2. IInv /\ [Next]_vars => IInv'
        BY IInvStep
    <1> QED BY <1>1, <1>2, PTL DEF Spec

(* The variables have their types in every reachable state.                *)
THEOREM TypeCorrect == Spec => []TypeOK
    <1>1. IInv => TypeOK
        BY DEF IInv
    <1> QED BY <1>1, Inductive, PTL

(* ratelimit.go:62-78: no bucket ever gives out a token it has not earned. *)
THEOREM BucketNeverOverdrawn == Spec => []BucketBudget
    <1>1. IInv => BucketBudget
        BY DEF IInv
    <1> QED BY <1>1, Inductive, PTL

(* ratelimit.go:75-78: a bucket that was drawn on is never full again, so  *)
(* the test of cleanup at ratelimit.go:90 fails for it for ever.           *)
THEOREM UsedBucketNeverFull == Spec => []UsedIsNotFull
    <1>1. IInv => UsedIsNotFull
        BY DEF IInv
    <1> QED BY <1>1, Inductive, PTL

(* ratelimit.go:87-94: every bucket a sweep deletes is one nobody drew on. *)
THEOREM SweepIsHarmless == Spec => SweepForgetsNoDebt
    <1> DEFINE Deleted(k) == tokens[k] # NoBucket /\ tokens'[k] = NoBucket
    <1>1. ASSUME IInv, [Next]_vars, NEW k \in Keys, Deleted(k)
          PROVE  grants[tokens[k]] = 0
        <2>1. tokens[k] \in Buckets
            BY <1>1 DEF IInv, TypeOK
        <2>2. SweepBucket(k)
            <3>1. ASSUME NEW t \in Threads, Lookup(t)
                  PROVE  FALSE
                BY <1>1, <3>1, NoBucketAssumption DEF Lookup, IInv, TypeOK
            <3>2. ASSUME NEW j \in Keys, j # k, SweepBucket(j)
                  PROVE  FALSE
                BY <1>1, <3>2 DEF SweepBucket, IInv, TypeOK
            <3>3. tokens' # tokens
                BY <1>1
            <3> QED BY <1>1, <3>1, <3>2, <3>3
                DEF Next, Call, Take, Cleanup, Wake, BeginSweep, EndSweep, Tick, Stop,
                    vars, code
        <2>3. bucket[tokens[k]].tokens = MaxTokens
            BY <1>1, <2>2 DEF SweepBucket, Removable
        <2>4. ~(grants[tokens[k]] > 0)
            BY <1>1, <2>1, <2>3, TokensAssumption DEF IInv, UsedIsNotFull
        <2> QED BY <1>1, <2>1, <2>4 DEF IInv, TypeOK
    <1>2. IInv /\ [Next]_vars =>
              [\A k \in Keys : tokens[k] # NoBucket /\ tokens'[k] = NoBucket =>
                   grants[tokens[k]] = 0]_vars
        BY <1>1
    <1> QED BY <1>2, Inductive, PTL DEF Spec, SweepForgetsNoDebt

(* ratelimit.go:100-102: no sweep starts after Stop; a stopped ticker has  *)
(* no tick in its buffer.                                                  *)
StopInv == stopped => ~tick

(* Once Stop has returned, a waiting cleanup goroutine waits for ever: the *)
(* ticker has no tick left for it.                                         *)
THEOREM StopEndsCleanup == Spec => StopIsFinal
    <1>1. Init => StopInv
        BY DEF Init, StopInv
    <1>2. StopInv /\ [Next]_vars => StopInv'
        BY DEF StopInv, Next, Call, Lookup, Take, Cleanup, Wake, BeginSweep,
               SweepBucket, EndSweep, Tick, Stop, vars, code
    <1>3. StopInv /\ [Next]_vars =>
              [stopped /\ cleaner = "waiting" => cleaner' = "waiting"]_vars
        BY DEF StopInv, Next, Call, Lookup, Take, Cleanup, Wake, BeginSweep,
               SweepBucket, EndSweep, Tick, Stop, vars, code
    <1> QED BY <1>1, <1>2, <1>3, PTL DEF Spec, StopIsFinal

-----------------------------------------------------------------------------
(* The budget of a key, over all the buckets it has had.                   *)

(* Who holds a bucket of key k that is no longer its bucket in the map:    *)
(* each may still be granted one token, out of nobody's sight.             *)
Orphans(k) == {t \in Threads : pc[t] = "holding" /\ key[t] = k /\ held[t] # tokens[k]}

(* What the bucket in the map accounts for, and from when it does.         *)
Spent(k) == IF tokens[k] = NoBucket THEN 0 ELSE grants[tokens[k]]
Since(k) == IF tokens[k] = NoBucket THEN now ELSE born[tokens[k]]

(* What earlier buckets have granted, and what the orphans may still take. *)
Reserved(k) == granted[k] - Spent(k) + Cardinality(Orphans(k))

(* It was earned before the bucket in the map was born ...                 *)
Account(k) ==
    IF opened[k] = Unopened
    THEN tokens[k] = NoBucket /\ granted[k] = 0 /\ Orphans(k) = {}
    ELSE Reserved(k) * RefillRate <= Since(k) - opened[k]

(* ... provided that an idle bucket earns a token for each caller that can *)
(* hold it when the sweep deletes it.                                      *)
IdleEarnsOrphans == IdleLimit >= Cardinality(Threads) * RefillRate

(* Keys share no bucket, in the map or in a caller's hand.                 *)
PointersInv ==
    /\ \A j, k \in Keys : tokens[j] = tokens[k] /\ tokens[j] # NoBucket => j = k
    /\ \A t \in Threads, k \in Keys :
           pc[t] = "holding" /\ held[t] = tokens[k] => key[t] = k

BornInv == \A b \in Buckets : born[b] <= bucket[b].lastRefill

KeyInv ==
    /\ PointersInv /\ BornInv
    /\ IdleEarnsOrphans => \A k \in Keys : Account(k)

LEMMA OrphansFinite ==
    ASSUME NEW k
    PROVE  /\ Orphans(k) \subseteq Threads /\ IsFiniteSet(Orphans(k))
           /\ Cardinality(Orphans(k)) \in Nat
    <1>1. Orphans(k) \subseteq Threads
        BY DEF Orphans
    <1> QED BY <1>1, ThreadsAssumption, FS_Subset, FS_CardinalityType

LEMMA PointersStep ==
    ASSUME TypeOK, PointersInv, [Next]_vars
    PROVE  PointersInv'
    <1>1. ASSUME NEW t \in Threads, NEW k \in Keys, Call(t, k)
          PROVE  PointersInv'
        BY <1>1 DEF TypeOK, PointersInv, Call
    <1>2. ASSUME NEW t \in Threads, Lookup(t)
          PROVE  PointersInv'
        <2>1. CASE tokens[key[t]] # NoBucket
            BY <1>2, <2>1 DEF TypeOK, PointersInv, Lookup
        <2>2. CASE tokens[key[t]] = NoBucket
            <3>1. PICK b \in Buckets \ Reachable :
                     /\ tokens' = [tokens EXCEPT ![key[t]] = b]
                     /\ held' = [held EXCEPT ![t] = b]
                BY <1>2, <2>2 DEF Lookup
            <3>2. /\ \A k \in Keys : tokens[k] # b
                  /\ \A s \in Threads : held[s] # b
                BY <3>1 DEF Reachable, InMap, InHand
            <3>3. pc' = [pc EXCEPT ![t] = "holding"] /\ key' = key
                BY <1>2 DEF Lookup
            <3> QED BY <3>1, <3>2, <3>3, NoBucketAssumption DEF TypeOK, PointersInv
        <2> QED BY <2>1, <2>2
    <1>3. ASSUME NEW t \in Threads, Take(t)
          PROVE  PointersInv'
        BY <1>3 DEF TypeOK, PointersInv, Take
    <1>4. ASSUME Cleanup
          PROVE  PointersInv'
        BY <1>4 DEF TypeOK, PointersInv, Cleanup, Wake, BeginSweep, SweepBucket, EndSweep
    <1>5. CASE Tick
        BY <1>5 DEF PointersInv, Tick
    <1>6. CASE Stop
        BY <1>6 DEF PointersInv, Stop
    <1>7. CASE UNCHANGED vars
        BY <1>7 DEF PointersInv, vars, code
    <1> QED BY <1>1, <1>2, <1>3, <1>4, <1>5, <1>6, <1>7 DEF Next

LEMMA BornStep ==
    ASSUME TypeOK, ClockInv, BornInv, [Next]_vars
    PROVE  BornInv'
    <1>1. CASE UNCHANGED <<bucket, born, grants>> /\ now' \in {now, now + 1}
        BY <1>1 DEF BornInv
    <1>2. ASSUME UNCHANGED now, NEW b \in Buckets, NewBucket(b)
          PROVE  BornInv'
        BY <1>2 DEF TypeOK, BornInv, NewBucket
    <1>3. ASSUME NEW t \in Threads, Take(t)
          PROVE  BornInv'
        <2>1. PICK b \in Buckets, r \in TokenBucket :
                  /\ r = Refilled(bucket[b])
                  /\ born' = born
                  /\ \/ bucket' = [bucket EXCEPT ![b] =
                            [tokens |-> r.tokens - 1, lastRefill |-> r.lastRefill]]
                     \/ bucket' = [bucket EXCEPT ![b] = r]
            BY <1>3, TakeFacts
        <2>2. r.lastRefill \in {bucket[b].lastRefill, now}
            BY <2>1 DEF Refilled
        <2>3. \A c \in Buckets : bucket'[c].lastRefill =
                  IF c = b THEN r.lastRefill ELSE bucket[c].lastRefill
            BY <2>1 DEF TypeOK
        <2>4. born[b] <= bucket[b].lastRefill /\ bucket[b].lastRefill <= now
              /\ born[b] \in Nat /\ bucket[b].lastRefill \in Nat /\ now \in Nat
            BY DEF TypeOK, BornInv, ClockInv, TokenBucket
        <2>5. born[b] <= r.lastRefill
            BY <2>2, <2>4
        <2> QED BY <2>1, <2>3, <2>5 DEF BornInv
    <1> QED BY <1>1, <1>2, <1>3, HeapStep

(* The types of what an account speaks of.                                 *)
LEMMA AccountTypes ==
    ASSUME TypeOK, NEW k \in Keys
    PROVE  /\ Spent(k) \in Nat /\ Since(k) \in Nat /\ Reserved(k) \in Int
           /\ granted[k] \in Nat /\ opened[k] \in Nat \cup {Unopened}
    <1>1. tokens[k] # NoBucket => grants[tokens[k]] \in Nat /\ born[tokens[k]] \in Nat
        BY DEF TypeOK
    <1> QED BY <1>1, OrphansFinite DEF TypeOK, Spent, Since, Reserved

(* A step that reserves no more, and for no shorter time.                  *)
LEMMA AccountKept ==
    ASSUME TypeOK, TypeOK', NEW k \in Keys, Account(k), opened'[k] = opened[k],
           opened[k] # Unopened => Reserved(k)' <= Reserved(k) /\ Since(k) <= Since(k)',
           opened[k] = Unopened => tokens'[k] = NoBucket /\ granted'[k] = 0 /\ Orphans(k)' = {}
    PROVE  Account(k)'
    <1>1. CASE opened[k] = Unopened
        BY <1>1 DEF Account
    <1>2. CASE opened[k] # Unopened
        <2> DEFINE u == Reserved(k)
                   v == Reserved(k)'
                   p == u * RefillRate
                   q == v * RefillRate
        <2>1. u \in Int /\ Since(k) \in Nat /\ v \in Int /\ Since(k)' \in Nat
                  /\ opened[k] \in Nat /\ RefillRate \in Nat
            <3>1. opened[k] \in Nat
                BY <1>2 DEF TypeOK
            <3>2. v \in Int /\ Since(k)' \in Nat
                <4>1. Orphans(k)' \subseteq Threads
                    BY DEF Orphans
                <4>2. Cardinality(Orphans(k)') \in Nat
                    BY <4>1, ThreadsAssumption, FS_Subset, FS_CardinalityType
                <4>3. tokens'[k] # NoBucket =>
                          grants'[tokens'[k]] \in Nat /\ born'[tokens'[k]] \in Nat
                    BY DEF TypeOK
                <4> QED BY <4>2, <4>3 DEF TypeOK, Spent, Since, Reserved
            <3> QED BY <3>1, <3>2, AccountTypes, RatesAssumption
        <2>2. q <= p /\ p \in Int /\ q \in Int
            <3> HIDE DEF u, v
            <3>1. v <= u
                BY <1>2 DEF u, v
            <3> QED BY <2>1, <3>1, TimesMonotone
        <2>3. p <= Since(k) - opened[k] /\ Since(k) <= Since(k)'
            BY <1>2 DEF Account
        <2> HIDE DEF p, q
        <2>4. q <= Since(k)' - opened[k]
            BY <2>1, <2>2, <2>3
        <2> QED BY <1>2, <2>4 DEF Account, q
    <1> QED BY <1>1, <1>2

-----------------------------------------------------------------------------
(* The steps of Allow.                                                     *)
LEMMA LookupKeepsAccount ==
    ASSUME TypeOK, TypeOK', NEW k \in Keys, Account(k), NEW t \in Threads, Lookup(t)
    PROVE  Account(k)'
    <1>0. /\ pc' = [pc EXCEPT ![t] = "holding"] /\ pc[t] = "calling" /\ key' = key
          /\ now' = now /\ granted' = granted
        BY DEF Lookup
    <1>1. CASE tokens[key[t]] # NoBucket
        <2>1. /\ held' = [held EXCEPT ![t] = tokens[key[t]]]
              /\ UNCHANGED <<tokens, bucket, born, grants, opened>>
            BY <1>1 DEF Lookup
        <2>2. Orphans(k)' = Orphans(k)
            BY <1>0, <2>1 DEF TypeOK, Orphans
        <2> QED BY <1>0, <2>1, <2>2 DEF Account, Reserved, Spent, Since
    <1>2. CASE tokens[key[t]] = NoBucket
        <2>1. PICK b \in Buckets \ Reachable :
                 /\ NewBucket(b)
                 /\ tokens' = [tokens EXCEPT ![key[t]] = b]
                 /\ held' = [held EXCEPT ![t] = b]
            BY <1>2 DEF Lookup
        <2>2. opened' = [opened EXCEPT ![key[t]] = IF @ = Unopened THEN now ELSE @]
            BY <1>2 DEF Lookup
        <2>3. /\ \A j \in Keys : tokens[j] # b
              /\ \A s \in Threads : held[s] # b
              /\ b # NoBucket
            BY <2>1, NoBucketAssumption DEF Reachable, InMap, InHand
        <2>4. Orphans(k)' = Orphans(k)
            BY <1>0, <1>2, <2>1, <2>3 DEF TypeOK, Orphans
        <2>5. /\ grants'[b] = 0 /\ born'[b] = now
              /\ \A c \in Buckets \ {b} : grants'[c] = grants[c] /\ born'[c] = born[c]
            BY <2>1 DEF TypeOK, NewBucket
        <2>6. CASE key[t] # k
            <3>1. tokens'[k] = tokens[k] /\ opened'[k] = opened[k]
                BY <2>1, <2>2, <2>6 DEF TypeOK
            <3>2. Spent(k)' = Spent(k) /\ Since(k)' = Since(k)
                BY <1>0, <2>3, <2>5, <3>1 DEF TypeOK, Spent, Since
            <3> QED BY <1>0, <2>4, <3>1, <3>2 DEF Account, Reserved
        <2>7. CASE key[t] = k
            <3>1. tokens[k] = NoBucket /\ tokens'[k] = b
                BY <1>2, <2>1, <2>7 DEF TypeOK
            <3>2. /\ Spent(k) = 0 /\ Spent(k)' = 0
                  /\ Since(k) = now /\ Since(k)' = now
                BY <2>3, <2>5, <3>1 DEF Spent, Since
            <3>3. Reserved(k)' = Reserved(k)
                BY <1>0, <2>4, <3>2 DEF Reserved
            <3>4. CASE opened[k] = Unopened
                <4>1. granted[k] = 0 /\ Cardinality(Orphans(k)) = 0
                    BY <3>4, FS_EmptySet DEF Account
                <4>2. Reserved(k) = 0
                    BY <3>2, <4>1 DEF Reserved
                <4>3. opened'[k] = now /\ now \in Nat
                    BY <2>2, <2>7, <3>4 DEF TypeOK
                <4>4. now # Unopened /\ 0 * RefillRate <= now - now
                    BY <4>3, RatesAssumption DEF Unopened
                <4> QED BY <3>2, <3>3, <4>2, <4>3, <4>4 DEF Account
            <3>5. CASE opened[k] # Unopened
                <4>1. opened'[k] = opened[k]
                    BY <2>2, <2>7, <3>5 DEF TypeOK
                <4> QED BY <3>2, <3>3, <3>5, <4>1 DEF Account
            <3> QED BY <3>4, <3>5
        <2> QED BY <2>6, <2>7
    <1> QED BY <1>1, <1>2

(* A token taken from the bucket in the map is spent there; one taken from *)
(* an orphan was reserved.                                                 *)
LEMMA TakeKeepsAccount ==
    ASSUME TypeOK, TypeOK', PointersInv, NEW k \in Keys, Account(k), NEW t \in Threads, Take(t)
    PROVE  Account(k)'
    <1>0. /\ pc[t] = "holding" /\ held[t] \in Buckets /\ held[t] # NoBucket
          /\ pc' = [pc EXCEPT ![t] = "idle"]
          /\ held' = [held EXCEPT ![t] = NoBucket]
          /\ UNCHANGED <<now, tokens, key, born, opened>>
        BY HeldIsBucket, NoBucketAssumption DEF Take
    <1>1. \/ /\ grants' = [grants EXCEPT ![held[t]] = @ + 1]
             /\ granted' = [granted EXCEPT ![key[t]] = @ + 1]
          \/ grants' = grants /\ granted' = granted
        BY DEF Take
    <1>2. Since(k)' = Since(k) /\ Since(k) \in Nat
        BY <1>0, AccountTypes DEF Since
    <1>3. CASE key[t] # k
        <2>1. Orphans(k)' = Orphans(k)
            BY <1>0, <1>3 DEF TypeOK, Orphans
        <2>2. held[t] # tokens[k] /\ granted'[k] = granted[k]
            BY <1>0, <1>1, <1>3 DEF PointersInv, TypeOK
        <2>3. Spent(k)' = Spent(k)
            BY <1>0, <1>1, <2>2 DEF Spent, TypeOK
        <2> QED BY <1>0, <1>2, <2>1, <2>2, <2>3 DEF Account, Reserved
    <1>4. CASE key[t] = k /\ held[t] = tokens[k]
        <2>1. Orphans(k)' = Orphans(k)
            BY <1>0, <1>4 DEF TypeOK, Orphans
        <2>2. granted'[k] - Spent(k)' = granted[k] - Spent(k)
            BY <1>0, <1>1, <1>4 DEF Spent, TypeOK
        <2>3. opened[k] # Unopened
            BY <1>0, <1>4 DEF Account
        <2> QED BY <1>0, <1>2, <2>1, <2>2, <2>3 DEF Account, Reserved
    <1>5. CASE key[t] = k /\ held[t] # tokens[k]
        <2>1. Orphans(k)' = Orphans(k) \ {t} /\ t \in Orphans(k)
            BY <1>0, <1>5 DEF TypeOK, Orphans
        <2>2. Cardinality(Orphans(k)') = Cardinality(Orphans(k)) - 1
            BY <2>1, OrphansFinite, FS_RemoveElement
        <2>3. Spent(k)' = Spent(k)
            BY <1>0, <1>1, <1>5 DEF Spent, TypeOK
        <2>4. granted'[k] <= granted[k] + 1 /\ granted'[k] \in Nat /\ granted[k] \in Nat
            BY <1>1, <1>5 DEF TypeOK
        <2>5. Reserved(k)' <= Reserved(k)
            BY <2>2, <2>3, <2>4, OrphansFinite, AccountTypes DEF Reserved
        <2>6. opened[k] # Unopened
            BY <2>1 DEF Account
        <2> QED BY <1>0, <1>2, <2>5, <2>6, AccountKept
    <1> QED BY <1>3, <1>4, <1>5

(* The sweep makes orphans of the callers that hold the bucket it deletes: *)
(* the bucket has granted nothing, and has been idle for as long as it     *)
(* takes to earn a token for each of them.                                 *)
LEMMA SweepKeepsAccount ==
    ASSUME IInv, BornInv, IdleEarnsOrphans,
           NEW k \in Keys, Account(k), NEW j \in Keys, SweepBucket(j)
    PROVE  Account(k)'
    <1>0. /\ TypeOK /\ tokens[j] # NoBucket
          /\ UNCHANGED <<now, bucket, pc, key, held, born, grants, opened, granted>>
        BY DEF IInv, SweepInv, SweepBucket, history
    <1>1. CASE tokens'[k] = tokens[k]
        <2>1. Orphans(k)' = Orphans(k)
            BY <1>0, <1>1 DEF Orphans
        <2> QED BY <1>0, <1>1, <2>1 DEF Account, Reserved, Spent, Since
    <1>2. CASE tokens'[k] # tokens[k]
        <2> DEFINE b == tokens[k]
        <2>1. /\ j = k /\ Removable(bucket[b])
              /\ tokens' = [tokens EXCEPT ![k] = NoBucket]
            BY <1>0, <1>2 DEF SweepBucket, TypeOK
        <2>2. b # NoBucket /\ b \in Buckets /\ tokens'[k] = NoBucket
            BY <1>0, <2>1 DEF TypeOK
        <2>3. opened[k] # Unopened /\ opened[k] \in Nat
            BY <1>0, <2>2 DEF Account, TypeOK
        <2>4. grants[b] = 0
            <3>1. ~(grants[b] > 0)
                BY <2>1, <2>2, TokensAssumption DEF IInv, UsedIsNotFull, Removable
            <3> QED BY <1>0, <2>2, <3>1 DEF TypeOK
        <2>5. /\ born[b] \in Nat /\ now \in Nat /\ IdleLimit \in Nat
              /\ born[b] + IdleLimit < now
            <3>1. born[b] <= bucket[b].lastRefill /\ now - bucket[b].lastRefill > IdleLimit
                BY <2>1, <2>2 DEF BornInv, Removable
            <3>2. born[b] \in Nat /\ now \in Nat /\ bucket[b].lastRefill \in Nat
                BY <1>0, <2>2 DEF TypeOK, TokenBucket
            <3> QED BY <3>1, <3>2, RatesAssumption
        <2> DEFINE c == Cardinality(Threads)
                   r == granted[k] + Cardinality(Orphans(k))
                   s == granted[k] + Cardinality(Orphans(k)')
        <2>6. /\ c \in Nat /\ r \in Nat /\ s \in Nat /\ s <= r + c
            <3>1. Orphans(k)' \subseteq Threads
                BY DEF Orphans
            <3>2. /\ Cardinality(Orphans(k)') \in Nat /\ c \in Nat
                  /\ Cardinality(Orphans(k)') <= c
                BY <3>1, ThreadsAssumption, FS_Subset, FS_CardinalityType
            <3>3. granted[k] \in Nat /\ Cardinality(Orphans(k)) \in Nat
                BY <1>0, OrphansFinite, AccountTypes
            <3> QED BY <3>2, <3>3
        <2>7. Reserved(k) = r /\ Reserved(k)' = s
            <3>1. Spent(k) = 0 /\ Spent(k)' = 0 /\ granted'[k] = granted[k]
                BY <1>0, <2>2, <2>4 DEF Spent
            <3> QED BY <1>0, <2>6, <3>1, OrphansFinite, AccountTypes DEF Reserved
        <2>8. r * RefillRate <= born[b] - opened[k]
            BY <2>2, <2>3, <2>7 DEF Account, Since
        <2>9. s * RefillRate <= now - opened[k]
            <3> HIDE DEF c, r, s
            <3>1. RefillRate \in Nat
                BY RatesAssumption
            <3>2. s * RefillRate <= (r + c) * RefillRate
                BY <2>6, <3>1, TimesMonotone
            <3>3. (r + c) * RefillRate = r * RefillRate + c * RefillRate
                BY <2>6, <3>1, TimesDistributes
            <3>4. c * RefillRate <= IdleLimit
                BY DEF IdleEarnsOrphans, c
            <3> DEFINE x == r * RefillRate
                       y == c * RefillRate
                       z == s * RefillRate
            <3>5. x \in Int /\ y \in Int /\ z \in Int
                BY <2>6, <3>1
            <3>6. z <= x + y /\ y <= IdleLimit /\ x <= born[b] - opened[k]
                BY <2>8, <3>2, <3>3, <3>4
            <3> HIDE DEF x, y, z, b
            <3>7. z <= now - opened[k]
                BY <2>3, <2>5, <3>5, <3>6
            <3> QED BY <3>7 DEF z
        <2>10. Since(k)' = now /\ opened'[k] = opened[k]
            BY <1>0, <2>2 DEF Since
        <2> QED BY <2>3, <2>7, <2>9, <2>10 DEF Account
    <1> QED BY <1>1, <1>2

(* Whatever else happens, time at most goes on.                            *)
LEMMA AccountStep ==
    ASSUME IInv, IInv', PointersInv, BornInv, IdleEarnsOrphans,
           NEW k \in Keys, Account(k), [Next]_vars
    PROVE  Account(k)'
    <1>0. TypeOK /\ TypeOK'
        BY DEF IInv
    <1>1. ASSUME UNCHANGED <<tokens, held, born, grants, opened, granted>>,
                 \/ UNCHANGED <<pc, key>>
                 \/ \E t \in Threads, j \in Keys : Call(t, j),
                 now' \in {now, now + 1}
          PROVE  Account(k)'
        <2>1. Orphans(k)' = Orphans(k)
            BY <1>0, <1>1 DEF TypeOK, Orphans, Call
        <2>2. Spent(k)' = Spent(k) /\ Reserved(k)' = Reserved(k)
            BY <1>1, <2>1 DEF Spent, Reserved
        <2>3. Since(k) <= Since(k)'
            BY <1>0, <1>1, AccountTypes DEF Since, TypeOK
        <2>4. opened[k] = Unopened => tokens[k] = NoBucket /\ granted[k] = 0 /\ Orphans(k) = {}
            BY DEF Account
        <2>5. Reserved(k) \in Int
            BY <1>0, AccountTypes
        <2> QED BY <1>0, <1>1, <2>1, <2>2, <2>3, <2>4, <2>5, AccountKept
    <1>2. ASSUME NEW t \in Threads, NEW j \in Keys, Call(t, j)
          PROVE  Account(k)'
        BY <1>1, <1>2 DEF Call, history
    <1>3. ASSUME NEW t \in Threads, Lookup(t)
          PROVE  Account(k)'
        BY <1>0, <1>3, LookupKeepsAccount
    <1>4. ASSUME NEW t \in Threads, Take(t)
          PROVE  Account(k)'
        BY <1>0, <1>4, TakeKeepsAccount
    <1>5. ASSUME NEW j \in Keys, SweepBucket(j)
          PROVE  Account(k)'
        BY <1>5, SweepKeepsAccount
    <1>6. CASE Wake \/ BeginSweep \/ EndSweep \/ Tick \/ Stop \/ UNCHANGED vars
        BY <1>1, <1>6 DEF Wake, BeginSweep, EndSweep, Tick, Stop, vars, code, history
    <1> QED BY <1>2, <1>3, <1>4, <1>5, <1>6 DEF Next, Cleanup

LEMMA KeyInvInit ==
    ASSUME Init
    PROVE  KeyInv
    <1>1. PointersInv /\ BornInv
        BY DEF Init, PointersInv, BornInv
    <1>2. ASSUME NEW k \in Keys
          PROVE  Account(k)
        <2>1. Orphans(k) = {}
            BY DEF Init, Orphans
        <2> QED BY <2>1 DEF Init, Account
    <1> QED BY <1>1, <1>2 DEF KeyInv

LEMMA KeyInvStep ==
    ASSUME IInv, IInv', KeyInv, [Next]_vars
    PROVE  KeyInv'
    <1>1. TypeOK /\ ClockInv /\ PointersInv /\ BornInv
        BY DEF IInv, KeyInv
    <1>2. PointersInv' /\ BornInv'
        BY <1>1, PointersStep, BornStep
    <1>3. ASSUME IdleEarnsOrphans, NEW k \in Keys
          PROVE  Account(k)'
        BY <1>1, <1>3, AccountStep DEF KeyInv
    <1> QED BY <1>2, <1>3 DEF KeyInv, IdleEarnsOrphans

(* The account of every key is kept.                                       *)
THEOREM KeysInductive == Spec => []KeyInv
    <1>1. Init => KeyInv
        BY KeyInvInit
    <1>2. IInv /\ IInv' /\ KeyInv /\ [Next]_vars => KeyInv'
        BY KeyInvStep
    <1> QED BY <1>1, <1>2, Inductive, PTL DEF Spec

(* The account and the budget of the bucket in the map make up the key's.  *)
LEMMA AccountsAddUp ==
    ASSUME IInv, NEW k \in Keys, Account(k), opened[k] # Unopened
    PROVE  (granted[k] - MaxTokens) * RefillRate <= now - opened[k]
    <1> DEFINE b == tokens[k]
               w == IF b = NoBucket THEN 0 ELSE grants[b] + bucket[b].tokens - MaxTokens
               u == Reserved(k)
               g == granted[k] - MaxTokens
    <1>0. TypeOK /\ RefillRate \in Nat /\ MaxTokens \in Nat
        BY RatesAssumption, TokensAssumption DEF IInv
    <1>1. /\ opened[k] \in Nat /\ now \in Nat /\ Since(k) \in Nat
          /\ u \in Int /\ g \in Int
        BY <1>0, AccountTypes DEF TypeOK
    <1>2. w \in Int /\ w * RefillRate <= now - Since(k) /\ g <= u + w
        <2>1. CASE b = NoBucket
            <3>1. Spent(k) = 0 /\ Since(k) = now /\ 0 * RefillRate = 0
                BY <1>0, <2>1 DEF Spent, Since
            <3>2. g <= u
                BY <1>0, <3>1, OrphansFinite, AccountTypes DEF Reserved
            <3> QED BY <1>1, <2>1, <3>1, <3>2
        <2>2. CASE b # NoBucket
            <3>1. /\ b \in Buckets /\ bucket[b].tokens \in Nat
                  /\ grants[b] \in Nat /\ born[b] \in Nat /\ bucket[b].lastRefill \in Nat
                BY <1>0, <2>2 DEF TypeOK, TokenBucket
            <3>2. /\ w * RefillRate <= bucket[b].lastRefill - born[b]
                  /\ bucket[b].lastRefill <= now
                BY <2>2, <3>1 DEF IInv, BucketBudget, ClockInv
            <3>3. Spent(k) = grants[b] /\ Since(k) = born[b]
                BY <2>2 DEF Spent, Since
            <3>4. w \in Int /\ w = grants[b] + bucket[b].tokens - MaxTokens
                BY <1>0, <2>2, <3>1
            <3>5. g <= u + w
                BY <1>0, <3>1, <3>3, <3>4, OrphansFinite, AccountTypes DEF Reserved
            <3>6. w * RefillRate \in Int
                BY <1>0, <3>4
            <3>7. w * RefillRate <= now - born[b]
                <4> DEFINE z == w * RefillRate
                <4> HIDE DEF z
                <4>1. z <= now - born[b]
                    BY <1>1, <3>1, <3>2, <3>6 DEF z
                <4> QED BY <4>1 DEF z
            <3> QED BY <3>3, <3>4, <3>5, <3>7
        <2> QED BY <2>1, <2>2
    <1>3. u * RefillRate <= Since(k) - opened[k]
        BY DEF Account
    <1> HIDE DEF w, u, g
    <1>4. g * RefillRate <= (u + w) * RefillRate
        BY <1>0, <1>1, <1>2, TimesMonotone
    <1>5. (u + w) * RefillRate = u * RefillRate + w * RefillRate
        BY <1>0, <1>1, <1>2, TimesDistributes
    <1> DEFINE x == u * RefillRate
               y == w * RefillRate
               z == g * RefillRate
    <1>6. x \in Int /\ y \in Int /\ z \in Int
        BY <1>0, <1>1, <1>2
    <1>7. z <= x + y /\ x <= Since(k) - opened[k] /\ y <= now - Since(k)
        BY <1>2, <1>3, <1>4, <1>5
    <1> HIDE DEF x, y, z
    <1>8. z <= now - opened[k]
        BY <1>1, <1>6, <1>7
    <1> QED BY <1>8 DEF z, g

(* ratelimit.go:47-98, all of it together: over all the buckets a key has  *)
(* had, those that the sweep deleted under its callers' feet included, it  *)
(* is admitted no more than its burst and what time has earned.            *)
THEOREM KeyNeverOverdrawn == Spec => []KeyBudget
    <1>1. IInv /\ KeyInv => KeyBudget
        BY AccountsAddUp DEF KeyInv, KeyBudget, IdleEarnsOrphans
    <1> QED BY <1>1, Inductive, KeysInductive, PTL

-----------------------------------------------------------------------------
(* A step of the limiter is one of TokenBudget's: the first call for a key *)
(* opens its account, a token that is taken admits a call.                 *)
LEMMA BudgetSteps ==
    ASSUME IInv, KeyInv, KeyBudget', IdleEarnsOrphans, [Next]_vars
    PROVE  [Budget!Next]_(Budget!vars)
    <1>0. TypeOK
        BY DEF IInv
    <1>1. ASSUME UNCHANGED <<now, opened, granted>>
          PROVE  [Budget!Next]_(Budget!vars)
        BY <1>1 DEF Budget!vars
    <1>2. ASSUME NEW t \in Threads, Lookup(t)
          PROVE  [Budget!Next]_(Budget!vars)
        <2>1. now' = now /\ granted' = granted /\ key[t] \in Keys
            BY <1>0, <1>2 DEF Lookup, TypeOK
        <2>2. CASE tokens[key[t]] = NoBucket /\ opened[key[t]] = Unopened
            <3>1. opened' = [opened EXCEPT ![key[t]] = now]
                BY <1>0, <1>2, <2>2 DEF Lookup, TypeOK
            <3>2. Budget!Open(key[t])
                BY <2>1, <2>2, <3>1 DEF Budget!Open, Budget!Unopened, Unopened
            <3> QED BY <2>1, <3>2 DEF Budget!Next
        <2>3. CASE ~(tokens[key[t]] = NoBucket /\ opened[key[t]] = Unopened)
            <3>1. opened' = opened
                BY <1>0, <1>2, <2>3 DEF Lookup, TypeOK
            <3> QED BY <1>1, <2>1, <3>1
        <2> QED BY <2>2, <2>3
    <1>3. ASSUME NEW t \in Threads, Take(t)
          PROVE  [Budget!Next]_(Budget!vars)
        <2> DEFINE k == key[t]
        <2>1. k \in Keys /\ pc[t] = "holding" /\ held[t] # NoBucket
              /\ now' = now /\ opened' = opened
            BY <1>0, <1>3 DEF Take, TypeOK
        <2>2. CASE granted' = granted
            BY <1>1, <2>1, <2>2
        <2>3. CASE granted' = [granted EXCEPT ![k] = @ + 1]
            <3>1. opened[k] # Unopened
                <4>1. Account(k)
                    BY <2>1 DEF KeyInv
                <4>2. tokens[k] = NoBucket => t \in Orphans(k)
                    BY <2>1 DEF Orphans
                <4> QED BY <4>1, <4>2 DEF Account
            <3>2. (granted'[k] - MaxTokens) * RefillRate <= now' - opened'[k]
                BY <2>1, <3>1 DEF KeyBudget, IdleEarnsOrphans
            <3>3. (granted[k] + 1 - MaxTokens) * RefillRate <= now - opened[k]
                <4>1. /\ granted'[k] = granted[k] + 1 /\ granted[k] \in Nat
                      /\ MaxTokens \in Nat
                    BY <1>0, <2>1, <2>3, TokensAssumption DEF TypeOK
                <4>2. granted'[k] - MaxTokens = granted[k] + 1 - MaxTokens
                    BY <4>1
                <4> HIDE DEF k
                <4> QED BY <2>1, <3>2, <4>2, Zenon
            <3>4. Budget!Admit(k)
                BY <2>1, <2>3, <3>1, <3>3 DEF Budget!Admit, Budget!Unopened, Unopened
            <3> QED BY <2>1, <3>4 DEF Budget!Next
        <2> QED BY <1>3, <2>2, <2>3 DEF Take
    <1>4. CASE Tick
        BY <1>4 DEF Tick, history, Budget!Tick, Budget!Next
    <1>5. ASSUME \/ \E t \in Threads, k \in Keys : Call(t, k)
                 \/ Cleanup \/ Stop \/ UNCHANGED vars
          PROVE  [Budget!Next]_(Budget!vars)
        BY <1>1, <1>5 DEF Call, Cleanup, Wake, BeginSweep, SweepBucket, EndSweep, Stop,
                          vars, code, history
    <1> QED BY <1>2, <1>3, <1>4, <1>5 DEF Next

(* ratelimit.go:47-98: no bucket, no lock and no cleanup can be told from  *)
(* outside, as long as an idle bucket earns a token for each caller that   *)
(* may hold it.                                                            *)
THEOREM BudgetKept ==
    ASSUME IdleLimit >= Cardinality(Threads) * RefillRate
    PROVE  Spec => ImplementsTokenBudget
    <1>1. Init => Budget!Init
        BY DEF Init, Budget!Init, Budget!Unopened, Unopened
    <1>2. IInv /\ KeyInv /\ KeyBudget' /\ [Next]_vars => [Budget!Next]_(Budget!vars)
        BY BudgetSteps DEF IdleEarnsOrphans
    <1> QED BY <1>1, <1>2, Inductive, KeysInductive, KeyNeverOverdrawn, PTL
            DEF Spec, ImplementsTokenBudget, Budget!Spec

-----------------------------------------------------------------------------
(* The values of a function are no more than its arguments.                *)
LEMMA ValuesAreFewer ==
    ASSUME NEW S, IsFiniteSet(S), NEW f
    PROVE  /\ IsFiniteSet({f[x] : x \in S})
           /\ Cardinality({f[x] : x \in S}) <= Cardinality(S)
    <1> DEFINE T == {f[x] : x \in S}
               g == [x \in S |-> f[x]]
    <1>1. g \in Surjection(S, T)
        BY DEF Surjection
    <1> QED BY <1>1, FS_Surjection

(* The bound on the heap is no bound on the callers: with one bucket for   *)
(* each key and one for each caller that may still hold an orphan, a call  *)
(* of Allow that has to create a bucket always finds one that nothing      *)
(* reaches.  So Lookup waits for rl.mu and for nothing else.               *)
EnoughBuckets ==
    /\ IsFiniteSet(Keys)
    /\ IsFiniteSet(Buckets) =>
           Cardinality(Buckets) >= Cardinality(Keys) + Cardinality(Threads) - 1

BucketToMake ==
    \A t \in Threads :
        pc[t] = "calling" /\ tokens[key[t]] = NoBucket => Buckets \ Reachable # {}

(* A call of Allow never waits for want of a bucket in an instance of that *)
(* size, so what TLC finds of EveryCallReturns there is not cut short.     *)
THEOREM HeapSuffices ==
    ASSUME EnoughBuckets
    PROVE  Spec => []BucketToMake
    <1>1. IInv => BucketToMake
        <2> SUFFICES ASSUME IInv, NEW t \in Threads,
                            pc[t] = "calling", tokens[key[t]] = NoBucket
                     PROVE  Buckets \ Reachable # {}
            BY DEF BucketToMake
        <2> DEFINE K == Keys \ {key[t]}
                   T == Threads \ {t}
                   inMap  == {tokens[k] : k \in K}
                   inHand == {held[u] : u \in T}
        <2>1. /\ TypeOK /\ IsFiniteSet(Keys) /\ IsFiniteSet(Threads)
              /\ key[t] \in Keys /\ held[t] = NoBucket
            BY ThreadsAssumption DEF EnoughBuckets, IInv, TypeOK
        <2>2. Reachable \subseteq inMap \cup inHand
            BY <2>1, NoBucketAssumption DEF Reachable, InMap, InHand
        <2>3. /\ IsFiniteSet(K) /\ Cardinality(K) = Cardinality(Keys) - 1
              /\ IsFiniteSet(T) /\ Cardinality(T) = Cardinality(Threads) - 1
            BY <2>1, FS_RemoveElement
        <2>4. /\ IsFiniteSet(inMap) /\ Cardinality(inMap) <= Cardinality(K)
              /\ IsFiniteSet(inHand) /\ Cardinality(inHand) <= Cardinality(T)
            <3> HIDE DEF K, T
            <3> QED BY <2>3, ValuesAreFewer
        <2> HIDE DEF K, T, inMap, inHand
        <2>5. /\ IsFiniteSet(inMap \cup inHand)
              /\ Cardinality(inMap \cup inHand) <= Cardinality(inMap) + Cardinality(inHand)
            <3>1. IsFiniteSet(inMap \cap inHand)
                BY <2>4, FS_Subset
            <3>2. /\ Cardinality(inMap) \in Nat /\ Cardinality(inHand) \in Nat
                  /\ Cardinality(inMap \cap inHand) \in Nat
                BY <3>1, <2>4, FS_CardinalityType
            <3>3. /\ IsFiniteSet(inMap \cup inHand)
                  /\ Cardinality(inMap \cup inHand)
                        = Cardinality(inMap) + Cardinality(inHand) - Cardinality(inMap \cap inHand)
                BY <2>4, FS_Union
            <3> QED BY <3>2, <3>3
        <2>6. /\ IsFiniteSet(Reachable)
              /\ Cardinality(Reachable) <= Cardinality(inMap \cup inHand)
            BY <2>2, <2>5, FS_Subset
        <2>7. /\ Cardinality(Keys) \in Nat /\ Cardinality(Threads) \in Nat
              /\ Cardinality(inMap) \in Nat /\ Cardinality(inHand) \in Nat
              /\ Cardinality(inMap \cup inHand) \in Nat /\ Cardinality(Reachable) \in Nat
            BY <2>1, <2>4, <2>5, <2>6, FS_CardinalityType
        <2>8. Cardinality(Reachable) <= Cardinality(Keys) + Cardinality(Threads) - 2
            BY <2>3, <2>4, <2>5, <2>6, <2>7
        <2> SUFFICES ASSUME Buckets \subseteq Reachable
                     PROVE  FALSE
            OBVIOUS
        <2>9. IsFiniteSet(Buckets) /\ Cardinality(Buckets) <= Cardinality(Reachable)
            BY <2>6, FS_Subset
        <2>10. Cardinality(Buckets) \in Nat
            BY <2>9, FS_CardinalityType
        <2>11. Cardinality(Buckets) >= Cardinality(Keys) + Cardinality(Threads) - 1
            BY <2>9 DEF EnoughBuckets
        <2> QED BY <2>7, <2>8, <2>9, <2>10, <2>11
    <1> QED BY Inductive, <1>1, PTL
=============================================================================
