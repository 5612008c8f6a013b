---------------------------- MODULE RateLimiter ----------------------------
(***************************************************************************)
(* The token bucket rate limiter of pkg/middleware/ratelimit.go: callers   *)
(* of Allow, the cleanup goroutine started by NewRateLimiter, its ticker,  *)
(* and Stop.                                                               *)
(*                                                                         *)
(* Allow takes two locks one after the other: rl.mu while it looks up or   *)
(* creates the bucket, bucket.mu while it refills and takes a token.       *)
(* Between the two it holds only a pointer, so the sweep may delete the    *)
(* bucket from the map under its feet.  Each critical section is one       *)
(* action; the sweep, which holds rl.mu throughout and each bucket.mu in   *)
(* turn, is one action per bucket.                                         *)
(***************************************************************************)
EXTENDS Integers, FiniteSets

CONSTANTS
    Keys,          \* rate limit keys
    Threads,       \* goroutines calling Allow
    Buckets,       \* identities of heap-allocated tokenBucket values
    MaxTokens,     \* rl.maxTokens
    RefillRate,    \* rl.refillRate, in ticks
    IdleLimit,     \* the 5 minutes of cleanup, in ticks
    CleanupPeriod, \* the 1 minute of the ticker, in ticks
    MaxTime,       \* bound on the modelled time, in the guard of Tick
    NoBucket       \* the nil pointer

ASSUME TokensAssumption == MaxTokens \in Nat
ASSUME RatesAssumption ==
    /\ RefillRate \in Nat \ {0}
    /\ CleanupPeriod \in Nat \ {0}
    /\ IdleLimit \in Nat
    /\ MaxTime \in Nat
ASSUME NoBucketAssumption == NoBucket \notin Buckets
ASSUME ThreadsAssumption == IsFiniteSet(Threads)

VARIABLES
    now,      \* monotonic clock
    tokens,   \* rl.tokens: the bucket of each key, or NoBucket
    bucket,   \* the heap: tokens and lastRefill of each tokenBucket
    pc,       \* progress of each caller of Allow
    key,      \* the argument of Allow
    held,     \* the local variable bucket of Allow
    cleaner,  \* progress of the cleanup goroutine
    toVisit,  \* keys the range over rl.tokens has still to visit
    tick,     \* a tick is buffered in cleanupTick.C (capacity 1)
    stopped,  \* Stop has been called
    born,     \* history: when each bucket was created
    grants,   \* history: tokens taken from each bucket since then
    opened,   \* history: when each key was first looked up
    granted   \* history: calls allowed per key

code    == <<now, tokens, bucket, pc, key, held, cleaner, toVisit, tick, stopped>>
history == <<born, grants, opened, granted>>
vars    == <<code, history>>

Unopened == -1

TokenBucket == [tokens : 0 .. MaxTokens, lastRefill : Nat]

TypeOK ==
    /\ now \in Nat
    /\ tokens \in [Keys -> Buckets \cup {NoBucket}]
    /\ bucket \in [Buckets -> TokenBucket]
    /\ pc \in [Threads -> {"idle", "calling", "holding"}]
    /\ key \in [Threads -> Keys]
    /\ held \in [Threads -> Buckets \cup {NoBucket}]
    /\ \A t \in Threads : pc[t] = "holding" <=> held[t] # NoBucket
    /\ cleaner \in {"waiting", "woken", "sweeping"}
    /\ toVisit \subseteq Keys
    /\ tick \in BOOLEAN
    /\ stopped \in BOOLEAN
    /\ born \in [Buckets -> Nat]
    /\ grants \in [Buckets -> Nat]
    /\ opened \in [Keys -> Nat \cup {Unopened}]
    /\ granted \in [Keys -> Nat]

-----------------------------------------------------------------------------
(* Buckets some pointer still reaches; the collector may reuse the others. *)
InMap     == {b \in Buckets : \E k \in Keys : tokens[k] = b}
InHand    == {b \in Buckets : \E t \in Threads : held[t] = b}
Reachable == InMap \cup InHand

(* rl.mu: Allow holds it only inside Lookup, cleanup for a whole sweep.    *)
MuIsFree == cleaner # "sweeping"

(* NewRateLimiter.                                                         *)
Init ==
    /\ now = 0
    /\ tokens = [k \in Keys |-> NoBucket]
    /\ bucket = [b \in Buckets |-> [tokens |-> 0, lastRefill |-> 0]]
    /\ pc = [t \in Threads |-> "idle"]
    /\ key \in [Threads -> Keys]
    /\ held = [t \in Threads |-> NoBucket]
    /\ cleaner = "waiting"
    /\ toVisit = {}
    /\ tick = FALSE
    /\ stopped = FALSE
    /\ born = [b \in Buckets |-> 0]
    /\ grants = [b \in Buckets |-> 0]
    /\ opened = [k \in Keys |-> Unopened]
    /\ granted = [k \in Keys |-> 0]

-----------------------------------------------------------------------------
(* Allow(k) is called and heads for rl.mu.                                 *)
Call(t, k) ==
    /\ pc[t] = "idle"
    /\ pc' = [pc EXCEPT ![t] = "calling"]
    /\ key' = [key EXCEPT ![t] = k]
    /\ UNCHANGED <<now, tokens, bucket, held, cleaner, toVisit, tick, stopped, history>>

NewBucket(b) ==
    /\ bucket' = [bucket EXCEPT ![b] = [tokens |-> MaxTokens, lastRefill |-> now]]
    /\ born' = [born EXCEPT ![b] = now]
    /\ grants' = [grants EXCEPT ![b] = 0]

(* The section under rl.mu: find the key's bucket, or create it full.      *)
Lookup(t) ==
    /\ pc[t] = "calling"
    /\ MuIsFree
    /\ pc' = [pc EXCEPT ![t] = "holding"]
    /\ \/ /\ tokens[key[t]] # NoBucket
          /\ held' = [held EXCEPT ![t] = tokens[key[t]]]
          /\ UNCHANGED <<tokens, bucket, born, grants, opened>>
       \/ /\ tokens[key[t]] = NoBucket
          /\ \E b \in Buckets \ Reachable :
                /\ NewBucket(b)
                /\ tokens' = [tokens EXCEPT ![key[t]] = b]
                /\ held' = [held EXCEPT ![t] = b]
          /\ opened' = [opened EXCEPT ![key[t]] = IF @ = Unopened THEN now ELSE @]
    /\ UNCHANGED <<now, key, cleaner, toVisit, tick, stopped, granted>>

AtMost(n, bound) == IF n > bound THEN bound ELSE n

(* Mutants of Refilled: no cap; lastRefill left alone.                     *)
Refilled_NoCap(b) ==
    LET elapsed == now - b.lastRefill
    IN  IF elapsed >= RefillRate
        THEN [tokens |-> b.tokens + (elapsed \div RefillRate), lastRefill |-> now]
        ELSE b

Refilled_TimeNotAdvanced(b) ==
    LET elapsed == now - b.lastRefill
    IN  IF elapsed >= RefillRate
        THEN [b EXCEPT !.tokens = AtMost(@ + (elapsed \div RefillRate), MaxTokens)]
        ELSE b

(* One token per whole RefillRate elapsed; the remainder is forgotten,     *)
(* because lastRefill becomes now.                                         *)
Refilled(b) ==
    LET elapsed == now - b.lastRefill
    IN  IF elapsed >= RefillRate
        THEN [tokens     |-> AtMost(b.tokens + (elapsed \div RefillRate), MaxTokens),
              lastRefill |-> now]
        ELSE b

(* The section under bucket.mu: refill, then return true and take a token, *)
(* or return false.                                                        *)
Take(t) ==
    LET b == held[t]
        r == Refilled(bucket[b])
    IN  /\ pc[t] = "holding"
        /\ pc' = [pc EXCEPT ![t] = "idle"]
        /\ held' = [held EXCEPT ![t] = NoBucket]
        /\ \/ /\ r.tokens > 0
              /\ bucket' = [bucket EXCEPT ![b] = [r EXCEPT !.tokens = r.tokens - 1]]
              /\ grants' = [grants EXCEPT ![b] = @ + 1]
              /\ granted' = [granted EXCEPT ![key[t]] = @ + 1]
           \/ /\ r.tokens = 0
              /\ bucket' = [bucket EXCEPT ![b] = r]
              /\ UNCHANGED <<grants, granted>>
        /\ UNCHANGED <<now, tokens, key, cleaner, toVisit, tick, stopped, born, opened>>

-----------------------------------------------------------------------------
(* Time passes; the ticker fires each CleanupPeriod and drops the tick if  *)
(* the previous one has not been received.                                 *)
Tick ==
    /\ now < MaxTime
    /\ now' = now + 1
    /\ tick' = (tick \/ (~stopped /\ (now + 1) % CleanupPeriod = 0))
    /\ UNCHANGED <<tokens, bucket, pc, key, held, cleaner, toVisit, stopped, history>>

(* The cleanup goroutine receives a tick ...                               *)
Wake ==
    /\ cleaner = "waiting"
    /\ tick
    /\ tick' = FALSE
    /\ cleaner' = "woken"
    /\ UNCHANGED <<now, tokens, bucket, pc, key, held, toVisit, stopped, history>>

(* ... locks rl.mu and starts ranging over the map ...                     *)
BeginSweep ==
    /\ cleaner = "woken"
    /\ cleaner' = "sweeping"
    /\ toVisit' = {k \in Keys : tokens[k] # NoBucket}
    /\ UNCHANGED <<now, tokens, bucket, pc, key, held, tick, stopped, history>>

(* Mutant of Removable: an idle bucket is old whatever it owes.            *)
Removable_AnyTokens(b) == now - b.lastRefill > IdleLimit

(* The sweep's test for an old bucket.                                     *)
Removable(b) ==
    /\ b.tokens = MaxTokens
    /\ now - b.lastRefill > IdleLimit

(* ... deletes the next bucket of the range if it is full and idle ...     *)
SweepBucket(k) ==
    /\ cleaner = "sweeping"
    /\ k \in toVisit
    /\ toVisit' = toVisit \ {k}
    /\ tokens' = IF Removable(bucket[tokens[k]])
                 THEN [tokens EXCEPT ![k] = NoBucket]
                 ELSE tokens
    /\ UNCHANGED <<now, bucket, pc, key, held, cleaner, tick, stopped, history>>

(* Mutant of EndSweep: the unlock at the end of the loop body is missing.  *)
EndSweep_NoUnlock ==
    /\ cleaner = "sweeping"
    /\ toVisit = {}
    /\ UNCHANGED vars

(* ... and unlocks rl.mu.                                                  *)
EndSweep ==
    /\ cleaner = "sweeping"
    /\ toVisit = {}
    /\ cleaner' = "waiting"
    /\ UNCHANGED <<now, tokens, bucket, pc, key, held, toVisit, tick, stopped, history>>

(* Stop stops the ticker: since Go 1.23 no stale tick can be received      *)
(* afterwards.  The channel is not closed, so cleanup waits for ever.      *)
Stop ==
    /\ stopped' = TRUE
    /\ tick' = FALSE
    /\ UNCHANGED <<now, tokens, bucket, pc, key, held, cleaner, toVisit, history>>

Cleanup == Wake \/ BeginSweep \/ (\E k \in Keys : SweepBucket(k)) \/ EndSweep

Next ==
    \/ \E t \in Threads, k \in Keys : Call(t, k)
    \/ \E t \in Threads : Lookup(t) \/ Take(t)
    \/ Cleanup
    \/ Tick
    \/ Stop

(* Go schedules every runnable goroutine; its mutexes are starvation free. *)
Fairness ==
    /\ \A t \in Threads : WF_vars(Lookup(t)) /\ WF_vars(Take(t))
    /\ WF_vars(Cleanup)

Spec == Init /\ [][Next]_vars

FairSpec == Spec /\ Fairness

-----------------------------------------------------------------------------
(* What Allow guarantees for one bucket: every token taken or still there  *)
(* was in the initial burst or was earned by a whole RefillRate that has   *)
(* elapsed, so neither a lost remainder, nor the cap, nor the order of the *)
(* callers under bucket.mu ever creates a token.                           *)
BucketBudget ==
    \A b \in Buckets :
        (grants[b] + bucket[b].tokens - MaxTokens) * RefillRate
            <= bucket[b].lastRefill - born[b]

(* What RateLimitInterceptor guarantees for one key, over all the buckets  *)
(* the key has had: the sweep may delete a bucket that a caller has looked *)
(* up and not yet locked, and that caller then draws on the orphan while   *)
(* the others draw on a new full bucket.  The budget survives as long as   *)
(* IdleLimit earns a token for each caller that can hold an orphan.        *)
KeyBudget ==
    IdleLimit >= Cardinality(Threads) * RefillRate =>
        \A k \in Keys : opened[k] # Unopened =>
            (granted[k] - MaxTokens) * RefillRate <= now - opened[k]

(* A bucket from which a token was ever taken is never full again: Allow   *)
(* refills only to take, and nothing else refills.                         *)
UsedIsNotFull ==
    \A b \in Buckets : grants[b] > 0 => bucket[b].tokens < MaxTokens

(* Consequence for the sweep: the only buckets it ever deletes are the     *)
(* ones no caller has drawn on, so deleting one forgets no debt.           *)
SweepForgetsNoDebt ==
    [][\A k \in Keys : tokens[k] # NoBucket /\ tokens'[k] = NoBucket =>
           grants[tokens[k]] = 0]_vars

(* Stop stops the cleanup: a cleanup goroutine that waits when Stop is     *)
(* called never starts another sweep.                                      *)
StopIsFinal ==
    [][stopped /\ cleaner = "waiting" => cleaner' = "waiting"]_vars

(* No deadlock between rl.mu and the bucket mutexes, and no caller locked  *)
(* out by the cleanup goroutine: every call of Allow returns.              *)
EveryCallReturns ==
    \A t \in Threads : pc[t] = "calling" ~> pc[t] = "idle"

(* "Remove if bucket is full and hasn't been used in 5 minutes"            *)
(* (ratelimit.go:89), "removes buckets that are full and unused for 5+     *)
(* minutes" (ratelimit_test.go:277): a visit of the sweep to a bucket that *)
(* has been idle for IdleLimit, and that a refill would fill, deletes it.  *)
(* Within RefillRate of lastRefill a call may have left lastRefill alone.  *)
SweepRemovesIdle ==
    [][\A k \in toVisit \ toVisit' :
           LET b == bucket[tokens[k]]
           IN  /\ now - b.lastRefill > IdleLimit + RefillRate
               /\ Refilled(b).tokens = MaxTokens
               => tokens'[k] = NoBucket]_vars

(* The detailed limiter implements the budget promised to callers.         *)
Budget == INSTANCE TokenBudget WITH
    now     <- now,
    opened  <- opened,
    granted <- granted

ImplementsTokenBudget == Budget!Spec
=============================================================================
