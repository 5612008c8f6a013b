---------------------------- MODULE TokenBudget ----------------------------
(***************************************************************************)
(* What a rate limiter promises to its callers, with no bucket, no lock    *)
(* and no cleanup: a key first seen at time opened[k] is admitted at most  *)
(* MaxTokens times plus once per RefillRate elapsed since then.            *)
(* RateLimiter implements this specification (see RateLimiter!Budget).     *)
(***************************************************************************)
EXTENDS Integers

CONSTANTS
    Keys,        \* rate limit keys: what RateLimitInterceptor's getKey returns
    MaxTokens,   \* burst size
    RefillRate   \* ticks per refilled token

VARIABLES
    now,         \* monotonic clock, in ticks
    opened,      \* time of the first call for a key, or Unopened
    granted      \* admissions per key

vars == <<now, opened, granted>>

Unopened == -1

Init ==
    /\ now = 0
    /\ opened = [k \in Keys |-> Unopened]
    /\ granted = [k \in Keys |-> 0]

(* Time passes.                                                            *)
Tick ==
    /\ now' = now + 1
    /\ UNCHANGED <<opened, granted>>

(* The first call for k starts its account.                                *)
Open(k) ==
    /\ opened[k] = Unopened
    /\ opened' = [opened EXCEPT ![k] = now]
    /\ UNCHANGED <<now, granted>>

(* A call for k is admitted: one of the tokens earned so far is left.      *)
Admit(k) ==
    /\ opened[k] # Unopened
    /\ (granted[k] + 1 - MaxTokens) * RefillRate <= now - opened[k]
    /\ granted' = [granted EXCEPT ![k] = @ + 1]
    /\ UNCHANGED <<now, opened>>

Next == Tick \/ \E k \in Keys : Open(k) \/ Admit(k)

Spec == Init /\ [][Next]_vars
=============================================================================
