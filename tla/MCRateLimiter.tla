--------------------------- MODULE MCRateLimiter ---------------------------
(* Small instances of RateLimiter for TLC. *)
EXTENDS RateLimiter

CONSTANTS k1, t1, t2, b1, b2, b3

OneKey       == {k1}
TwoThreads   == {t1, t2}
ThreeBuckets == {b1, b2, b3}
=============================================================================
