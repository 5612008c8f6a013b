--------------------------- MODULE MCInterceptors ---------------------------
(* Small instances of Interceptors for TLC. *)
EXTENDS Interceptors, TLC

CONSTANTS c1, c2

TwoCalls == {c1, c2}

Both == <<"auth", "ratelimit">>

Symmetry == Permutations(TwoCalls)
=============================================================================
