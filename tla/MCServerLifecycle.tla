------------------------- MODULE MCServerLifecycle -------------------------
(* Small instances of ServerLifecycle for TLC. *)
EXTENDS ServerLifecycle

CONSTANTS c1, r1, h1, h2

NoHook    == {}
OneCaller == {c1}
OneRpc    == {r1}
OneHook   == {h1}
TwoHooks  == {h1, h2}
=============================================================================
