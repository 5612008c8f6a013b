--------------------------- MODULE ServerContract ---------------------------
(***************************************************************************)
(* What the Server of pkg/server/server.go promises to the application     *)
(* that registers services and shutdown functions with it: no goroutine,   *)
(* no library, no context.  ServerLifecycle implements this specification  *)
(* (see ServerLifecycle!Contract) and Service builds an application on it. *)
(***************************************************************************)
EXTENDS Naturals, Sequences

CONSTANTS
    Rpcs,      \* calls that clients may make
    Hooks      \* shutdown functions

VARIABLES
    quit,      \* no call is accepted any more
    inflight,  \* calls whose handler is running
    hooks,     \* the registered functions, in order
    due,       \* how many there were when Start began to shut down
    cleaned,   \* how many have been executed
    over       \* Start has returned nil

vars == <<quit, inflight, hooks, due, cleaned, over>>

Init ==
    /\ quit = FALSE
    /\ inflight = {}
    /\ hooks = <<>>
    /\ due = 0
    /\ cleaned = 0
    /\ over = FALSE

(* A client's call is handled ...                                          *)
Begin(r) ==
    /\ ~quit
    /\ inflight' = inflight \cup {r}
    /\ UNCHANGED <<quit, hooks, due, cleaned, over>>

(* ... and answered, during a shutdown too.                                *)
End(r) ==
    /\ inflight' = inflight \ {r}
    /\ UNCHANGED <<quit, hooks, due, cleaned, over>>

(* AddShutdownFunc.                                                        *)
Register(h) ==
    /\ hooks' = Append(hooks, h)
    /\ UNCHANGED <<quit, inflight, due, cleaned, over>>

(* Start is told to shut down ...                                          *)
Summon ==
    /\ due' = Len(hooks)
    /\ UNCHANGED <<quit, inflight, hooks, cleaned, over>>

(* ... it, or another goroutine, accepts no call any more ...              *)
Quit ==
    /\ quit' = TRUE
    /\ UNCHANGED <<inflight, hooks, due, cleaned, over>>

Drained == quit /\ inflight = {}

(* Mutant of Clean: the functions do not wait for the handlers.            *)
Clean_Early ==
    /\ quit
    /\ cleaned < Len(hooks)
    /\ cleaned' = cleaned + 1
    /\ UNCHANGED <<quit, inflight, hooks, due, over>>

(* ... executes the functions in turn, with no handler running ...         *)
Clean ==
    /\ Drained
    /\ cleaned < Len(hooks)
    /\ cleaned' = cleaned + 1
    /\ UNCHANGED <<quit, inflight, hooks, due, over>>

(* ... and Start returns when it has executed all that were due.           *)
Finish ==
    /\ Drained
    /\ due <= cleaned
    /\ over' = TRUE
    /\ UNCHANGED <<quit, inflight, hooks, due, cleaned>>

Next ==
    \/ \E r \in Rpcs : Begin(r) \/ End(r)
    \/ \E h \in Hooks : Register(h)
    \/ Summon \/ Quit \/ Clean \/ Finish

Spec == Init /\ [][Next]_vars
=============================================================================
