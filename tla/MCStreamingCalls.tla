-------------------------- MODULE MCStreamingCalls --------------------------
(* Small instances of StreamingCalls for TLC. *)
EXTENDS StreamingCalls, TLC

CONSTANTS u1, u2, u3, u4

(* As in initFakeData: most users are active, one of each other status.    *)
FourUsers    == {u1, u2, u3, u4}
UserStatus   == u1 :> "active" @@ u2 :> "active" @@ u3 :> "inactive" @@ u4 :> "suspended"

(* No page size, a nonsensical one, one that cuts and one that does not.   *)
FourPageSizes == {-1, 0, 1, 5}

(* A conversation with commands that fail among those that succeed.        *)
Conversation == <<"ping", "unknown", "echo without text", "users", "echo">>
=============================================================================
