----------------------------- MODULE MCService -----------------------------
(* Small instances of Service for TLC. *)
EXTENDS Service, TLC

CONSTANTS r1, r2

TwoRpcs   == {r1, r2}
Databases == {"postgres", "redis"}

SomeTexts == {"", "0", "text", "7000", "8000", "9000", "50051", "9090", "production", "staging", "development",
              "error", "nonsense", "debug", "warn"}

(* Every kind of file, and for each key nothing, nonsense, or a value that *)
(* tells file and environment apart.                                       *)
SomeSources ==
    {[file    |-> file,
      written |-> "server.port" :> fp @@ "server.metrics_port" :> fm @@ "environment" :> fe,
      env     |-> "server.port" :> ep @@ "server.metrics_port" :> em @@ "environment" :> ee
                  @@ "LOG_LEVEL" :> level] :
        file \in {"absent", "malformed", "valid"},
        fp \in {"", "text", "7000"}, fm \in {"", "9000"}, fe \in {"", "production"},
        ep \in {"", "0", "8000"}, em \in {"", "9000"}, ee \in {"", "staging"},
        level \in {"", "error", "nonsense"}}
=============================================================================
