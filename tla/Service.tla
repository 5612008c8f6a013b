------------------------------ MODULE Service ------------------------------
(***************************************************************************)
(* A service built on the foundation, from main to the end of the process: *)
(* it loads its configuration as example/server/main.go does, connects to  *)
(* PostgreSQL and Redis, registers their Close as shutdown functions, and  *)
(* runs.  What runs is ServerContract, the abstract server ServerLifecycle *)
(* implements.  NewPostgresPool and NewRedisClient have no caller in the   *)
(* repository's programs: what main does with them is that of the          *)
(* documents, README.md:196-227 and complete-guide.md:330-375.             *)
(***************************************************************************)
EXTENDS ServerContract

CONSTANTS
    Texts,       \* what a file or a variable may hold (see TextsAssumption)
    Sources      \* configuration files and environments (see SourcesAssumption)

ASSUME HooksAssumption == Hooks = {"postgres", "redis"}
ASSUME TextsAssumption == {"", "50051", "9090", "development", "debug", "warn"} \subseteq Texts

Keys == {"server.port", "server.metrics_port", "environment"}

ASSUME SourcesAssumption ==
    Sources \subseteq
        [file     : {"absent", "malformed", "valid"},
         written  : [Keys -> Texts],
         env      : [Keys \cup {"LOG_LEVEL"} -> Texts]]

VARIABLES
    stage,     \* progress of main
    source,    \* the file and the environment that the process finds
    settings,  \* cfg.Port, cfg.MetricsPort, cfg.Environment; the logger's level
    conn       \* the pool and the client

server  == vars
program == <<stage, source, settings, conn>>

(* main connects to the databases one after the other.                     *)
Stages == {"loading", "connecting postgres", "pinging postgres", "connecting redis",
           "pinging redis", "starting", "running", "stopping",
           "returned", "fatal", "crashed"}

TypeOK ==
    /\ quit \in BOOLEAN /\ over \in BOOLEAN
    /\ inflight \subseteq Rpcs
    /\ hooks \in Seq(Hooks)
    /\ due <= Len(hooks) /\ cleaned <= Len(hooks)
    /\ stage \in Stages
    /\ source \in Sources
    /\ settings \in [Keys \cup {"level"} -> Texts]
    /\ conn \in [Hooks -> {"none", "open", "held", "closed", "leaked"}]
    /\ over <=> stage = "returned"

ServiceInit ==
    /\ Init
    /\ stage = "loading"
    /\ source \in Sources
    /\ settings = [key \in Keys \cup {"level"} |-> ""]
    /\ conn = [c \in Hooks |-> "none"]

-----------------------------------------------------------------------------
(* Mutant of Get: a file that cannot be read ends Load before AutomaticEnv.*)
Get_FileFirst(key) ==
    IF source.file = "malformed" THEN ""
    ELSE IF source.env[key] # "" THEN source.env[key]
    ELSE IF source.file = "valid" THEN source.written[key] ELSE ""

(* config.Load: the environment, asked first whether or not there is a     *)
(* file that can be read, then the file.                                   *)
Get(key) ==
    IF source.env[key] # "" THEN source.env[key]
    ELSE IF source.file = "valid" THEN source.written[key] ELSE ""

(* What main takes for unset: GetInt is 0 for what is not a number.        *)
Unset(key) == IF key = "environment" THEN {""} ELSE {"", "0", "text"}

Default(key) ==
    CASE key = "server.port"         -> "50051"
      [] key = "server.metrics_port" -> "9090"
      [] key = "environment"         -> "development"

Chosen(key) == IF Get(key) \in Unset(key) THEN Default(key) ELSE Get(key)

(* NewLogger: LOG_LEVEL, if it is the name of a level, else the            *)
(* environment's.                                                          *)
Level ==
    IF source.env["LOG_LEVEL"] \in {"debug", "info", "warn", "error", "dpanic", "panic", "fatal"}
    THEN source.env["LOG_LEVEL"]
    ELSE IF Chosen("environment") = "development" THEN "debug" ELSE "warn"

(* main up to server.New: a file that cannot be read is a warning.         *)
Configure ==
    /\ stage = "loading"
    /\ settings' = [key \in Keys \cup {"level"} |-> IF key = "level" THEN Level ELSE Chosen(key)]
    /\ stage' = "connecting postgres"
    /\ UNCHANGED <<server, source, conn>>

(* NewPostgresPool: the pool, or an error that is fatal to main ...        *)
OpenPool ==
    /\ stage = "connecting postgres"
    /\ \/ /\ conn' = [conn EXCEPT !["postgres"] = "open"]
          /\ stage' = "pinging postgres"
       \/ /\ stage' = "fatal"
          /\ UNCHANGED conn
    /\ UNCHANGED <<server, source, settings>>

(* ... and its ping; main registers db.Close ...                           *)
PingPool ==
    /\ stage = "pinging postgres"
    /\ conn' = [conn EXCEPT !["postgres"] = "held"]
    /\ stage' = "connecting redis"
    /\ Register("postgres")
    /\ UNCHANGED <<source, settings>>

(* Mutant of PoolAfterFailedPing: the pool is dropped as it is.            *)
PoolAfterFailedPing_Open == "leaked"

PoolAfterFailedPing == "closed"

(* ... unless it fails: the pool is closed, and the error is fatal.        *)
PingPoolFails ==
    /\ stage = "pinging postgres"
    /\ conn' = [conn EXCEPT !["postgres"] = PoolAfterFailedPing]
    /\ stage' = "fatal"
    /\ UNCHANGED <<server, source, settings>>

(* NewRedisClient: the client, which connects in the background ...        *)
OpenClient ==
    /\ stage = "connecting redis"
    /\ conn' = [conn EXCEPT !["redis"] = "open"]
    /\ stage' = "pinging redis"
    /\ UNCHANGED <<server, source, settings>>

(* ... and its ping, within 5 seconds; main registers its Close ...        *)
PingClient ==
    /\ stage = "pinging redis"
    /\ conn' = [conn EXCEPT !["redis"] = "held"]
    /\ stage' = "starting"
    /\ Register("redis")
    /\ UNCHANGED <<source, settings>>

(* ... unless it fails: the client is dropped without Close.  The main of  *)
(* complete-guide.md:366 gives up then; that of README.md:223 does not     *)
(* look at the error and registers the Close of a nil client.              *)
PingClientFails ==
    /\ stage = "pinging redis"
    /\ conn' = [conn EXCEPT !["redis"] = "leaked"]
    /\ \/ /\ stage' = "fatal"
          /\ UNCHANGED server
       \/ /\ stage' = "starting"
          /\ Register("redis")
    /\ UNCHANGED <<source, settings>>

-----------------------------------------------------------------------------
(* srv.Start: it listens, or its error is fatal ...                        *)
Start ==
    /\ stage = "starting"
    /\ stage' \in {"running", "fatal"}
    /\ UNCHANGED <<server, source, settings, conn>>

(* ... as is an error of Serve: no shutdown function is executed.          *)
ServeFails ==
    /\ stage = "running"
    /\ stage' = "fatal"
    /\ UNCHANGED <<server, source, settings, conn>>

(* Handlers use the connections ...                                        *)
Handle ==
    /\ stage \in {"running", "stopping"}
    /\ \E r \in Rpcs : \/ r \notin inflight /\ Begin(r)
                       \/ r \in inflight /\ End(r)
    /\ UNCHANGED program

(* ... until a signal makes Start call Shutdown ...                        *)
Signal ==
    /\ stage = "running"
    /\ stage' = "stopping"
    /\ Summon
    /\ UNCHANGED <<source, settings, conn>>

StopAccepting ==
    /\ stage = "stopping" /\ ~quit
    /\ Quit
    /\ UNCHANGED program

(* ... which executes the functions in turn: each closes its connection;   *)
(* the Close of a nil client panics, and nothing in Shutdown recovers ...  *)
RunHook ==
    /\ stage = "stopping"
    /\ Clean
    /\ LET c == hooks[cleaned + 1] IN
       \/ /\ conn[c] = "held"
          /\ conn' = [conn EXCEPT ![c] = "closed"]
          /\ UNCHANGED stage
       \/ /\ conn[c] = "leaked"
          /\ stage' = "crashed"
          /\ UNCHANGED conn
    /\ UNCHANGED <<source, settings>>

(* Mutant of Return: main takes every return of Start for a failure.       *)
Return_Fatal ==
    /\ stage = "stopping"
    /\ Finish
    /\ stage' = "fatal"
    /\ UNCHANGED <<source, settings, conn>>

(* ... and Start returns nil, and main with it.                            *)
Return ==
    /\ stage = "stopping"
    /\ Finish
    /\ stage' = "returned"
    /\ UNCHANGED <<source, settings, conn>>

ServiceNext ==
    \/ Configure \/ OpenPool \/ PingPool \/ PingPoolFails
    \/ OpenClient \/ PingClient \/ PingClientFails
    \/ Start \/ ServeFails \/ Handle
    \/ Signal \/ StopAccepting \/ RunHook \/ Return

ServiceSpec == ServiceInit /\ [][ServiceNext]_<<server, program>>

-----------------------------------------------------------------------------
(* "Environment variable override" (config.go:18): a variable that is set  *)
(* decides its setting, also where there is a file that cannot be read and *)
(* main reports "using defaults"; where it is not set the file decides, if *)
(* it can be read; neither of two settings is taken for another.  And the  *)
(* log is quiet outside development unless LOG_LEVEL says otherwise.       *)
EnvironmentWins ==
    stage # "loading" =>
        /\ \A key \in Keys :
              /\ source.env[key] \in Unset(key) \cup {settings[key]}
              /\ source.env[key] = "" /\ source.file = "valid" =>
                    source.written[key] \in Unset(key) \cup {settings[key]}
        /\ settings["level"] = "debug" =>
              \/ source.env["LOG_LEVEL"] = "debug"
              \/ settings["environment"] = "development"

(* "Close database connections" on shutdown (complete-guide.md:254): no    *)
(* handler finds a connection closed under it, from the first call to the  *)
(* last one that a shutdown waits for.                                     *)
HandlersFindConnections ==
    inflight # {} => \A c \in Hooks : conn[c] # "closed"

(* After an orderly end nothing is left open.  The only connection that is *)
(* open and in nobody's hands is a Redis client whose ping failed; its nil *)
(* in the shutdown function ends the process, after PostgreSQL was closed. *)
Released ==
    /\ stage = "returned" => \A c \in Hooks : conn[c] = "closed"
    /\ conn["postgres"] # "leaked"
    /\ stage = "crashed" => conn["postgres"] = "closed" /\ conn["redis"] = "leaked"
=============================================================================
