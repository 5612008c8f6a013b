--------------------------- MODULE ServiceProofs ---------------------------
(***************************************************************************)
(* Proofs about Service, for any number of calls and any sources of        *)
(* configuration.                                                          *)
(***************************************************************************)
EXTENDS Service, TLAPS

(* How far main has come, and with it what is registered.                  *)
Loading    == {"loading", "connecting postgres", "pinging postgres"}
Connecting == {"connecting redis", "pinging redis"}
Connected  == {"starting", "running", "stopping", "returned", "crashed"}

Shape ==
    /\ stage \in Stages
    /\ hooks \in Seq(Hooks)
    /\ conn \in [Hooks -> {"none", "open", "held", "closed", "leaked"}]

HooksInv ==
    /\ stage \in Loading => Len(hooks) = 0
    /\ stage \in Connecting => Len(hooks) = 1 /\ hooks[1] = "postgres"
    /\ stage \in Connected => Len(hooks) = 2 /\ hooks[1] = "postgres" /\ hooks[2] = "redis"
    /\ stage = "stopping" => due = 2

(* Before Shutdown no function has been executed; then each has closed     *)
(* its connection, one after the other.                                    *)
ConnInv ==
    /\ stage \in Loading \cup Connecting \cup {"starting", "running"} => cleaned = 0
    /\ stage \in {"loading", "connecting postgres"} => conn["postgres"] = "none"
    /\ stage = "pinging postgres" => conn["postgres"] = "open"
    /\ stage \in Connecting \cup {"starting", "running"} => conn["postgres"] = "held"
    /\ stage \in Loading \cup {"connecting redis"} => conn["redis"] = "none"
    /\ stage = "pinging redis" => conn["redis"] = "open"
    /\ stage \in {"starting", "running"} => conn["redis"] \in {"held", "leaked"}
    /\ stage = "stopping" =>
          /\ cleaned \in {0, 1, 2}
          /\ conn["postgres"] = IF cleaned = 0 THEN "held" ELSE "closed"
          /\ IF cleaned = 2 THEN conn["redis"] = "closed" ELSE conn["redis"] \in {"held", "leaked"}

(* A connection is closed only behind the last call, and no other begins.  *)
ClosedInv ==
    /\ stage \in Loading \cup Connecting \cup {"starting"} => inflight = {}
    /\ (\E c \in Hooks : conn[c] = "closed") =>
          inflight = {} /\ (quit \/ stage \notin {"running", "stopping"})

IInv == Shape /\ HooksInv /\ ConnInv /\ ClosedInv /\ Released

-----------------------------------------------------------------------------
LEMMA IInvInit ==
    ASSUME ServiceInit
    PROVE  IInv
    <1>1. hooks = <<>>
        BY DEF ServiceInit, Init
    <1>2. hooks \in Seq(Hooks) /\ Len(hooks) = 0
        BY <1>1
    <1>3. Shape
        BY <1>2, HooksAssumption DEF ServiceInit, Shape, Stages
    <1>4. HooksInv /\ ConnInv /\ ClosedInv /\ Released
        BY <1>2, HooksAssumption DEF ServiceInit, Init, HooksInv, ConnInv, ClosedInv, Released,
                                     Loading, Connecting, Connected
    <1> QED BY <1>3, <1>4 DEF IInv

(* What AddShutdownFunc does to the functions.                             *)
LEMMA RegisterFacts ==
    ASSUME hooks \in Seq(Hooks), NEW h \in Hooks, Register(h)
    PROVE  /\ hooks' \in Seq(Hooks)
           /\ Len(hooks') = Len(hooks) + 1
           /\ \A i \in 1 .. Len(hooks) : hooks'[i] = hooks[i]
           /\ hooks'[Len(hooks) + 1] = h
    BY DEF Register

-----------------------------------------------------------------------------
(* main up to the registration of both functions.                          *)
LEMMA SetUpStep ==
    ASSUME IInv,
           \/ Configure \/ OpenPool \/ PingPool \/ PingPoolFails
           \/ OpenClient \/ PingClient \/ PingClientFails
    PROVE  IInv'
    <1> USE HooksAssumption
    <1>1. Shape /\ HooksInv /\ ConnInv /\ ClosedInv /\ Released
        BY DEF IInv
    <1>2. CASE Configure
        <2>1. /\ stage = "loading" /\ stage' = "connecting postgres"
              /\ UNCHANGED <<quit, inflight, hooks, due, cleaned, conn>>
            BY <1>2 DEF Configure, server, vars
        <2> QED BY <1>1, <2>1 DEF IInv, Shape, HooksInv, ConnInv, ClosedInv, Released,
                                  Loading, Connecting, Connected, Stages
    <1>3. CASE OpenPool \/ PingPoolFails \/ OpenClient
        <2>1. UNCHANGED <<quit, inflight, hooks, due, cleaned>>
            BY <1>3 DEF OpenPool, PingPoolFails, OpenClient, server, vars
        <2>2. /\ stage \in {"connecting postgres", "pinging postgres", "connecting redis"}
              /\ stage' \in {"pinging postgres", "pinging redis", "fatal"}
              /\ conn' \in [Hooks -> {"none", "open", "held", "closed", "leaked"}]
            BY <1>1, <1>3 DEF OpenPool, PingPoolFails, OpenClient, PoolAfterFailedPing, Shape
        <2>3. /\ stage' = "pinging postgres" => /\ conn'["postgres"] = "open"
                                                /\ stage = "connecting postgres"
              /\ stage' = "pinging redis" => conn'["redis"] = "open"
              /\ stage # "connecting redis" => conn'["redis"] = conn["redis"]
              /\ stage = "connecting redis" => conn'["postgres"] = conn["postgres"]
              /\ stage = "connecting redis" <=> stage' = "pinging redis"
              /\ conn'["postgres"] # "leaked"
            BY <1>1, <1>3 DEF OpenPool, PingPoolFails, OpenClient, PoolAfterFailedPing,
                              Shape, ConnInv, Connecting
        <2>4. Shape' /\ HooksInv' /\ ConnInv' /\ Released'
            BY <1>1, <2>1, <2>2, <2>3
            DEF Shape, HooksInv, ConnInv, Released, Loading, Connecting, Connected, Stages
        <2>5. ClosedInv'
            BY <1>1, <2>1, <2>2, <2>3 DEF ClosedInv, Loading, Connecting
        <2> QED BY <2>4, <2>5 DEF IInv
    <1>4. CASE PingPool
        <2>1. /\ stage = "pinging postgres" /\ stage' = "connecting redis"
              /\ conn' = [conn EXCEPT !["postgres"] = "held"]
              /\ UNCHANGED <<quit, inflight, due, cleaned>>
            BY <1>4 DEF PingPool, Register
        <2>2. hooks' \in Seq(Hooks) /\ Len(hooks') = 1 /\ hooks'[1] = "postgres"
            <3>1. hooks \in Seq(Hooks) /\ Len(hooks) = 0 /\ Register("postgres")
                BY <1>1, <1>4 DEF PingPool, HooksInv, Shape, Loading
            <3>2. "postgres" \in Hooks
                OBVIOUS
            <3> QED BY <3>1, <3>2, RegisterFacts
        <2>3. Shape' /\ conn'["postgres"] = "held" /\ conn'["redis"] = conn["redis"]
            BY <1>1, <2>1, <2>2 DEF Shape, Stages
        <2> QED BY <1>1, <2>1, <2>2, <2>3
                DEF IInv, HooksInv, ConnInv, ClosedInv, Released, Loading, Connecting, Connected
    <1>5. CASE (PingClient \/ PingClientFails) /\ stage' = "starting"
        <2>1. /\ stage = "pinging redis" /\ stage' = "starting"
              /\ \E outcome \in {"held", "leaked"} : conn' = [conn EXCEPT !["redis"] = outcome]
              /\ Register("redis")
              /\ UNCHANGED <<quit, inflight, due, cleaned>>
            BY <1>5 DEF PingClient, PingClientFails, Register
        <2>2. /\ hooks' \in Seq(Hooks)
              /\ Len(hooks') = 2 /\ hooks'[1] = "postgres" /\ hooks'[2] = "redis"
            <3>1. /\ hooks \in Seq(Hooks) /\ Len(hooks) = 1 /\ hooks[1] = "postgres"
                  /\ Register("redis")
                BY <1>1, <2>1 DEF HooksInv, Shape, Connecting
            <3>2. "redis" \in Hooks
                OBVIOUS
            <3>3. /\ hooks' \in Seq(Hooks) /\ Len(hooks') = 2
                  /\ \A i \in 1 .. 1 : hooks'[i] = hooks[i]
                  /\ hooks'[2] = "redis"
                BY <3>1, <3>2, RegisterFacts
            <3> QED BY <3>1, <3>3
        <2>3. Shape' /\ conn'["postgres"] = conn["postgres"] /\ conn'["redis"] \in {"held", "leaked"}
            BY <1>1, <2>1, <2>2 DEF Shape, Stages
        <2> QED BY <1>1, <2>1, <2>2, <2>3
                DEF IInv, HooksInv, ConnInv, ClosedInv, Released, Loading, Connecting, Connected
    <1>6. CASE PingClientFails /\ stage' # "starting"
        <2>1. /\ stage = "pinging redis" /\ stage' = "fatal"
              /\ conn' = [conn EXCEPT !["redis"] = "leaked"]
              /\ UNCHANGED <<quit, inflight, hooks, due, cleaned>>
            BY <1>6 DEF PingClientFails, server, vars
        <2>2. Shape' /\ conn'["postgres"] = conn["postgres"]
            BY <1>1, <2>1 DEF Shape, Stages
        <2> QED BY <1>1, <2>1, <2>2
                DEF IInv, HooksInv, ConnInv, ClosedInv, Released, Loading, Connecting, Connected
    <1>7. PingClient => stage' = "starting"
        BY DEF PingClient
    <1> QED BY <1>2, <1>3, <1>4, <1>5, <1>6, <1>7

(* The server starts, fails, serves and is told to stop.                   *)
LEMMA ServeStep ==
    ASSUME IInv, Start \/ ServeFails \/ Handle \/ Signal \/ StopAccepting
    PROVE  IInv'
    <1> USE HooksAssumption
    <1>1. Shape /\ HooksInv /\ ConnInv /\ ClosedInv /\ Released
        BY DEF IInv
    <1>2. CASE Start \/ ServeFails
        <2>1. /\ stage \in {"starting", "running"} /\ stage' \in {"running", "fatal"}
              /\ UNCHANGED <<quit, inflight, hooks, due, cleaned, conn>>
            BY <1>2 DEF Start, ServeFails, server, vars
        <2> QED BY <1>1, <2>1 DEF IInv, Shape, HooksInv, ConnInv, ClosedInv, Released,
                                  Loading, Connecting, Connected, Stages
    <1>3. CASE Handle
        <2>1. /\ stage \in {"running", "stopping"}
              /\ UNCHANGED <<stage, quit, hooks, due, cleaned, conn>>
              /\ quit => inflight' \subseteq inflight
            BY <1>3 DEF Handle, Begin, End, program
        <2> QED BY <1>1, <2>1 DEF IInv, Shape, HooksInv, ConnInv, ClosedInv, Released,
                                  Loading, Connecting, Connected, Stages
    <1>4. CASE Signal
        <2>1. /\ stage = "running" /\ stage' = "stopping" /\ due' = Len(hooks)
              /\ UNCHANGED <<quit, inflight, hooks, cleaned, conn>>
            BY <1>4 DEF Signal, Summon
        <2> QED BY <1>1, <2>1 DEF IInv, Shape, HooksInv, ConnInv, ClosedInv, Released,
                                  Loading, Connecting, Connected, Stages
    <1>5. CASE StopAccepting
        <2>1. /\ stage = "stopping" /\ quit'
              /\ UNCHANGED <<stage, inflight, hooks, due, cleaned, conn>>
            BY <1>5 DEF StopAccepting, Quit, program
        <2> QED BY <1>1, <2>1 DEF IInv, Shape, HooksInv, ConnInv, ClosedInv, Released,
                                  Loading, Connecting, Connected, Stages
    <1> QED BY <1>2, <1>3, <1>4, <1>5

(* Shutdown executes a function: behind the last call, and each connection *)
(* in the order of the registration.                                       *)
LEMMA CleanUpStep ==
    ASSUME IInv, RunHook \/ Return
    PROVE  IInv'
    <1> USE HooksAssumption
    <1>1. Shape /\ HooksInv /\ ConnInv /\ ClosedInv /\ Released
        BY DEF IInv
    <1>2. stage = "stopping" /\ quit /\ inflight = {} /\ quit' /\ inflight' = {}
          /\ UNCHANGED <<hooks, due>>
        BY DEF RunHook, Return, Clean, Finish, Drained
    <1>3. CASE RunHook
        <2>1. /\ cleaned \in {0, 1} /\ cleaned' = cleaned + 1
              /\ hooks[cleaned + 1] = IF cleaned = 0 THEN "postgres" ELSE "redis"
            <3>1. cleaned < Len(hooks) /\ cleaned' = cleaned + 1
                BY <1>3 DEF RunHook, Clean
            <3>2. Len(hooks) = 2 /\ hooks[1] = "postgres" /\ hooks[2] = "redis"
                BY <1>1, <1>2 DEF HooksInv, Connected
            <3>3. cleaned \in {0, 1, 2}
                BY <1>1, <1>2 DEF ConnInv
            <3> QED BY <3>1, <3>2, <3>3
        <2>2. CASE cleaned = 0
            <3>1. /\ stage' = "stopping" /\ conn' = [conn EXCEPT !["postgres"] = "closed"]
                  /\ cleaned' = 1
                BY <1>1, <1>2, <1>3, <2>1, <2>2 DEF RunHook, ConnInv
            <3>2. Shape' /\ conn'["postgres"] = "closed" /\ conn'["redis"] \in {"held", "leaked"}
                BY <1>1, <1>2, <2>2, <3>1 DEF Shape, Stages, ConnInv
            <3> QED BY <1>1, <1>2, <3>1, <3>2
                    DEF IInv, HooksInv, ConnInv, ClosedInv, Released, Loading, Connecting, Connected
        <2>3. CASE cleaned = 1
            <3>1. /\ conn["postgres"] = "closed" /\ cleaned' = 2
                  /\ \/ stage' = "stopping" /\ conn' = [conn EXCEPT !["redis"] = "closed"]
                     \/ stage' = "crashed" /\ conn' = conn /\ conn["redis"] = "leaked"
                BY <1>1, <1>2, <1>3, <2>1, <2>3 DEF RunHook, ConnInv
            <3>2. Shape' /\ conn'["postgres"] = "closed"
                  /\ conn'["redis"] = IF stage' = "stopping" THEN "closed" ELSE "leaked"
                <4>1. CASE stage' = "stopping" /\ conn' = [conn EXCEPT !["redis"] = "closed"]
                    BY <1>1, <1>2, <3>1, <4>1 DEF Shape, Stages
                <4>2. CASE stage' = "crashed" /\ conn' = conn /\ conn["redis"] = "leaked"
                    BY <1>1, <1>2, <3>1, <4>2 DEF Shape, Stages
                <4> QED BY <3>1, <4>1, <4>2
            <3>3. HooksInv'
                <4>1. /\ Len(hooks') = 2 /\ hooks'[1] = "postgres" /\ hooks'[2] = "redis"
                      /\ due' = 2
                    BY <1>1, <1>2 DEF HooksInv, Connected
                <4>2. stage' \in {"stopping", "crashed"}
                    BY <3>1
                <4> QED BY <4>1, <4>2 DEF HooksInv, Loading, Connecting
            <3>4. ConnInv' /\ ClosedInv' /\ Released'
                <4>1. CASE stage' = "stopping"
                    <5>1. cleaned' = 2 /\ conn'["postgres"] = "closed" /\ conn'["redis"] = "closed"
                        BY <3>1, <3>2, <4>1
                    <5> QED BY <1>2, <4>1, <5>1 DEF ConnInv, ClosedInv, Released, Loading, Connecting
                <4>2. CASE stage' = "crashed"
                    <5>1. conn'["postgres"] = "closed" /\ conn'["redis"] = "leaked"
                        BY <3>2, <4>2
                    <5> QED BY <1>2, <4>2, <5>1 DEF ConnInv, ClosedInv, Released, Loading, Connecting
                <4> QED BY <3>1, <4>1, <4>2
            <3> QED BY <3>2, <3>3, <3>4 DEF IInv
        <2> QED BY <2>1, <2>2, <2>3
    <1>4. CASE Return
        <2>1. stage' = "returned" /\ UNCHANGED <<conn, cleaned>> /\ 2 <= cleaned
            BY <1>1, <1>2, <1>4 DEF Return, Finish, HooksInv
        <2>2. cleaned = 2 /\ conn["postgres"] = "closed" /\ conn["redis"] = "closed"
            BY <1>1, <1>2, <2>1 DEF ConnInv
        <2> QED BY <1>1, <1>2, <2>1, <2>2 DEF IInv, Shape, HooksInv, ConnInv, ClosedInv, Released,
                                  Loading, Connecting, Connected, Stages
    <1> QED BY <1>3, <1>4

LEMMA IInvStep ==
    ASSUME IInv, [ServiceNext]_<<server, program>>
    PROVE  IInv'
    <1>1. CASE ServiceNext
        BY <1>1, SetUpStep, ServeStep, CleanUpStep DEF ServiceNext
    <1>2. CASE UNCHANGED <<server, program>>
        <2>1. UNCHANGED <<quit, inflight, hooks, due, cleaned, stage, conn>>
            BY <1>2 DEF server, program, vars
        <2> QED BY <2>1 DEF IInv, Shape, HooksInv, ConnInv, ClosedInv, Released
    <1> QED BY <1>1, <1>2

(* IInv is inductive.                                                      *)
THEOREM Inductive == ServiceSpec => []IInv
    <1>1. ServiceInit => IInv
        BY IInvInit
    <1>2. IInv /\ [ServiceNext]_<<server, program>> => IInv'
        BY IInvStep
    <1> QED BY <1>1, <1>2, PTL DEF ServiceSpec

-----------------------------------------------------------------------------
(* "Close database connections" (complete-guide.md:254): however many      *)
(* calls are in flight when the signal comes, none of their handlers finds *)
(* a connection closed under it.                                           *)
THEOREM ConnectionsOutliveHandlers == ServiceSpec => []HandlersFindConnections
    <1>1. IInv => HandlersFindConnections
        BY DEF IInv, ClosedInv, HandlersFindConnections
    <1> QED BY <1>1, Inductive, PTL

(* Whatever the configuration, whatever fails: an orderly end leaves no    *)
(* connection open, the pool is never dropped open, and the process        *)
(* crashes in Shutdown only on a Redis client whose ping failed.           *)
THEOREM ConnectionsReleased == ServiceSpec => []Released
    <1>1. IInv => Released
        BY DEF IInv
    <1> QED BY <1>1, Inductive, PTL
-----------------------------------------------------------------------------
Read == [key \in Keys \cup {"level"} |-> IF key = "level" THEN Level ELSE Chosen(key)]

(* What main has read stays what it has read, and is what the process      *)
(* found: no step behind Configure writes source or settings.              *)
Configured ==
    /\ source \in Sources
    /\ stage = "loading" => settings = [key \in Keys \cup {"level"} |-> ""]
    /\ stage # "loading" => settings = Read

(* The variables of the contract, beside those that Shape types.           *)
ContractShape ==
    /\ quit \in BOOLEAN /\ over \in BOOLEAN
    /\ inflight \subseteq Rpcs
    /\ due \in Nat /\ due <= Len(hooks)
    /\ cleaned \in Nat /\ cleaned <= Len(hooks)
    /\ over <=> stage = "returned"

LEMMA ConfiguredStep ==
    ASSUME Configured, [ServiceNext]_<<server, program>>
    PROVE  Configured'
    <1>1. CASE Configure
        <2>1. /\ source' = source /\ stage' = "connecting postgres"
              /\ settings' = Read
            BY <1>1 DEF Configure, Read
        <2>2. Read' = Read
            BY <2>1 DEF Read, Chosen, Level, Get
        <2> QED BY <2>1, <2>2 DEF Configured
    <1>2. CASE ~Configure
        <2>1. UNCHANGED <<source, settings>>
            BY <1>2 DEF ServiceNext, OpenPool, PingPool, PingPoolFails, OpenClient, PingClient,
                        PingClientFails, Start, ServeFails, Handle, Signal, StopAccepting, RunHook, Return, program
        <2>2. stage' = "loading" <=> stage = "loading"
            BY <1>2 DEF ServiceNext, OpenPool, PingPool, PingPoolFails, OpenClient, PingClient,
                        PingClientFails, Start, ServeFails, Handle, Signal, StopAccepting, RunHook, Return, program
        <2>3. Read' = Read
            BY <2>1 DEF Read, Chosen, Level, Get
        <2> QED BY <2>1, <2>2, <2>3 DEF Configured
    <1> QED BY <1>1, <1>2

(* Configured is inductive by itself.                                      *)
THEOREM SettingsStay == ServiceSpec => []Configured
    <1>1. ServiceInit => Configured
        BY DEF ServiceInit, Configured
    <1>2. Configured /\ [ServiceNext]_<<server, program>> => Configured'
        BY ConfiguredStep
    <1> QED BY <1>1, <1>2, PTL DEF ServiceSpec

(* config.go:18 and main.go:612-624: for every file and every environment, *)
(* the settings of main are those EnvironmentWins asks for, and no step    *)
(* behind Configure changes them.                                          *)
THEOREM EnvironmentDecides == ServiceSpec => []EnvironmentWins
    <1>1. ASSUME Configured, stage # "loading"
          PROVE  EnvironmentWins
        <2>1. settings = Read
            BY <1>1 DEF Configured
        <2>2. settings["level"] = Level
            BY <2>1 DEF Read
        <2>3. ASSUME NEW key \in Keys
              PROVE  settings[key] = Chosen(key)
            BY <2>1 DEF Read, Keys
        <2>4. ASSUME NEW key \in Keys
              PROVE  /\ source.env[key] \in Unset(key) \cup {settings[key]}
                     /\ source.env[key] = "" /\ source.file = "valid" =>
                           source.written[key] \in Unset(key) \cup {settings[key]}
            <3>1. "" \in Unset(key)
                BY DEF Unset
            <3> QED BY <2>3, <3>1 DEF Chosen, Get
        <2>5. settings["environment"] = Chosen("environment")
            BY <2>3 DEF Keys
        <2>6. settings["level"] = "debug" => \/ source.env["LOG_LEVEL"] = "debug"
                                             \/ settings["environment"] = "development"
            BY <2>2, <2>5 DEF Level
        <2> QED BY <2>4, <2>6 DEF EnvironmentWins
    <1>2. Configured => EnvironmentWins
        BY <1>1 DEF EnvironmentWins
    <1> QED BY <1>2, SettingsStay, PTL

-----------------------------------------------------------------------------
(* The settings are texts of the file, of the environment or of main.      *)
LEMMA SettingsAreTexts ==
    ASSUME Configured
    PROVE  settings \in [Keys \cup {"level"} -> Texts]
    <1>1. /\ source.written \in [Keys -> Texts]
          /\ source.env \in [Keys \cup {"LOG_LEVEL"} -> Texts]
        BY SourcesAssumption DEF Configured
    <1>2. ASSUME NEW key \in Keys
          PROVE  Chosen(key) \in Texts
        <2>1. Get(key) \in Texts
            BY <1>1, TextsAssumption DEF Get
        <2>2. Default(key) \in Texts
            BY TextsAssumption DEF Default, Keys
        <2> QED BY <2>1, <2>2 DEF Chosen
    <1>3. Level \in Texts
        <2>1. source.env["LOG_LEVEL"] \in Texts
            BY <1>1
        <2> QED BY <2>1, TextsAssumption DEF Level
    <1>4. CASE stage = "loading"
        BY <1>4, TextsAssumption DEF Configured
    <1>5. CASE stage # "loading"
        BY <1>2, <1>3, <1>5 DEF Configured, Read
    <1> QED BY <1>4, <1>5

LEMMA ContractShapeStep ==
    ASSUME IInv, ContractShape, [ServiceNext]_<<server, program>>
    PROVE  ContractShape'
    <1>1. hooks \in Seq(Hooks) /\ Len(hooks) \in Nat
        BY DEF IInv, Shape
    <1>2. CASE \/ PingPool \/ PingClient
               \/ PingClientFails /\ stage' = "starting"
        <2>1. PICK h \in Hooks : Register(h)
            BY <1>2, HooksAssumption DEF PingPool, PingClient, PingClientFails
        <2>2. Len(hooks') = Len(hooks) + 1
            BY <1>1, <2>1, RegisterFacts
        <2>3. /\ UNCHANGED <<quit, inflight, due, cleaned, over>>
              /\ stage # "returned" /\ stage' # "returned"
            BY <1>2, <2>1 DEF PingPool, PingClient, PingClientFails, Register
        <2> QED BY <1>1, <2>2, <2>3 DEF ContractShape
    <1>3. CASE \/ Configure \/ OpenPool \/ PingPoolFails \/ OpenClient \/ Start \/ ServeFails
               \/ PingClientFails /\ stage' # "starting"
        <2>1. /\ UNCHANGED <<quit, inflight, hooks, due, cleaned, over>>
              /\ stage # "returned" /\ stage' # "returned"
            BY <1>3 DEF Configure, OpenPool, PingPoolFails, OpenClient, PingClientFails,
                        Start, ServeFails, server, vars
        <2> QED BY <2>1 DEF ContractShape
    <1>4. CASE Handle
        <2>1. /\ UNCHANGED <<quit, hooks, due, cleaned, over, stage>>
              /\ inflight' \subseteq inflight \cup Rpcs
            BY <1>4 DEF Handle, Begin, End, program
        <2> QED BY <2>1 DEF ContractShape
    <1>5. CASE Signal
        <2>1. /\ UNCHANGED <<quit, inflight, hooks, cleaned, over>> /\ due' = Len(hooks)
              /\ stage = "running" /\ stage' = "stopping"
            BY <1>5 DEF Signal, Summon
        <2> QED BY <1>1, <2>1 DEF ContractShape
    <1>6. CASE StopAccepting
        <2>1. UNCHANGED <<inflight, hooks, due, cleaned, over, stage>> /\ quit' = TRUE
            BY <1>6 DEF StopAccepting, Quit, program
        <2> QED BY <2>1 DEF ContractShape
    <1>7. CASE RunHook
        <2>1. /\ UNCHANGED <<quit, inflight, hooks, due, over>>
              /\ cleaned < Len(hooks) /\ cleaned' = cleaned + 1
              /\ stage = "stopping" /\ stage' \in {"stopping", "crashed"}
            BY <1>7 DEF RunHook, Clean
        <2> QED BY <1>1, <2>1 DEF ContractShape
    <1>8. CASE Return
        <2>1. UNCHANGED <<quit, inflight, hooks, due, cleaned>> /\ over' = TRUE /\ stage' = "returned"
            BY <1>8 DEF Return, Finish
        <2> QED BY <2>1 DEF ContractShape
    <1>9. CASE UNCHANGED <<server, program>>
        <2>1. UNCHANGED <<quit, inflight, hooks, due, cleaned, over, stage>>
            BY <1>9 DEF server, program, vars
        <2> QED BY <2>1 DEF ContractShape
    <1> QED BY <1>2, <1>3, <1>4, <1>5, <1>6, <1>7, <1>8, <1>9 DEF ServiceNext

(* TypeOK: the variables of the contract, of main and of the connections,  *)
(* and Start has returned nil exactly when main has returned.              *)
THEOREM TypeCorrect == ServiceSpec => []TypeOK
    <1>1. ServiceInit => ContractShape
        <2> SUFFICES ASSUME ServiceInit PROVE ContractShape
            OBVIOUS
        <2>1. hooks = <<>>
            BY DEF ServiceInit, Init
        <2>2. Len(hooks) = 0
            BY <2>1
        <2>3. /\ quit = FALSE /\ over = FALSE /\ inflight = {} /\ stage = "loading"
              /\ due = 0 /\ cleaned = 0
            BY DEF ServiceInit, Init
        <2>4. due \in Nat /\ due <= Len(hooks) /\ cleaned \in Nat /\ cleaned <= Len(hooks)
            BY <2>2, <2>3
        <2>5. over <=> stage = "returned"
            BY <2>3
        <2> QED BY <2>3, <2>4, <2>5 DEF ContractShape
    <1>2. IInv /\ ContractShape /\ [ServiceNext]_<<server, program>> => ContractShape'
        BY ContractShapeStep
    <1>3. IInv /\ ContractShape /\ Configured => TypeOK
        BY SettingsAreTexts DEF IInv, Shape, ContractShape, Configured, TypeOK
    <1> QED BY <1>1, <1>2, <1>3, Inductive, SettingsStay, PTL DEF ServiceSpec
=============================================================================
