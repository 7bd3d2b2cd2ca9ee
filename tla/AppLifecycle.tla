---------------------------- MODULE AppLifecycle ----------------------------
(***************************************************************************)
(* The life of one process: Wire's initialisation, the servers, the        *)
(* registration with the gateway, the wait for a signal and the shutdown   *)
(* within one budget of five seconds.  Around the main goroutine: the      *)
(* goroutine that binds the HTTP listener, clients with open requests, the *)
(* tasks these started, and whoever sends signals.                         *)
(***************************************************************************)
EXTENDS Naturals, Sequences, FiniteSets

CONSTANTS
    Clients,         \* clients of the HTTP server; each starts one task
    MaxSignals       \* bound: SIGINT or SIGTERM sent to the process

ASSUME LifecycleAssumption == IsFiniteSet(Clients) /\ MaxSignals \in Nat

Globals == {"config", "logProvider", "meter", "tracer", "logger", "db",
            "redisMain", "redisCache", "cache", "registry"}

VARIABLES
    cfg,             \* what configs/app.yaml and the environment say
    pc,              \* where the main goroutine is
    globals,         \* package variables that have been set
    early,           \* history: globals that were read before they were set
    exit,            \* "none" while the process runs, else how it ended
    subscriber,      \* the goroutine that listens for cancel broadcasts runs
    http, health,    \* the listeners
    late,            \* history: http failed after Start had looked
    signals, notify, quit,   \* sent so far; Notify in force; in the channel
    budget,          \* the shutdown context
    registered,      \* the gateway routes to this instance
    instances,       \* a.gatewayInstances is not empty
    gatewayFault,    \* history: a call to the gateway failed
    conns, tasks,    \* open requests; agents that run
    redis            \* "open" until redis.Close

initVars == <<globals, early>>
srvVars  == <<subscriber, http, health, late>>
sigVars  == <<signals, notify, quit>>
gwVars   == <<registered, instances, gatewayFault>>
useVars  == <<conns, tasks>>
vars == <<cfg, pc, initVars, exit, srvVars, sigVars, budget, gwVars, useVars, redis>>

Init ==
    /\ cfg \in [http: BOOLEAN, health: BOOLEAN, gateway: BOOLEAN,
                migration: BOOLEAN, driver: {"memory", "redis"}]
    /\ pc = "config" /\ exit = "none"
    /\ globals = {} /\ early = {}
    /\ subscriber = FALSE /\ http = "off" /\ health = "off" /\ late = FALSE
    /\ signals = 0 /\ notify = FALSE /\ quit = 0
    /\ budget = "unset"
    /\ registered = FALSE /\ instances = FALSE /\ gatewayFault = FALSE
    /\ conns = {} /\ tasks = {} /\ redis = "off"

-----------------------------------------------------------------------------
(* Initialisation.  Wire orders the providers by their parameters; what a   *)
(* provider reads through a package variable is outside of its sight.       *)

\* Faulty: the cache, which asks for no Redis client, comes first.
WireOrderCacheFirst ==
    <<"config", "log", "metrics", "trace", "logger", "db", "migrate",
      "cache", "redis", "gateway", "subscribe">>

WireOrder ==
    <<"config", "log", "metrics", "trace", "logger", "db", "migrate",
      "redis", "cache", "gateway", "subscribe">>

Following(here) ==
    WireOrder[1 + CHOOSE i \in 1..Len(WireOrder) - 1 : WireOrder[i] = here]

\* A provider returned: it read some globals and set others.
Provided(here, reads, sets) ==
    /\ pc = here /\ exit = "none"
    /\ early' = early \cup (reads \ globals)
    /\ globals' = globals \cup sets
    /\ pc' = Following(here)
    /\ UNCHANGED <<cfg, exit, srvVars, sigVars, budget, gwVars, useVars>>

Dies(how) ==
    /\ exit = "none" /\ exit' = how
    /\ UNCHANGED <<cfg, pc, initVars, srvVars, sigVars, budget, gwVars, useVars, redis>>

\* Every section present must unmarshal.
LoadConfig ==
    \/ Provided("config", {}, {"config"}) /\ UNCHANGED redis
    \/ pc = "config" /\ Dies("error")

\* The OTLP resource, built once from the global configuration.
ResourceReads == {"config"}

InitLog ==
    \/ Provided("log", ResourceReads, {"logProvider"}) /\ UNCHANGED redis
    \/ pc = "log" /\ Dies("error")

\* A missing endpoint panics here, where log and trace return an error.
InitMetrics ==
    \/ Provided("metrics", ResourceReads, {"meter"}) /\ UNCHANGED redis
    \/ pc = "metrics" /\ Dies("panic")

InitTrace ==
    \/ Provided("trace", ResourceReads, {"tracer"}) /\ UNCHANGED redis
    \/ pc = "trace" /\ Dies("error")

InitLogger ==
    \/ Provided("logger", {}, {"logger"}) /\ UNCHANGED redis
    \/ pc = "logger" /\ Dies("panic")

\* No connection: log.Fatalf.  A driver that is neither mysql nor postgres
\* leaves no connector, and the nil pool panics.
InitMainDB ==
    \/ Provided("db", {}, {"db"}) /\ UNCHANGED redis
    \/ pc = "db" /\ \E how \in {"error", "panic"} : Dies(how)

\* Migrations and seed log through the global logger, failures are fatal.
Migrate ==
    \/ /\ Provided("migrate", IF cfg.migration THEN {"logger"} ELSE {}, {})
       /\ UNCHANGED redis
    \/ pc = "migrate" /\ cfg.migration /\ Dies("error")

\* Two clients, created and pinged; any failure is log.Fatalf.
InitRedis ==
    \/ Provided("redis", {}, {"redisMain", "redisCache"}) /\ redis' = "open"
    \/ pc = "redis" /\ Dies("error")

\* An unknown driver panics.
NewCache ==
    \/ /\ Provided("cache", IF cfg.driver = "redis" THEN {"redisCache"} ELSE {}, {"cache"})
       /\ UNCHANGED redis
    \/ pc = "cache" /\ Dies("panic")

ProvideGatewayRegistry ==
    \/ Provided("gateway", {}, IF cfg.gateway THEN {"registry"} ELSE {}) /\ UNCHANGED redis
    \/ pc = "gateway" /\ cfg.gateway /\ Dies("error")

Initialize ==
    \/ LoadConfig \/ InitLog \/ InitMetrics \/ InitTrace \/ InitLogger
    \/ InitMainDB \/ Migrate \/ InitRedis \/ NewCache \/ ProvideGatewayRegistry

-----------------------------------------------------------------------------
(* serve()                                                                 *)

At(here, there) == pc = here /\ exit = "none" /\ pc' = there

\* go-redis subscribes in the background: no error ever comes back.
StartCancelSubscriber ==
    /\ At("subscribe", "startHTTP")
    /\ subscriber' = TRUE
    /\ UNCHANGED <<cfg, initVars, exit, http, health, late, sigVars, budget, gwVars, useVars, redis>>

\* Start builds the routes (the metrics middleware asks for the meter, once)
\* and leaves binding to a goroutine.
StartHTTP ==
    /\ At("startHTTP", IF cfg.http THEN "look" ELSE "startHealth")
    /\ http' = IF cfg.http THEN "binding" ELSE http
    /\ early' = IF cfg.http THEN early \cup ({"meter", "config"} \ globals) ELSE early
    /\ UNCHANGED <<cfg, globals, exit, subscriber, health, late, sigVars, budget, gwVars, useVars, redis>>

\* Faulty: Start returns nil without a look at the error channel.
LookNot ==
    /\ At("look", "startHealth")
    /\ UNCHANGED <<cfg, initVars, exit, srvVars, sigVars, budget, gwVars, useVars, redis>>

\* One look at the error channel; an error that is there is fatal.
Look ==
    IF http = "failed"
    THEN pc = "look" /\ Dies("error")
    ELSE /\ At("look", "startHealth")
         /\ UNCHANGED <<cfg, initVars, exit, srvVars, sigVars, budget, gwVars, useVars, redis>>

StartHealth ==
    \/ /\ At("startHealth", "register")
       /\ health' = IF cfg.health THEN "listening" ELSE health
       /\ UNCHANGED <<cfg, initVars, exit, subscriber, http, late, sigVars, budget, gwVars, useVars, redis>>
    \/ pc = "startHealth" /\ cfg.health /\ Dies("error")

\* Without HTTP there is no instance to register.  An error, after which the
\* instance may be registered all the same, is logged and start-up goes on.
RegisterGateway ==
    /\ At("register", "notify")
    /\ IF cfg.gateway /\ cfg.http
       THEN \/ registered' = TRUE /\ instances' = TRUE /\ UNCHANGED gatewayFault
            \/ registered' \in BOOLEAN /\ gatewayFault' = TRUE /\ UNCHANGED instances
       ELSE UNCHANGED gwVars
    /\ UNCHANGED <<cfg, initVars, exit, srvVars, sigVars, budget, useVars, redis>>

-----------------------------------------------------------------------------
(* waitForInterruptSignal()                                                *)

Notify ==
    /\ At("notify", "wait")
    /\ notify' = TRUE
    /\ UNCHANGED <<cfg, initVars, exit, srvVars, signals, quit, budget, gwVars, useVars, redis>>

Interrupted ==
    /\ At("wait", "unhook") /\ quit = 1
    /\ quit' = 0
    /\ UNCHANGED <<cfg, initVars, exit, srvVars, signals, notify, budget, gwVars, useVars, redis>>

\* signal.Stop gives signals back their default effect; the budget starts.
Unhook ==
    /\ At("unhook", "stopHTTP")
    /\ notify' = FALSE
    /\ budget' = "running"
    /\ UNCHANGED <<cfg, initVars, exit, srvVars, signals, quit, gwVars, useVars, redis>>

\* Shutdown closes the listener at once (one still to be bound will not be) ...
StopHTTP ==
    /\ At("stopHTTP", IF cfg.http THEN "drain" ELSE "stopHealth")
    /\ http' = IF cfg.http THEN "closed" ELSE http
    /\ UNCHANGED <<cfg, initVars, exit, subscriber, health, late, sigVars, budget, gwVars, useVars, redis>>

\* Faulty: the server is closed, not shut down; or shut down without a deadline.
DrainNot ==
    /\ At("drain", "stopHealth")
    /\ UNCHANGED <<cfg, initVars, exit, srvVars, sigVars, budget, gwVars, useVars, redis>>
DrainForever ==
    /\ At("drain", "stopHealth") /\ conns = {}
    /\ UNCHANGED <<cfg, initVars, exit, srvVars, sigVars, budget, gwVars, useVars, redis>>

\* ... and waits for the open requests, until the budget is spent.
Drain ==
    /\ At("drain", "stopHealth")
    /\ conns = {} \/ budget = "spent"
    /\ UNCHANGED <<cfg, initVars, exit, srvVars, sigVars, budget, gwVars, useVars, redis>>

StopHealth ==
    /\ At("stopHealth", "deregister")
    /\ health' = IF cfg.health THEN "closed" ELSE health
    /\ UNCHANGED <<cfg, initVars, exit, subscriber, http, late, sigVars, budget, gwVars, useVars, redis>>

\* Deregister gets the same context, so a spent budget fails it; a failed call
\* is only logged.  The registry is closed, then Redis, then the log is synced.
Deregister ==
    /\ At("deregister", "closeRedis")
    /\ IF instances
       THEN \/ budget = "running" /\ registered' = FALSE /\ UNCHANGED gatewayFault
            \/ budget = "running" /\ gatewayFault' = TRUE /\ UNCHANGED registered
            \/ budget = "spent" /\ UNCHANGED <<registered, gatewayFault>>
       ELSE UNCHANGED <<registered, gatewayFault>>
    /\ UNCHANGED <<cfg, initVars, exit, srvVars, sigVars, budget, instances, useVars, redis>>

CloseRedis ==
    /\ At("closeRedis", "return")
    /\ redis' = "closed"
    /\ UNCHANGED <<cfg, initVars, exit, srvVars, sigVars, budget, gwVars, useVars>>

Return == pc = "return" /\ Dies("ok")

-----------------------------------------------------------------------------
(* Everybody else.                                                         *)

\* The goroutine of StartHTTP: ListenAndServe binds, or it fails, then or later.
HTTPServes ==
    /\ exit = "none" /\ http = "binding" /\ http' = "listening"
    /\ UNCHANGED <<cfg, pc, initVars, exit, subscriber, health, late, sigVars, budget, gwVars, useVars, redis>>

HTTPFails ==
    /\ exit = "none" /\ http \in {"binding", "listening"} /\ http' = "failed"
    /\ late' = (pc # "look")
    /\ UNCHANGED <<cfg, pc, initVars, exit, subscriber, health, sigVars, budget, gwVars, useVars, redis>>

\* A request comes in and starts a task; the task ends; the request ends, with
\* its task or without it (a resumable task outlives its client).
RequestComes(c) ==
    /\ exit = "none" /\ http = "listening" /\ c \notin conns \cup tasks
    /\ conns' = conns \cup {c} /\ tasks' = tasks \cup {c}
    /\ UNCHANGED <<cfg, pc, initVars, exit, srvVars, sigVars, budget, gwVars, redis>>

TaskEnds(c) ==
    /\ exit = "none" /\ c \in tasks /\ tasks' = tasks \ {c}
    /\ UNCHANGED <<cfg, pc, initVars, exit, srvVars, sigVars, budget, gwVars, conns, redis>>

RequestEnds(c) ==
    /\ exit = "none" /\ c \in conns /\ conns' = conns \ {c}
    /\ UNCHANGED <<cfg, pc, initVars, exit, srvVars, sigVars, budget, gwVars, tasks, redis>>

BudgetEnds ==
    /\ exit = "none" /\ budget = "running" /\ budget' = "spent"
    /\ UNCHANGED <<cfg, pc, initVars, exit, srvVars, sigVars, gwVars, useVars, redis>>

\* With Notify in force a signal is put in the channel, which holds one;
\* before Notify and after Stop it kills the process.
Signal ==
    /\ exit = "none" /\ signals < MaxSignals /\ signals' = signals + 1
    /\ IF notify THEN quit' = 1 /\ UNCHANGED exit
                 ELSE exit' = "killed" /\ UNCHANGED quit
    /\ UNCHANGED <<cfg, pc, initVars, srvVars, notify, budget, gwVars, useVars, redis>>

Serve == StartCancelSubscriber \/ StartHTTP \/ Look \/ StartHealth
Shutdown ==
    Notify \/ Interrupted \/ Unhook \/ StopHTTP \/ Drain \/ StopHealth
    \/ Deregister \/ CloseRedis \/ Return

Next ==
    \/ Initialize \/ Serve \/ RegisterGateway \/ Shutdown
    \/ HTTPServes \/ HTTPFails \/ BudgetEnds \/ Signal
    \/ \E c \in Clients : RequestComes(c) \/ TaskEnds(c) \/ RequestEnds(c)

(***************************************************************************)
(* The main goroutine runs and the budget elapses.  RegisterGateway is not *)
(* fair: it gets a context without deadline, so an unreachable gateway may *)
(* hold it for ever.  Clients and tasks owe nothing.                       *)
(***************************************************************************)
Spec ==
    /\ Init /\ [][Next]_vars
    /\ WF_vars(Initialize \/ Serve) /\ WF_vars(Shutdown) /\ WF_vars(BudgetEnds)

-----------------------------------------------------------------------------
\* Types.
LifecycleTypeOK ==
    /\ globals \subseteq Globals /\ early \subseteq Globals
    /\ exit \in {"none", "ok", "error", "panic", "killed"}
    /\ http \in {"off", "binding", "listening", "failed", "closed"}
    /\ health \in {"off", "listening", "closed"}
    /\ budget \in {"unset", "running", "spent"}
    /\ redis \in {"off", "open", "closed"}
    /\ signals \in 0..MaxSignals /\ quit \in 0..1
    /\ {subscriber, late, notify, registered, instances, gatewayFault} \subseteq BOOLEAN
    /\ conns \subseteq Clients /\ tasks \subseteq Clients

\* The server answers only in a process that is complete and hears cancel
\* broadcasts: a task started here can be cancelled through another instance.
\* Complete means that every provider found what it read through a package
\* variable, although Wire knows nothing of these dependencies.
ServesWhenReady ==
    http = "listening" =>
        /\ Globals \ (IF cfg.gateway THEN {} ELSE {"registry"}) \subseteq globals
        /\ early = {}
        /\ subscriber /\ redis = "open"

\* The gateway routes only to an instance whose server serves, is still being
\* bound, failed behind Start's back, or is being stopped; and to one that has
\* exited in order only if a call to the gateway failed or open requests used up
\* the budget before its turn came.
RoutedToServer ==
    registered =>
        /\ exit = "none" =>
              \/ http \in {"binding", "listening"}
              \/ http = "failed" /\ late
              \/ budget # "unset"
        /\ exit = "ok" => gatewayFault \/ budget = "spent"

\* Redis is closed under an open request only if the budget was spent on waiting
\* for it.
RedisOutlivesRequests ==
    redis = "closed" /\ conns # {} => budget = "spent"

\* A signal ends the process, whatever clients, tasks and gateway do.
SignalEnds == (signals > 0) ~> (exit # "none")
=============================================================================
