------------------------- MODULE AppLifecycleProofs -------------------------
(***************************************************************************)
(* What holds of a process whatever its configuration, its clients and the *)
(* signals it gets.                                                        *)
(*                                                                         *)
(* What the process has at a moment depends on how far the main goroutine  *)
(* is: Initialized says it of the globals, Serving of the listeners, Known *)
(* of the gateway's routes, Stopping of the budget and the open requests.  *)
(* Together with the types they are inductive, and imply the invariants.   *)
(***************************************************************************)
EXTENDS AppLifecycle, TLAPS

Stages == {"config", "log", "metrics", "trace", "logger", "db", "migrate",
           "redis", "cache", "gateway", "subscribe"}
Starting == {"startHTTP", "look", "startHealth", "register", "notify", "wait", "unhook"}
Ending == {"stopHTTP", "drain", "stopHealth", "deregister", "closeRedis", "return"}

\* What each provider leaves behind.
Initialized ==
    /\ pc \in Stages \cup Starting \cup Ending
    /\ early = {}
    /\ pc # "config" => "config" \in globals
    /\ pc \notin {"config", "log"} => "logProvider" \in globals
    /\ pc \notin {"config", "log", "metrics"} => "meter" \in globals
    /\ pc \notin {"config", "log", "metrics", "trace"} => "tracer" \in globals
    /\ pc \notin {"config", "log", "metrics", "trace", "logger"} => "logger" \in globals
    /\ pc \notin {"config", "log", "metrics", "trace", "logger", "db"} => "db" \in globals
    /\ pc \notin Stages \ {"cache", "gateway", "subscribe"} =>
         /\ {"redisMain", "redisCache"} \subseteq globals
         /\ redis = IF pc = "return" THEN "closed" ELSE "open"
    /\ pc \notin Stages \ {"gateway", "subscribe"} => "cache" \in globals
    /\ pc \notin Stages \ {"subscribe"} /\ cfg.gateway => "registry" \in globals
    /\ pc \in Stages \ {"cache", "gateway", "subscribe"} => redis = "off"

\* The HTTP server exists once it was started, and listens only until stopped.
Serving ==
    /\ pc \in Stages \cup {"startHTTP"} \/ ~cfg.http => http = "off"
    /\ pc \notin Stages \cup {"startHTTP"} /\ cfg.http => http # "off"
    /\ pc \notin Stages => subscriber = TRUE
    /\ http = "failed" => late \/ pc = "look"
    /\ http \in {"binding", "listening"} => pc \notin Ending \ {"stopHTTP"}
    /\ http = "closed" => pc \in Ending \ {"stopHTTP"}

\* Where the gateway may know of the instance.
Known ==
    registered =>
        /\ cfg.http /\ pc \notin Stages \cup {"startHTTP", "look", "startHealth", "register"}
        /\ instances \/ gatewayFault
        /\ pc \in {"closeRedis", "return"} => gatewayFault \/ budget = "spent"

Stopping ==
    /\ pc \in Ending => budget # "unset"
    /\ http = "off" => conns = {}
    /\ pc \in Ending \ {"stopHTTP", "drain"} => conns = {} \/ budget = "spent"
    /\ exit = "ok" => pc = "return"

IInv == LifecycleTypeOK /\ Initialized /\ Serving /\ Known /\ Stopping

-----------------------------------------------------------------------------
\* Wire's order, one provider at a time.
LEMMA Order ==
    /\ Following("config") = "log"         /\ Following("log") = "metrics"
    /\ Following("metrics") = "trace"      /\ Following("trace") = "logger"
    /\ Following("logger") = "db"          /\ Following("db") = "migrate"
    /\ Following("migrate") = "redis"      /\ Following("redis") = "cache"
    /\ Following("cache") = "gateway"      /\ Following("gateway") = "subscribe"
  <1>1. /\ Len(WireOrder) = 11 
        /\ WireOrder[1] = "config" /\ WireOrder[2] = "log" /\ WireOrder[3] = "metrics"
        /\ WireOrder[4] = "trace" /\ WireOrder[5] = "logger" /\ WireOrder[6] = "db"
        /\ WireOrder[7] = "migrate" /\ WireOrder[8] = "redis" /\ WireOrder[9] = "cache"
        /\ WireOrder[10] = "gateway" /\ WireOrder[11] = "subscribe"
    BY DEF WireOrder
  <1>2. ASSUME NEW i \in 1..10
        PROVE  Following(WireOrder[i]) = WireOrder[1 + i]
    <2>1. \A j \in 1..10 : WireOrder[j] = WireOrder[i] => j = i
      BY <1>1
    <2>2. (CHOOSE j \in 1..10 : WireOrder[j] = WireOrder[i]) = i
      BY <2>1
    <2> QED
      BY <1>1, <2>2 DEF Following
  <1> QED
    BY <1>1, <1>2

LEMMA InitIInv == Init => IInv
  <1> SUFFICES ASSUME Init PROVE IInv
    OBVIOUS
  <1>1. LifecycleTypeOK
    <2>1. {subscriber, late, notify, registered, instances, gatewayFault} \subseteq BOOLEAN
      BY Zenon DEF Init
    <2> QED
      BY LifecycleAssumption, <2>1 DEF Init, LifecycleTypeOK
  <1>2. Initialized
    BY DEF Init, Initialized, Stages
  <1>3. Serving /\ Known /\ Stopping
    BY DEF Init, Serving, Known, Stopping, Stages, Ending
  <1> QED
    BY <1>1, <1>2, <1>3 DEF IInv

\* The process ends: nothing else changes.
LEMMA DiesKeeps ==
    ASSUME IInv, NEW how \in {"error", "panic", "killed", "ok"}, Dies(how), how = "ok" => pc = "return"
    PROVE  IInv'
  <1> USE DEF Dies, initVars, srvVars, sigVars, gwVars, useVars
  <1>1. LifecycleTypeOK'
    BY DEF IInv, LifecycleTypeOK
  <1>2. Initialized' /\ Serving' /\ Known'
    BY DEF IInv, Initialized, Serving, Known
  <1>3. Stopping'
    BY DEF IInv, Stopping
  <1> QED
    BY <1>1, <1>2, <1>3 DEF IInv

\* A step of the initialisation.
LEMMA InitializeKeeps ==
    ASSUME IInv, Initialize
    PROVE  IInv'
  <1> USE DEF initVars, srvVars, sigVars, gwVars, useVars
  <1>1. ASSUME NEW here \in Stages \ {"subscribe"}, NEW reads, NEW sets \in SUBSET Globals,
               Provided(here, reads, sets),
               reads \subseteq globals,
               IF here = "redis" THEN redis' = "open" ELSE UNCHANGED redis,
               sets = CASE here = "config" -> {"config"}
                        [] here = "log" -> {"logProvider"}
                        [] here = "metrics" -> {"meter"}
                        [] here = "trace" -> {"tracer"}
                        [] here = "logger" -> {"logger"}
                        [] here = "db" -> {"db"}
                        [] here = "migrate" -> {}
                        [] here = "redis" -> {"redisMain", "redisCache"}
                        [] here = "cache" -> {"cache"}
                        [] here = "gateway" -> IF cfg.gateway THEN {"registry"} ELSE {}
        PROVE  IInv'
    <2>1. LifecycleTypeOK'
      BY <1>1 DEF Provided, IInv, LifecycleTypeOK, Initialized
    <2>2. pc' \in Stages \ {"config"}
      BY <1>1, Order DEF Provided, Stages
    <2>3. Initialized'
      BY <1>1, Order DEF Provided, IInv, Initialized, Stages, Starting, Ending
    <2>4. Serving' /\ Known' /\ Stopping'
      BY <1>1, <2>2 DEF Provided, IInv, Serving, Known, Stopping, Stages, Ending
    <2> QED
      BY <2>1, <2>3, <2>4 DEF IInv
  <1> USE <1>1, DiesKeeps DEF Stages, Globals
  <1>2. CASE LoadConfig
    BY <1>2 DEF LoadConfig
  <1>3. CASE InitLog
    <2>1. pc = "log" => ResourceReads \subseteq globals
      BY DEF ResourceReads, IInv, Initialized
    <2>2. CASE Provided("log", ResourceReads, {"logProvider"}) /\ UNCHANGED redis
      <3>1. pc = "log"
        BY <2>2 DEF Provided
      <3> QED
        BY <2>1, <2>2, <3>1
    <2> QED
      BY <1>3, <2>2 DEF InitLog
  <1>4. CASE InitMetrics
    <2>1. pc = "metrics" => ResourceReads \subseteq globals
      BY DEF ResourceReads, IInv, Initialized
    <2>2. CASE Provided("metrics", ResourceReads, {"meter"}) /\ UNCHANGED redis
      <3>1. pc = "metrics"
        BY <2>2 DEF Provided
      <3> QED
        BY <2>1, <2>2, <3>1
    <2> QED
      BY <1>4, <2>2 DEF InitMetrics
  <1>5. CASE InitTrace
    <2>1. pc = "trace" => ResourceReads \subseteq globals
      BY DEF ResourceReads, IInv, Initialized
    <2>2. CASE Provided("trace", ResourceReads, {"tracer"}) /\ UNCHANGED redis
      <3>1. pc = "trace"
        BY <2>2 DEF Provided
      <3> QED
        BY <2>1, <2>2, <3>1
    <2> QED
      BY <1>5, <2>2 DEF InitTrace
  <1>6. CASE InitLogger
    BY <1>6 DEF InitLogger
  <1>7. CASE InitMainDB
    BY <1>7 DEF InitMainDB
  <1>8. CASE Migrate
    <2>1. pc = "migrate" => (IF cfg.migration THEN {"logger"} ELSE {}) \subseteq globals
      BY DEF IInv, Initialized
    <2>2. CASE Provided("migrate", IF cfg.migration THEN {"logger"} ELSE {}, {}) /\ UNCHANGED redis
      <3>1. pc = "migrate"
        BY <2>2 DEF Provided
      <3> QED
        BY <2>1, <2>2, <3>1
    <2> QED
      BY <1>8, <2>2 DEF Migrate
  <1>9. CASE InitRedis
    BY <1>9 DEF InitRedis
  <1>10. CASE NewCache
    <2>1. pc = "cache" => (IF cfg.driver = "redis" THEN {"redisCache"} ELSE {}) \subseteq globals
      BY DEF IInv, Initialized
    <2>2. CASE Provided("cache", IF cfg.driver = "redis" THEN {"redisCache"} ELSE {}, {"cache"}) /\ UNCHANGED redis
      <3>1. pc = "cache"
        BY <2>2 DEF Provided
      <3> QED
        BY <2>1, <2>2, <3>1
    <2> QED
      BY <1>10, <2>2 DEF NewCache
  <1>11. CASE ProvideGatewayRegistry
    BY <1>11 DEF ProvideGatewayRegistry
  <1> QED
    BY <1>2, <1>3, <1>4, <1>5, <1>6, <1>7, <1>8, <1>9, <1>10, <1>11 DEF Initialize

-----------------------------------------------------------------------------
(* The main goroutine from there on.                                       *)

LEMMA ServeKeeps ==
    ASSUME IInv, Serve
    PROVE  IInv'
  <1> USE DEF initVars, srvVars, sigVars, gwVars, useVars, At, Stages, Starting, Ending
  <1>1. CASE StartCancelSubscriber
    <2>1. LifecycleTypeOK'
      BY <1>1 DEF StartCancelSubscriber, IInv, LifecycleTypeOK
    <2>2. Initialized'
      BY <1>1 DEF StartCancelSubscriber, IInv, Initialized
    <2>3. Serving' /\ Known' /\ Stopping'
      BY <1>1 DEF StartCancelSubscriber, IInv, Serving, Known, Stopping
    <2> QED
      BY <2>1, <2>2, <2>3 DEF IInv
  <1>2. CASE StartHTTP
    <2>1. early' = {}
      BY <1>2 DEF StartHTTP, IInv, Initialized
    <2>2. LifecycleTypeOK'
      BY <1>2, <2>1 DEF StartHTTP, IInv, LifecycleTypeOK
    <2>3. Initialized'
      BY <1>2, <2>1 DEF StartHTTP, IInv, Initialized
    <2>4. Serving' /\ Known' /\ Stopping'
      BY <1>2 DEF StartHTTP, IInv, Serving, Known, Stopping
    <2> QED
      BY <2>2, <2>3, <2>4 DEF IInv
  <1>3. CASE Look
    <2>1. CASE http = "failed"
      BY <1>3, <2>1, DiesKeeps DEF Look
    <2>2. CASE http # "failed"
      <3>1. LifecycleTypeOK'
        BY <1>3, <2>2 DEF Look, IInv, LifecycleTypeOK
      <3>2. Initialized'
        BY <1>3, <2>2 DEF Look, IInv, Initialized
      <3>3. Serving' /\ Known' /\ Stopping'
        BY <1>3, <2>2 DEF Look, IInv, Serving, Known, Stopping
      <3> QED
        BY <3>1, <3>2, <3>3 DEF IInv
    <2> QED
      BY <2>1, <2>2
  <1>4. CASE StartHealth
    <2>1. CASE At("startHealth", "register")
      <3>1. LifecycleTypeOK'
        BY <1>4, <2>1 DEF StartHealth, Dies, IInv, LifecycleTypeOK
      <3>2. Initialized'
        BY <1>4, <2>1 DEF StartHealth, Dies, IInv, Initialized
      <3>3. Serving' /\ Known' /\ Stopping'
        BY <1>4, <2>1 DEF StartHealth, Dies, IInv, Serving, Known, Stopping
      <3> QED
        BY <3>1, <3>2, <3>3 DEF IInv
    <2> QED
      BY <1>4, <2>1, DiesKeeps DEF StartHealth
  <1> QED
    BY <1>1, <1>2, <1>3, <1>4 DEF Serve

LEMMA RegisterGatewayKeeps ==
    ASSUME IInv, RegisterGateway
    PROVE  IInv'
  <1> USE DEF initVars, srvVars, sigVars, gwVars, useVars, At, Stages, Starting, Ending
  <1>1. LifecycleTypeOK'
    BY DEF RegisterGateway, IInv, LifecycleTypeOK
  <1>2. Initialized'
    BY DEF RegisterGateway, IInv, Initialized
  <1>3. Serving' /\ Known' /\ Stopping'
    BY DEF RegisterGateway, IInv, LifecycleTypeOK, Serving, Known, Stopping
  <1> QED
    BY <1>1, <1>2, <1>3 DEF IInv

LEMMA ShutdownKeeps ==
    ASSUME IInv, Shutdown
    PROVE  IInv'
  <1> USE DEF initVars, srvVars, sigVars, gwVars, useVars, At, Stages, Starting, Ending
  <1>1. CASE Notify
    <2>1. LifecycleTypeOK'
      BY <1>1 DEF Notify, IInv, LifecycleTypeOK
    <2>2. Initialized'
      BY <1>1 DEF Notify, IInv, Initialized
    <2>3. Serving' /\ Known' /\ Stopping'
      BY <1>1 DEF Notify, IInv, LifecycleTypeOK, Serving, Known, Stopping
    <2> QED
      BY <2>1, <2>2, <2>3 DEF IInv
  <1>2. CASE Interrupted
    <2>1. LifecycleTypeOK'
      BY <1>2 DEF Interrupted, IInv, LifecycleTypeOK
    <2>2. Initialized'
      BY <1>2 DEF Interrupted, IInv, Initialized
    <2>3. Serving' /\ Known' /\ Stopping'
      BY <1>2 DEF Interrupted, IInv, LifecycleTypeOK, Serving, Known, Stopping
    <2> QED
      BY <2>1, <2>2, <2>3 DEF IInv
  <1>3. CASE Unhook
    <2>1. LifecycleTypeOK'
      BY <1>3 DEF Unhook, IInv, LifecycleTypeOK
    <2>2. Initialized'
      BY <1>3 DEF Unhook, IInv, Initialized
    <2>3. Serving' /\ Known' /\ Stopping'
      BY <1>3 DEF Unhook, IInv, LifecycleTypeOK, Serving, Known, Stopping
    <2> QED
      BY <2>1, <2>2, <2>3 DEF IInv
  <1>4. CASE StopHTTP
    <2>1. LifecycleTypeOK'
      BY <1>4 DEF StopHTTP, IInv, LifecycleTypeOK
    <2>2. Initialized'
      BY <1>4 DEF StopHTTP, IInv, Initialized
    <2>3. Serving' /\ Known' /\ Stopping'
      BY <1>4 DEF StopHTTP, IInv, LifecycleTypeOK, Serving, Known, Stopping
    <2> QED
      BY <2>1, <2>2, <2>3 DEF IInv
  <1>5. CASE Drain
    <2>1. LifecycleTypeOK'
      BY <1>5 DEF Drain, IInv, LifecycleTypeOK
    <2>2. Initialized'
      BY <1>5 DEF Drain, IInv, Initialized
    <2>3. Serving' /\ Known' /\ Stopping'
      BY <1>5 DEF Drain, IInv, LifecycleTypeOK, Serving, Known, Stopping
    <2> QED
      BY <2>1, <2>2, <2>3 DEF IInv
  <1>6. CASE StopHealth
    <2>1. LifecycleTypeOK'
      BY <1>6 DEF StopHealth, IInv, LifecycleTypeOK
    <2>2. Initialized'
      BY <1>6 DEF StopHealth, IInv, Initialized
    <2>3. Serving' /\ Known' /\ Stopping'
      BY <1>6 DEF StopHealth, IInv, LifecycleTypeOK, Serving, Known, Stopping
    <2> QED
      BY <2>1, <2>2, <2>3 DEF IInv
  <1>7. CASE Deregister
    <2>1. LifecycleTypeOK'
      BY <1>7 DEF Deregister, IInv, LifecycleTypeOK
    <2>2. Initialized'
      BY <1>7 DEF Deregister, IInv, Initialized
    <2>3. Serving' /\ Known' /\ Stopping'
      BY <1>7 DEF Deregister, IInv, LifecycleTypeOK, Serving, Known, Stopping
    <2> QED
      BY <2>1, <2>2, <2>3 DEF IInv
  <1>8. CASE CloseRedis
    <2>1. LifecycleTypeOK'
      BY <1>8 DEF CloseRedis, IInv, LifecycleTypeOK
    <2>2. Initialized'
      BY <1>8 DEF CloseRedis, IInv, Initialized
    <2>3. Serving' /\ Known' /\ Stopping'
      BY <1>8 DEF CloseRedis, IInv, LifecycleTypeOK, Serving, Known, Stopping
    <2> QED
      BY <2>1, <2>2, <2>3 DEF IInv
  <1>9. CASE Return
    BY <1>9, DiesKeeps DEF Return
  <1> QED
    BY <1>1, <1>2, <1>3, <1>4, <1>5, <1>6, <1>7, <1>8, <1>9 DEF Shutdown

-----------------------------------------------------------------------------
(* The steps of the others leave pc alone.                                 *)

LEMMA OthersKeep ==
    ASSUME IInv,
           \/ HTTPServes \/ HTTPFails \/ BudgetEnds \/ Signal
           \/ \E c \in Clients : RequestComes(c) \/ TaskEnds(c) \/ RequestEnds(c)
    PROVE  IInv'
  <1> USE DEF initVars, srvVars, sigVars, gwVars, useVars, Stages, Starting, Ending
  <1>1. CASE HTTPServes
    <2>1. LifecycleTypeOK'
      BY <1>1, LifecycleAssumption DEF HTTPServes, IInv, LifecycleTypeOK
    <2>2. Initialized'
      BY <1>1 DEF HTTPServes, IInv, Initialized
    <2>3. Serving' /\ Known' /\ Stopping'
      BY <1>1 DEF HTTPServes, IInv, LifecycleTypeOK, Serving, Known, Stopping
    <2> QED
      BY <2>1, <2>2, <2>3 DEF IInv
  <1>2. CASE HTTPFails
    <2>1. LifecycleTypeOK'
      BY <1>2, LifecycleAssumption DEF HTTPFails, IInv, LifecycleTypeOK
    <2>2. Initialized'
      BY <1>2 DEF HTTPFails, IInv, Initialized
    <2>3. Serving' /\ Known' /\ Stopping'
      BY <1>2 DEF HTTPFails, IInv, LifecycleTypeOK, Serving, Known, Stopping
    <2> QED
      BY <2>1, <2>2, <2>3 DEF IInv
  <1>3. CASE BudgetEnds
    <2>1. LifecycleTypeOK'
      BY <1>3, LifecycleAssumption DEF BudgetEnds, IInv, LifecycleTypeOK
    <2>2. Initialized'
      BY <1>3 DEF BudgetEnds, IInv, Initialized
    <2>3. Serving' /\ Known' /\ Stopping'
      BY <1>3 DEF BudgetEnds, IInv, LifecycleTypeOK, Serving, Known, Stopping
    <2> QED
      BY <2>1, <2>2, <2>3 DEF IInv
  <1>4. CASE Signal
    <2>1. LifecycleTypeOK'
      BY <1>4, LifecycleAssumption DEF Signal, IInv, LifecycleTypeOK
    <2>2. Initialized'
      BY <1>4 DEF Signal, IInv, Initialized
    <2>3. Serving' /\ Known' /\ Stopping'
      BY <1>4 DEF Signal, IInv, LifecycleTypeOK, Serving, Known, Stopping
    <2> QED
      BY <2>1, <2>2, <2>3 DEF IInv
  <1>5. ASSUME NEW c \in Clients, RequestComes(c) \/ TaskEnds(c) \/ RequestEnds(c)
        PROVE  IInv'
    <2>1. LifecycleTypeOK'
      BY <1>5 DEF RequestComes, TaskEnds, RequestEnds, IInv, LifecycleTypeOK
    <2>2. Initialized'
      BY <1>5 DEF RequestComes, TaskEnds, RequestEnds, IInv, Initialized
    <2>3. Serving' /\ Known' /\ Stopping'
      BY <1>5 DEF RequestComes, TaskEnds, RequestEnds, IInv, Serving, Known, Stopping
    <2> QED
      BY <2>1, <2>2, <2>3 DEF IInv
  <1> QED
    BY <1>1, <1>2, <1>3, <1>4, <1>5

-----------------------------------------------------------------------------
LEMMA NextIInv == IInv /\ [Next]_vars => IInv'
  <1> SUFFICES ASSUME IInv, [Next]_vars PROVE IInv'
    OBVIOUS
  <1>1. CASE UNCHANGED vars
    <2> USE <1>1 DEF vars, initVars, srvVars, sigVars, gwVars, useVars
    <2>1. LifecycleTypeOK' /\ Initialized'
      BY DEF IInv, LifecycleTypeOK, Initialized
    <2>2. Serving' /\ Known' /\ Stopping'
      BY DEF IInv, Serving, Known, Stopping
    <2> QED
      BY <2>1, <2>2 DEF IInv
  <1> QED
    BY <1>1, InitializeKeeps, ServeKeeps, RegisterGatewayKeeps, ShutdownKeeps, OthersKeep DEF Next

LEMMA Inductive == Spec => []IInv
  BY InitIInv, NextIInv, PTL DEF Spec

\* Every variable keeps to its type.
THEOREM LifecycleTypeCorrect == Spec => []LifecycleTypeOK
  <1>1. IInv => LifecycleTypeOK
    BY DEF IInv
  <1> QED
    BY <1>1, Inductive, PTL

\* However start-up goes, requests are answered only by a process every provider
\* of which found what it read, and which hears cancel broadcasts.
THEOREM ServesOnlyWhenReady == Spec => []ServesWhenReady
  <1>1. IInv => ServesWhenReady
    BY DEF IInv, Initialized, Serving, ServesWhenReady, Stages, Starting, Ending, Globals
  <1> QED
    BY <1>1, Inductive, PTL

\* Whatever fails or arrives when, the gateway routes to an instance without a
\* server only for the reasons RoutedToServer gives.
THEOREM RoutesExplained == Spec => []RoutedToServer
  <1>1. IInv => RoutedToServer
    BY DEF IInv, LifecycleTypeOK, Serving, Known, Stopping, RoutedToServer, Stages, Starting, Ending
  <1> QED
    BY <1>1, Inductive, PTL

\* However many requests are open, Redis is closed under them only when the
\* budget was spent on waiting for them.
THEOREM RedisOutlives == Spec => []RedisOutlivesRequests
  <1>1. IInv => RedisOutlivesRequests
    BY DEF IInv, Initialized, Stopping, RedisOutlivesRequests, Stages, Ending
  <1> QED
    BY <1>1, Inductive, PTL
=============================================================================
