--------------------------- MODULE Observability ---------------------------
(***************************************************************************)
(* What the operators of the platform look at: the request counters and    *)
(* the gauge of HttpPipeline, and the two dependency gauges, which four    *)
(* writers set: GET /health, the Redis client's events, the Prisma         *)
(* client's events, and the start of the process.                          *)
(*                                                                         *)
(* GET /health runs SELECT 1 and PING at the same time and sets both       *)
(* gauges when both have settled; PING sets the Redis gauge by itself too. *)
(* The Redis client reconnects at most three times; after that it has      *)
(* ended and stays so until the process is replaced.                       *)
(***************************************************************************)
EXTENDS HttpPipeline

CONSTANTS MaxOutages,   \* outages of PostgreSQL or Redis
          MaxMishaps    \* pings that time out although Redis is up, and
                        \* failed queries although PostgreSQL is up

ASSUME ObservabilityAssumption ==
    /\ MaxOutages \in Nat
    /\ MaxMishaps \in Nat

VARIABLES check,      \* check[r]: the two results of the health check that r runs
          databaseUp, \* PostgreSQL answers
          redisUp,    \* Redis answers
          client,     \* the Redis client: its state and retryAttempts
          databaseGauge, redisGauge,   \* food_delivery_{database,redis}_connection_status
          refreshed,  \* history: the last writer of the gauges was a health check
                      \* that began after everything that happened since
          outages, mishaps

gaugeVars == <<databaseGauge, redisGauge, refreshed>>
dependencyVars == <<databaseUp, redisUp, client, outages, mishaps>>
vars == <<pipelineVars, check, gaugeVars, dependencyVars>>

-----------------------------------------------------------------------------
\* retryStrategy gives up when the attempt is greater than this.
MaxAttempts == 3

Results == {"pending", "ok", "error"}

\* fresh is history: nothing happened to a dependency since the check began.
CheckRecords == [postgres : Results, redis : Results, fresh : BOOLEAN]

NoCheck == [postgres |-> "pending", redis |-> "pending", fresh |-> FALSE]

Clients == [state : {"ready", "reconnecting", "ended"}, attempt : 0 .. MaxAttempts + 1]

Ready == [state |-> "ready", attempt |-> 0]

ObservabilityTypeOK ==
    /\ PipelineTypeOK
    /\ check \in [Requests -> CheckRecords]
    /\ databaseUp \in BOOLEAN
    /\ redisUp \in BOOLEAN
    /\ client \in Clients
    /\ databaseGauge \in BOOLEAN
    /\ redisGauge \in BOOLEAN
    /\ refreshed \in BOOLEAN
    /\ outages \in 0 .. MaxOutages
    /\ mishaps \in 0 .. MaxMishaps

\* The API has started: Prisma connected, and so did the Redis client.
Init ==
    /\ PipelineInit
    /\ check = [r \in Requests |-> NoCheck]
    /\ databaseUp = TRUE
    /\ redisUp = TRUE
    /\ client = Ready
    /\ databaseGauge = TRUE
    /\ redisGauge = TRUE
    /\ refreshed = FALSE
    /\ outages = 0
    /\ mishaps = 0

\* What a health check asks of the dependencies.
RedisAnswers == client.state = "ready"

\* A dependency changed: no check in flight is fresh, and no gauge is.
Outdate == [r \in Requests |-> [check[r] EXCEPT !.fresh = FALSE]]

IsHealthCall(r) == request[r].endpoint = "health.check"

IsHealth(r) == IsHealthCall(r) /\ request[r].stage = "inside"

\* The endpoints whose handlers move an order: transitionOrder adds the jobs of
\* the notification, and three of the services add one of their own after it.
QueueEndpoints ==
    {"orders.create", "orders.cancel", "payments.retry", "riders.assign"}
    \cup OrderAnswers \cup (DeliveryMoves \ {"riders.accept"})

\* The handler may be at the add of a job that nothing answers.
AwaitsRedis(r) ==
    /\ request[r].endpoint \in QueueEndpoints
    /\ request[r].stage = "inside"
    /\ ~redisUp

-----------------------------------------------------------------------------
\* A request arrives.
Receive(r) ==
    /\ ArriveUnreadable(r) \/ \E c \in Calls : Arrive(r, c)
    /\ UNCHANGED <<check, gaugeVars, dependencyVars>>

\* The guards refuse it.
RefuseRequest(r) ==
    /\ Refuse(r)
    /\ UNCHANGED <<check, gaugeVars, dependencyVars>>

\* The guards let it through; HealthService.check starts both commands.
EnterRequest(r) ==
    /\ Enter(r)
    /\ check' = [check EXCEPT ![r].fresh = IsHealthCall(r)]
    /\ UNCHANGED <<gaugeVars, dependencyVars>>

\* A handler other than the health check returns or throws.
FinishHandler(r) ==
    /\ ~IsHealth(r)
    /\ Complete(r) \/ \E exception \in Exceptions : Throw(r, exception)
    /\ UNCHANGED <<check, gaugeVars, dependencyVars>>

\* SELECT 1 settles.  When it fails, the Prisma client logs 'error' as well.
SettleQuery(r) ==
    /\ IsHealth(r)
    /\ check[r].postgres = "pending"
    /\ check' = [check EXCEPT ![r].postgres = IF databaseUp THEN "ok" ELSE "error"]
    /\ databaseGauge' = (databaseUp /\ databaseGauge)
    /\ UNCHANGED <<redisGauge, refreshed, pipelineVars, dependencyVars>>

\* RedisService.ping resolves, or rejects because the client is not connected;
\* either way it sets the gauge.
SettlePing(r) ==
    /\ IsHealth(r)
    /\ check[r].redis = "pending"
    /\ check' = [check EXCEPT ![r].redis = IF RedisAnswers THEN "ok" ELSE "error"]
    /\ redisGauge' = RedisAnswers
    /\ UNCHANGED <<databaseGauge, refreshed, pipelineVars, dependencyVars>>

\* The ping times out although the client is connected.
TimeOutPing(r) ==
    /\ IsHealth(r)
    /\ check[r].redis = "pending"
    /\ RedisAnswers
    /\ mishaps < MaxMishaps
    /\ mishaps' = mishaps + 1
    /\ check' = [check EXCEPT ![r] = [@ EXCEPT !.redis = "error", !.fresh = FALSE]]
    /\ redisGauge' = FALSE
    /\ refreshed' = FALSE
    /\ UNCHANGED <<databaseGauge, pipelineVars, databaseUp, redisUp, client, outages>>

\* Mutant: the check reports the database and leaves its gauge to the events.
FinishCheckOneGauge(r) ==
    LET c == check[r] IN
    /\ IsHealth(r)
    /\ c.postgres # "pending"
    /\ c.redis # "pending"
    /\ redisGauge' = (c.redis = "ok")
    /\ refreshed' = c.fresh
    /\ check' = [check EXCEPT ![r] = NoCheck]
    /\ Complete(r)
    /\ UNCHANGED <<databaseGauge, dependencyVars>>

\* Promise.allSettled settles: both gauges, and the answer, ok or degraded.
FinishCheck(r) ==
    LET c == check[r] IN
    /\ IsHealth(r)
    /\ c.postgres # "pending"
    /\ c.redis # "pending"
    /\ databaseGauge' = (c.postgres = "ok")
    /\ redisGauge' = (c.redis = "ok")
    /\ refreshed' = c.fresh
    /\ check' = [check EXCEPT ![r] = NoCheck]
    /\ Complete(r)
    /\ UNCHANGED dependencyVars

\* The request is answered.
AnswerRequest(r) ==
    /\ Answer(r)
    /\ UNCHANGED <<check, gaugeVars, dependencyVars>>

-----------------------------------------------------------------------------
\* PostgreSQL goes down; onPoolError tells if the pool holds an idle connection.
DatabaseFails ==
    /\ databaseUp
    /\ outages < MaxOutages
    /\ databaseUp' = FALSE
    /\ outages' = outages + 1
    /\ databaseGauge' \in {FALSE, databaseGauge}
    /\ refreshed' = FALSE
    /\ check' = Outdate
    /\ UNCHANGED <<redisGauge, redisUp, client, mishaps, pipelineVars>>

\* PostgreSQL is back: nothing tells the gauge.
DatabaseRecovers ==
    /\ ~databaseUp
    /\ databaseUp' = TRUE
    /\ refreshed' = FALSE
    /\ check' = Outdate
    /\ UNCHANGED <<databaseGauge, redisGauge, redisUp, client, outages, mishaps, pipelineVars>>

\* A query of some handler or worker fails, for a constraint, say: the Prisma
\* client logs 'error' and the gauge says the database is gone.
QueryFails ==
    /\ databaseUp
    /\ mishaps < MaxMishaps
    /\ mishaps' = mishaps + 1
    /\ databaseGauge' = FALSE
    /\ refreshed' = FALSE
    /\ UNCHANGED <<redisGauge, check, databaseUp, redisUp, client, outages, pipelineVars>>

\* Mutant: retryStrategy returns a delay for ever.
AfterCloseForever(attempt) == [state |-> "reconnecting", attempt |-> 1]

\* The client's connection closed for the attempt-th time in a row.
AfterClose(attempt) ==
    [state |-> IF attempt > MaxAttempts THEN "ended" ELSE "reconnecting",
     attempt |-> attempt]

\* Redis goes down under a connected client: 'close', and perhaps 'error'.
RedisFails ==
    /\ redisUp
    /\ client.state = "ready"
    /\ outages < MaxOutages
    /\ redisUp' = FALSE
    /\ outages' = outages + 1
    /\ client' = AfterClose(1)
    /\ redisGauge' \in {FALSE, redisGauge}
    /\ refreshed' = FALSE
    /\ check' = Outdate
    /\ UNCHANGED <<databaseGauge, databaseUp, mishaps, pipelineVars>>

\* Redis is back, which the client learns when it reconnects, if it still does.
RedisRecovers ==
    /\ ~redisUp
    /\ redisUp' = TRUE
    /\ UNCHANGED <<databaseUp, client, outages, mishaps, gaugeVars, check, pipelineVars>>

\* The client tries again: 'ready', or 'error' and 'close' (and then 'end').
Reconnect ==
    /\ client.state = "reconnecting"
    /\ client' = IF redisUp THEN Ready ELSE AfterClose(client.attempt + 1)
    /\ redisGauge' = redisUp
    /\ refreshed' = FALSE
    /\ check' = Outdate
    /\ UNCHANGED <<databaseGauge, databaseUp, redisUp, outages, mishaps, pipelineVars>>

\* The process is replaced and starts, which it can while PostgreSQL is up
\* (onModuleInit); a new Redis client connects, or starts trying.
Restart ==
    /\ databaseUp
    /\ RestartPipeline
    /\ databaseGauge' = TRUE
    /\ redisGauge' = redisUp
    /\ client' = IF redisUp THEN Ready ELSE AfterClose(1)
    /\ refreshed' = FALSE
    /\ check' = [r \in Requests |-> NoCheck]
    /\ UNCHANGED <<databaseUp, redisUp, outages, mishaps>>

-----------------------------------------------------------------------------
\* A step of the pipeline for request r.
RequestStep(r) ==
    \/ RefuseRequest(r)
    \/ EnterRequest(r)
    \/ FinishHandler(r)
    \/ SettleQuery(r)
    \/ SettlePing(r)
    \/ FinishCheck(r)
    \/ AnswerRequest(r)

\* What happens to the dependencies and the process.
Environment ==
    \/ DatabaseFails
    \/ DatabaseRecovers
    \/ QueryFails
    \/ RedisFails
    \/ RedisRecovers
    \/ Restart

Next ==
    \/ \E r \in Requests : Receive(r) \/ RequestStep(r) \/ TimeOutPing(r)
    \/ Reconnect
    \/ Environment

(***************************************************************************)
(* Queries settle (a connection that is lost fails them), the commands of  *)
(* the cache and of PING have a timeout, and ioredis fires its reconnect   *)
(* timer.  The connections of the queues have no timeout and no limit of   *)
(* attempts: a job is added once Redis is up, so a handler that adds one   *)
(* need not return before.  Nobody is obliged to send a request, or to     *)
(* repair anything.                                                        *)
(***************************************************************************)
Fairness ==
    /\ WF_vars(Reconnect)
    /\ \A r \in Requests : WF_vars(RequestStep(r) /\ ~AwaitsRedis(r))

Spec == Init /\ [][Next]_vars /\ Fairness

-----------------------------------------------------------------------------
(***************************************************************************)
(* A request that reaches the interceptors is counted exactly once, with   *)
(* the status that the caller is sent, on every path: the handler          *)
(* returned, validation refused, an HttpException, any other error.  The   *)
(* interceptor and the filter work the status out separately.              *)
(***************************************************************************)
CountedAsAnswered ==
    \A r \in Requests :
        request[r].stage = "answered" /\ request[r].entered =>
            counted[r] = <<request[r].status>>

(***************************************************************************)
(* metrics.service.ts: "Total number of HTTP requests received by the      *)
(* API."  Every request that is answered is counted, as what it was        *)
(* answered - refused, unrouted and unreadable ones too.                   *)
(***************************************************************************)
EveryRequestIsCounted ==
    \A r \in Requests :
        request[r].stage = "answered" => counted[r] = <<request[r].status>>

(***************************************************************************)
(* food_delivery_http_active_requests is the number of requests between    *)
(* the interceptor and the end of their handler, route by route: whatever  *)
(* throws and whenever the process is replaced, it comes back to zero.     *)
(***************************************************************************)
ActiveCountsInside ==
    \A e \in Routes :
        active[e] = Cardinality({r \in Inside : request[r].endpoint = e})

(***************************************************************************)
(* README.md: "call /health to refresh dependency gauges".  Once a check   *)
(* that began after the last thing that happened to a dependency is done,  *)
(* and no older check has finished after it, both gauges tell the truth -  *)
(* also when the events of the clients had left them wrong.                *)
(***************************************************************************)
RefreshedGauges ==
    refreshed => databaseGauge = databaseUp /\ redisGauge = RedisAnswers

(***************************************************************************)
(* A request that has arrived is answered, unless its process dies, or its *)
(* handler adds a job while Redis is down: that is the one thing that may  *)
(* keep a request, and it does not once Redis is back.                     *)
(***************************************************************************)
RequestsEnd ==
    \A r \in Requests :
        r \in InFlight ~> request[r].stage \in {"answered", "lost"} \/ AwaitsRedis(r)

\* The Redis client does not reconnect for ever: it is connected again, or it
\* has ended (and the cache is off until the process is replaced).
RedisClientSettles == client.state = "reconnecting" ~> client.state \in {"ready", "ended"}
=============================================================================
