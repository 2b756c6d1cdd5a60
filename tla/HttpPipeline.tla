---------------------------- MODULE HttpPipeline ----------------------------
(***************************************************************************)
(* One HTTP request through the API (app.module.ts, main.ts), whatever the *)
(* handler does:                                                           *)
(*                                                                         *)
(*    the body parser cannot read it                  -> thrown            *)
(*    RequestContextMiddleware, HttpLoggingMiddleware -> routed            *)
(*    no route (404), or a guard refuses (401, 403)   -> thrown            *)
(*    HttpMetricsInterceptor, TracingInterceptor      -> inside            *)
(*    ValidationPipe, the handler and all it awaits                        *)
(*    the interceptors' tap and finalize              -> replying | thrown *)
(*    the reply, or AllExceptionsFilter               -> answered          *)
(*                                                                         *)
(* An exception of the body parser, of the routing or of a guard reaches   *)
(* the filter without having been through the interceptors.                *)
(***************************************************************************)
EXTENDS Naturals, Sequences, FiniteSets, Access

CONSTANTS Requests,     \* requests in flight at the same time
          Calls,        \* what callers send: [endpoint, bearer]
          MaxRestarts   \* restarts of the process

NoRoute == "no_route"
NoToken == "no_token"

ASSUME PipelineAssumption ==
    /\ Calls \subseteq [endpoint : Endpoints \cup {NoRoute}, bearer : Roles \cup {NoToken}]
    /\ IsFiniteSet(Requests)
    /\ MaxRestarts \in Nat

VARIABLES request,   \* request[r]: its stage, input and answer
          active,    \* food_delivery_http_active_requests by route
          counted,   \* counted[r]: the statuses recordHttpRequest was given for r
          restarts

pipelineVars == <<request, active, counted, restarts>>

-----------------------------------------------------------------------------
\* 200 stands for the success code of the route.
HttpStatuses == {200, 400, 401, 403, 404, 500}

\* What can be thrown: HttpExceptions, by their status, and any other error.
HttpExceptions == {400, 401, 403, 404}
PlainError == 1
Exceptions == HttpExceptions \cup {PlainError}
NoException == 0

\* HttpMetricsInterceptor.getErrorStatusCode; the fallback is the route's
\* success code, which is below 400.
CountedStatus(exception) == IF exception \in HttpExceptions THEN exception ELSE 500

\* Mutant: an unknown error is answered as the request's fault.
FilterStatusLenient(exception) == IF exception \in HttpExceptions THEN exception ELSE 400

\* AllExceptionsFilter.getStatus.
FilterStatus(exception) == IF exception \in HttpExceptions THEN exception ELSE 500

\* The values of the route label.
Routes == {c.endpoint : c \in Calls} \cup {NoRoute}

Stages == {"idle", "routed", "inside", "replying", "thrown", "answered", "lost"}

\* entered is history: the interceptors were called.
RequestRecords ==
    [stage : Stages, endpoint : Routes, bearer : Roles \cup {NoToken}, entered : BOOLEAN,
     thrown : Exceptions \cup {NoException}, status : HttpStatuses \cup {0}]

NoRequest == [stage |-> "idle", endpoint |-> NoRoute, bearer |-> NoToken,
              entered |-> FALSE, thrown |-> NoException, status |-> 0]

PipelineTypeOK ==
    /\ request \in [Requests -> RequestRecords]
    /\ active \in [Routes -> Nat]
    /\ counted \in [Requests -> Seq(HttpStatuses)]
    /\ restarts \in 0 .. MaxRestarts

PipelineInit ==
    /\ request = [r \in Requests |-> NoRequest]
    /\ active = [e \in Routes |-> 0]
    /\ counted = [r \in Requests |-> <<>>]
    /\ restarts = 0

InFlight == {r \in Requests : request[r].stage \in {"routed", "inside", "replying", "thrown"}}

\* The requests that the interceptors have let in and not out again.
Inside == {r \in Requests : request[r].stage = "inside"}

-----------------------------------------------------------------------------
\* A request has come in and is passed on, or thrown.
Begin(r, q) ==
    /\ request[r].stage \in {"idle", "answered", "lost"}
    /\ request' = [request EXCEPT ![r] = q]
    /\ counted' = [counted EXCEPT ![r] = <<>>]
    /\ UNCHANGED <<active, restarts>>

\* The two middlewares: a context for the request, 'API request started', and
\* a listener for the response's 'finish'.  Nobody listens for its 'close': a
\* client that goes away changes nothing here.
Arrive(r, c) ==
    Begin(r, [NoRequest EXCEPT !.stage = "routed", !.endpoint = c.endpoint, !.bearer = c.bearer])

\* The body parser, which runs before them and before the path and the token
\* are looked at, throws: for malformed JSON, which Nest makes a
\* BadRequestException of, or for a body that is too large, say.
ArriveUnreadable(r) ==
    \E exception \in {400, PlainError} :
        Begin(r, [NoRequest EXCEPT !.stage = "thrown", !.thrown = exception])

\* No controller has the path, or a guard throws.
Refuse(r) ==
    LET q == request[r]
        refusal == IF q.endpoint = NoRoute THEN 404 ELSE GuardStatus(q.endpoint, q.bearer)
    IN
    /\ q.stage = "routed"
    /\ refusal # 200
    /\ request' = [request EXCEPT ![r] = [q EXCEPT !.stage = "thrown", !.thrown = refusal]]
    /\ UNCHANGED <<active, counted, restarts>>

\* HttpMetricsInterceptor.intercept and TracingInterceptor.intercept.
Enter(r) ==
    LET q == request[r] IN
    /\ q.stage = "routed"
    /\ q.endpoint # NoRoute
    /\ Passes(q.endpoint, q.bearer)
    /\ request' = [request EXCEPT ![r] = [q EXCEPT !.stage = "inside", !.entered = TRUE]]
    /\ active' = [active EXCEPT ![q.endpoint] = @ + 1]
    /\ UNCHANGED <<counted, restarts>>

\* Mutant: finalize runs for the interceptor's observable and for the handler's.
LeaveFinalizingTwice(r, stage, exception, status) ==
    LET q == request[r] IN
    /\ q.stage = "inside"
    /\ request' = [request EXCEPT ![r] = [q EXCEPT !.stage = stage, !.thrown = exception]]
    /\ counted' = [counted EXCEPT ![r] = Append(@, status)]
    /\ active' = [active EXCEPT ![q.endpoint] = @ - 2]
    /\ UNCHANGED restarts

\* Mutant: the gauge is decremented when the handler completes, in tap.
LeaveDecrementingOnComplete(r, stage, exception, status) ==
    LET q == request[r] IN
    /\ q.stage = "inside"
    /\ request' = [request EXCEPT ![r] = [q EXCEPT !.stage = stage, !.thrown = exception]]
    /\ counted' = [counted EXCEPT ![r] = Append(@, status)]
    /\ active' = [active EXCEPT ![q.endpoint] = IF stage = "replying" THEN @ - 1 ELSE @]
    /\ UNCHANGED restarts

\* tap records the status and sets `recorded`; finalize decrements the gauge.
\* Both run before the promise that Nest awaits is settled.
Leave(r, stage, exception, status) ==
    LET q == request[r] IN
    /\ q.stage = "inside"
    /\ request' = [request EXCEPT ![r] = [q EXCEPT !.stage = stage, !.thrown = exception]]
    /\ counted' = [counted EXCEPT ![r] = Append(@, status)]
    /\ active' = [active EXCEPT ![q.endpoint] = @ - 1]
    /\ UNCHANGED restarts

\* The handler returned.
Complete(r) == Leave(r, "replying", NoException, 200)

\* ValidationPipe or the handler threw.
Throw(r, exception) == Leave(r, "thrown", exception, CountedStatus(exception))

\* Mutant: an exception is logged and not answered.
AnswerRepliesOnly(r) ==
    /\ request[r].stage = "replying"
    /\ request' = [request EXCEPT ![r].stage = "answered", ![r].status = 200]
    /\ UNCHANGED <<active, counted, restarts>>

\* The reply, or AllExceptionsFilter's body.
Answer(r) ==
    LET q == request[r] IN
    /\ q.stage \in {"replying", "thrown"}
    /\ request' = [request EXCEPT ![r] =
                     [NoRequest EXCEPT !.stage = "answered",
                                       !.entered = q.entered,
                                       !.status = IF q.stage = "thrown"
                                                  THEN FilterStatus(q.thrown) ELSE 200]]
    /\ UNCHANGED <<active, counted, restarts>>

\* The process is replaced: its requests are gone, its metrics start at zero.
RestartPipeline ==
    /\ restarts < MaxRestarts
    /\ restarts' = restarts + 1
    /\ request' = [r \in Requests |-> IF r \in InFlight
                                      THEN [NoRequest EXCEPT !.stage = "lost"]
                                      ELSE request[r]]
    /\ active' = [e \in Routes |-> 0]
    /\ UNCHANGED counted
=============================================================================
