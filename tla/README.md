# Formal model of the food-delivery platform

TLA+ modules, TLC configurations and TLAPS proofs for this repository: what happens to
a cart until it is an order, to an order between payment and delivery, to the cached
catalogue, to the sessions of the web application and to what the operators see of it all,
when HTTP requests, queue workers, failures and restarts interleave.

Paths below are relative to the repository root; `api/` is short for
`apps/api/src/`.

## 1. Inventory

| Component | State | Operations | Interacts with | What is hard |
|---|---|---|---|---|
| order status table (`api/orders/order-status-transitions.ts`) | none | allowed moves, check | lifecycle | completeness of the table |
| order lifecycle (`api/orders/order-lifecycle.service.ts`) | `orders.status`, `cancelledAt`, `deliveredAt` | `transitionOrder` | every handler and worker calls it; domain events; notifications | check and write are two awaits, the write has no condition |
| orders (`api/orders/orders.service.ts`) | order, items, payment rows | create, cancel, queries | lifecycle, payment queue | the order moves before its job is added |
| payments (`api/payments/payments.service.ts`) | `payments` row | payment worker, timeout, retry worker, `retryPayment` | lifecycle, payment and retry queues | two rows without a transaction; repeated and overlapping jobs |
| queues (`api/queues/queues.service.ts`) | BullMQ jobs in Redis, dead-letter queue | `add`, `registerProcessor`, failed listener | all workers | attempts, stalled jobs, dead letters that nobody awaits, adds that wait for Redis |
| restaurants: orders (`api/restaurants/restaurants.service.ts`) | none of its own | accept, reject, preparing, ready | lifecycle, delivery queue | the job is added after the move |
| restaurants: catalogue, cache (same file, `api/cache/cache.service.ts`) | restaurants, menu items, Redis keys | cached reads, writes that invalidate | Redis | fill after invalidate, swallowed errors |
| riders and dispatch (`api/riders/riders.service.ts`) | `deliveries`, `rider_profiles.availability`, `orders.riderId` | assign (worker, request), accept, pick up, leave, deliver, availability | lifecycle, delivery queue | three rows without a transaction; racing assigners |
| auth: tokens (`api/auth/auth.service.ts`) | users, refresh tokens | register, login, refresh, logout | web session | concurrent rotation |
| auth: guards and ownership (controllers, guards, `assert...` of the services) | none | who may call what, on whose order | every endpoint; the pages of the web | roles written down twice, in two packages |
| notifications (`api/notifications/`) | `notifications`, its queue | enqueue, worker | lifecycle, payments | partial enqueue, repetition |
| domain events (`api/domain-events/`) | append-only log | `recordEvent` | lifecycle, payments, restaurants | an await that may fail after the write it reports |
| HTTP pipeline (`api/app.module.ts`, `api/common/`) | the frame of each request, counters | body parser, middlewares, guards, interceptors, filter | every controller; metrics | status worked out twice, a gauge that must come back to zero |
| health, prisma, redis (`api/health/`, `api/prisma/`, `api/redis/`) | two connections, two gauges | health check, connection events, reconnection | metrics | four writers of a gauge, stale probes, a client that gives up |
| metrics, tracing, logging | counters, spans | observation | all | see the pipeline and the gauges |
| web: session tokens (`apps/web/src/features/auth/`) | a session per role | refresh or login, second attempt | auth | single flight, stale session after 401 |
| web: cart and checkout (`apps/web/src/stores/cart-store.ts`, `features/checkout/`) | cart in `localStorage`, frame of `onSubmit` | cart edits, submission | session, customers, orders | order of one render, clear of another; lost answers |
| web: order view (`features/orders/lib/order-view.ts`, the pages of orders and deliveries) | none | timelines, buttons | the tables of the API, repeated | two packages that must agree |
| web: hooks and API client | query cache | calls, each as a role | all controllers | no type holds the role of a hook to that of its endpoint |
| customers; other screens; infrastructure, seeds, migrations | profile; none; configuration | queries, rendering | | |

`PROJECT.json` lists the same components with what is modelled of each, and the
hazards, each at its line.

## 2. Modules

| Module | Models | Uses |
|---|---|---|
| `OrderStatus` | the statuses and the transition table | |
| `OrderMachine` | abstract: an order is placed and makes moves of the table, each in one step | `OrderStatus` |
| `OrderLifecycle` | `transitionOrder`, await by await, for any set of callers | `OrderStatus`, `OrderMachine` (instance) |
| `JobQueue` | BullMQ through `QueuesService`: jobs, attempts, dead letters, stalled jobs | |
| `OrderPayment` | checkout, cancel, accept, reject, payment and retry workers, `retryPayment` | `OrderLifecycle`, `JobQueue` |
| `Dispatch` | preparing, ready, assignment, rider operations, availability | `OrderLifecycle`, `JobQueue` |
| `CatalogueCache` | cached reads of the catalogue, writes that invalidate, time to live | |
| `RefreshTokens` | login, refresh and logout in the API, expiry of tokens | |
| `WebSession` | one tab of the web application: the shared session, the shared request for a new one, the retry after 401 | `RefreshTokens` |
| `OrderBook` | abstract: a submission enters at most one order, at prices that were on offer | |
| `Checkout` | the cart, the pages that change it, `onSubmit` and `createOrder`, await by await | `OrderBook` (instance, refinement) |
| `OrderView` | timelines and buttons of an order and of a delivery | `OrderStatus` |
| `Access` | the endpoints with their guards and roles, the ownership checks | |
| `WebCalls` | which endpoint each hook of the web calls, and as whom | `Access` |
| `HttpPipeline` | any number of requests through middlewares, guards, interceptors and filter | `Access` |
| `Observability` | health checks, the events of the two clients, outages, restarts, and the gauges | `HttpPipeline` |
| `MCOrderPayment`, `MCDispatch`, `MCCatalogueCache`, `MCWebSession`, `MCCheckout`, `MCObservability` | instances for TLC | |
| `OrderLifecycleProofs`, `OrderPaymentProofs`, `PaymentLedgerProofs`, `DispatchProofs`, `CatalogueCacheProofs`, `CheckoutProofs`, `ObservabilityProofs`, `WebSessionProofs` | theorems; `PaymentLedgerProofs` builds on `OrderPaymentProofs` | |

`OrderView` is extended by `OrderLifecycle`, so that its timelines and buttons are compared
with what orders and deliveries go through, in `OrderLifecycle`, `OrderPayment` and
`Dispatch`. `HttpPipeline` and `Checkout` cover the two ends of what the handlers of the
other modules do in between.

### How state and actions correspond to the code

* A **process** is one HTTP request in flight or one slot of a worker (the second
  argument of `registerProcessor`'s concurrency: payment 2, retry 1, delivery 2).
* `call[p]` is the frame of `transitionOrder` in process `p`; its `pc` is the await
  that comes next: `read`, `write`, `announce`. `seen` is the status that was read.
* `handler[p]` is the frame of the handler that called it. One action is the code
  from one await to the next; code without an await between is one action, which is
  sound in a single-threaded runtime.
* `status`, `payment`, `delivery`, `orderRider`, `availability` are columns of the
  database. A timestamp or a reference is modelled by whether it is there.
* `visited`, `charges` and `deadLetters` are history variables: no action reads
  them. They let a property speak of what an order has been through. `charges` counts the
  simulations that succeeded, not every request to the provider.
* A job that fails for good is gone in the step in which its worker lets go of it. The
  `failed` listener then adds a dead letter that nobody awaits (`void this.add`,
  `api/queues/queues.service.ts:117`): it is in `letters` until `PostDeadLetter` puts it
  into `deadLetters`, and a crash in between loses it. A rejection of that add has no
  handler and ends the process, which is a crash as well. (Up to 200 failed jobs stay in
  BullMQ's own set, which no code reads.)
* A **failure** of the database or Redis is a rejected await (`FailInCall`,
  `FailInHandler`): the exception unwinds the handler, and a job uses up an attempt.
  A write that was applied although its answer was lost is the write followed by a
  failure of the next await.
* A **crash** loses every frame; what is in PostgreSQL and Redis stays; a job that
  was active is found stalled and runs again. BullMQ does that once per job by
  default, so `MaxCrashes` is at most 1.
* Delays and backoffs are time, and the model has none: a waiting job may be taken
  at any moment, which includes every moment the delay allows.
* Guards, ownership checks, payload validation and metrics are not in these actions:
  requests stand for those that pass. What guards and ownership let pass is `Access`, what
  becomes of the others is `HttpPipeline`, and prices are in `Checkout`.
* In `Dispatch` orders begin ACCEPTED, where `OrderPayment` leaves them. The checks
  of a rider's request (`findOwnedDelivery` and the status of the delivery) are the
  guard of the action that starts it; the update that follows is another action.

In `CatalogueCache`:

* A key is a pair of a cache name and a restaurant. The contents of a restaurant and its
  menu are abstracted to a version number, which each write increases, and a view is what
  a key shows of them. Popular items also count what was sold; orders invalidate nothing.
* `request[p]` is the frame of a reader or a writer. A hit changes nothing and is no
  action. A writer is modelled from its write on: the checks before it and the domain
  event after the last deletion do not touch the catalogue or the cache.
* `deleteByPattern` is one `SCAN` and one `DEL`: a single batch, which holds the keys of
  the few restaurants of an instance.
* A failed command of Redis is swallowed and the handler goes on; a failed query ends it.
  Failures are counted by `MaxMishaps`, as is the death of the process.
* `raced` is history: the keys of which a stale copy may have got away, because a reader
  had loaded it before the write, or because a deletion failed or died.

In `RefreshTokens` and `WebSession`:

* Pair `n` is the n-th pair of an access token (an age) and a refresh token (a row).
  Near its end an access token is `ageing`: the API takes it, the web application, with
  its buffer of a minute, asks for another.
* `service[h]` is the frame of a request to `/auth`: read the row, revoke it, insert the
  next. `flight` is the entry of `sessionRequests`, `caller[c]` the frame of a
  `withRoleAccessToken`. JavaScript runs to completion, so what an answer triggers,
  continuations of promises included, is one step.
* One tab and one role. Roles share nothing but the store, each in its own field.
  `Reload` keeps what `localStorage` holds and loses every frame, while the requests in
  flight go on in the API.
* `events` counts everything that disturbs: expiry, ageing, logout, a failed await, a
  lost answer, a reload. `Logout` can come from anyone who holds the token: the web
  application itself never calls it. `useDemoSession` is another caller.
* Registration is not in these modules.

In `Checkout` and `OrderBook`:

* `cart` is the set of the cart's items. Quantities, and the price a line was added at, are
  abstracted: neither decides anything that follows. The subtotal on screen is of those
  earlier prices and may differ from what is charged (`checkout-screen.tsx:189`), while
  `createOrder` reads the prices again; `lines` of a call are the prices that it read.
* `submission[s]` is the frame of `onSubmit`: `preparing` stands for `ensureSession` and
  `updateProfile`, `ordering` for `createOrder` together with the loading of the queries that
  its success invalidates. `call[s]` is the frame of the API's `createOrder`; the second
  attempt after a 401 (see `WebSession`) is within `called`, before the handler begins.
* `isSubmitting` disables the button of the visit that submitted and no other: `stays` says
  that the customer has not left since. A reload ends the frames of the browser; the API's run on.
* Whether the restaurant is open, and every failure of database or queue, is `Throw`. A commit
  whose acknowledgement is lost is `LoseCommit`.
* `menu` changes while all that goes on: an item is repriced, turned off or on. A page may
  still show anything that ever was `offered`.

In `Access`, `WebCalls` and `OrderView`: sets and relations read off the decorators, the
hooks and the tables of the web. An order is who its customer, its restaurant's owner and its
rider are.

In `HttpPipeline` and `Observability`:

* `request[r]` is a request: its stage, endpoint, bearer, what was thrown and what was
  answered. A handler returns or throws, anything of `Exceptions`. `counted` is history: the
  statuses the metric was given for it. What the interceptors do when a handler ends is one step,
  since nothing in it awaits. `entered` is history too: the interceptors have seen the request.
  `ArriveUnreadable` is a body that the parser refuses, before any route or guard.
* `check[r]` is the frame of a health check, `client` the Redis client with its attempts. The
  other Redis clients (BullMQ opens its own) write no gauge.
* `refreshed` is history: the gauges were last written by a health check that began after
  everything that has happened to the dependencies.
* Outages, spurious failures and restarts are counted by the bounds of those names.

Each mapped definition names its lines in `PROJECT.json`. Operators introduced by
`Mutant:` are plausible bugs of the definition that follows; no action uses them.
They record what each property would detect.

## 3. Runs

| Run | Question | Bounds | Result |
|---|---|---|---|
| `payment_serial` | Do the two rows agree, is a customer charged once, does checkout settle, when requests come one at a time and nothing fails? | 1 order, 1 request at a time (4 in all), 2 payment slots, 1 retry slot | holds |
| `payment_race` | What survives two requests at a time and one failure or restart anywhere? How can an order be forgotten? | 1 order, 2 requests at a time (3 in all), every scenario | holds |
| `payment_worker_faults` | Does a job hang when workers fail twice? | 1 order, a placement and a retry, 2 failures in one payment slot and the retry slot | holds |
| `payment_cancel` | Is a cancelled order never paid? | 1 order, a placement and a cancellation | violated |
| `dispatch_race` | Is a stage ever skipped? Does the order ever claim more than its delivery shows? | 1 order, 2 riders, 2 requests at a time (6 in all), 1 restart | holds |
| `dispatch_job` | Do order and delivery agree when only the job assigns? How can a READY order be forgotten, and is it handled otherwise? | 1 order, 2 riders, 6 requests, 1 worker failure, 1 restart, 1 availability change | holds |
| `dispatch_reassign` | Are only READY orders assigned? | 1 order, 2 riders, 2 requests at a time | violated |
| `catalogue_race` | What explains a stale copy, and does it go away? | 1 restaurant and its 3 keys, 2 requests at a time, 2 writes, 1 sale, 1 failed await or restart | holds |
| `session_events` | Do calls end, fail only for a cause, and use a refresh token once? | 2 calls, 3 requests to `/auth`, 5 pairs, 3 disturbing events | holds |
| `checkout` | Is an order what was submitted, once, at prices on offer, and the cart cleared for nothing else? | 3 items of 2 restaurants, 2 prices, 2 submissions, 1 change of the menu | holds |
| `observability` | Do counters and gauges say what was answered and what is so? Does a request hang? | 2 requests at a time, 4 kinds of call and unreadable ones, 1 outage, 1 spurious failure, 1 restart | holds |
| `observability_counted` | Is every request counted? | 1 request | violated |

**Why the bounds are enough.** Nothing in these modules relates two orders: every
row, job and frame names one order, so one order shows every interference (the proofs
cover any number). `orderRider`, `delivery` and `availability` meet only in an
assignment, for which two riders suffice. Two requests at a time together with two
worker slots give every pairwise race; six requests take an order from ACCEPTED to
DELIVERED, or as far as OUT_FOR_DELIVERY with one to spare for a racing assignment. `payment_race` uses the state
constraint `OneMishap`: one failure or one crash. In `dispatch_race` the API's own failures
are covered by the crash, which loses the same frames. The pool of job ids is as large
as the number of jobs that can exist at a time, except in `dispatch_race`, where two
racing `ready` requests share one id and are queued one after the other.
In `catalogue_race` the list and the popular items of all restaurants are deleted but not
read: they are filled and deleted as the key of a single restaurant is, and the proof covers
them. A reader and a writer, two readers or two writers are all the pairs there are; a
second write makes a copy stale that was filled after the first. In `session_events` a third
handler serves the login that replaces a refresh whose handler is still at work, and with
three events no behaviour runs out of the five pairs (calls would hang, and `CallersReturn`
would fail).
In `checkout` two items of one restaurant and one of another are the smallest menu in which a
cart can be kept, replaced and partly cleared; two submissions are the pair that can race,
from two visits or over a reload; one change lets a price or an item differ between any two
moments. In `observability` the four kinds of call are a health check, a guarded call with the
right and with the wrong role, and a path without a route; two health checks at a time show a
late result overwriting an earlier one, and one outage of either dependency with one
spurious failure and one restart puts each writer of a gauge between any two others.
Where processes and ids are interchangeable the safety runs use symmetry; runs with
liveness do not. Where the configuration says so, deadlock is not checked: the system may
come to rest (no request, no job), and the bounds stop the clients.

**Fairness.** `FairSpec` assumes weak fairness of what a process does of itself: a
pending promise settles, a worker polls its queue. The event loop and BullMQ justify
that. Redis expires each key that has a time to live. Database queries are taken to settle,
since a lost connection fails them, and so are the cache's commands and `PING`, whose client
has a command timeout and one retry.

The connections of the queues are another matter: `maxRetriesPerRequest` is null and there is
no command timeout (`api/queues/queues.service.ts:150`), so an `add` waits for as long as
Redis is down, and nothing obliges Redis to come back. Hence the `Spec` of
`Observability` assumes fairness of the steps of a request except of a handler that adds
a job (`QueueEndpoints`: every one that moves an order) while Redis is down, and the `Spec` of
`Checkout` of `onSubmit` and `createOrder` except of the latter from the row on, where the
jobs are added (`AwaitsQueue`). `RequestsEnd` and `SubmissionEnds` say that these are the only
places where anything hangs. In `OrderPayment` and `Dispatch` an outage that ends is only
time; `PaymentSettles`, `JobsEnd` and `ReadyIsHandled` speak of a Redis that comes back. Clients,
failures, crashes, riders and logouts owe nothing: nobody has to click, to send a
request or to repair a dependency.

### What the violations show

* `payment_cancel`: the customer's `cancel` and the payment worker both read
  PAYMENT_PENDING, both pass the table, and both write. `README.md:278` says
  "Cancel a pending/payment-pending order", and the table allows nothing after
  CANCELLED; `order.update` (`api/orders/order-lifecycle.service.ts:61`) has only the id in
  its `where`. The order ends PAID after it was CANCELLED or the other way round, with
  a charge in both cases.
* `dispatch_reassign`: a request and the delivery job both read READY. One assigns,
  the rider accepts and picks up, and then the other upserts the delivery back to
  ASSIGNED, for another rider (`api/riders/riders.service.ts:244`), although "Only ready
  orders can be assigned" (line 228). `transitionOrder` refuses afterwards, but the
  delivery is already overwritten.

* `observability_counted`: the counter is described as the "Total number of HTTP requests
  received by the API." (`api/metrics/metrics.service.ts:57`), but only
  `HttpMetricsInterceptor` records requests. One whose body cannot be parsed, that
  has no route or that a guard refuses is answered by the filter (400, 500, 404, 401, 403)
  and never reaches it. The alert on `status_code=~"5.."` and the dashboards inherit that.

### What the passing properties say, and where they stop

* `NoStageSkipped` is what is left of the table under races: an order can be moved
  back, but what it has been through has no gaps. `dispatch_race` checks it from ACCEPTED on;
  the theorem `StagesAreNotSkipped` covers every stage, and callers that ask for anything.
* `DeliveryTimelineIsHistory`, and `TimelineIsHistory` (proved only): the web repeats the order of the stages
  (`order-view.ts`), and shows as complete what comes before the current one. Under any race,
  a step shown as complete is one the order has been through, or the delivery has a timestamp
  of (also one of before a second assignment, which clears none). A step may still be missing where
  an order was moved back.
* `RetryIsOfferedForCause` (the page offers a retry only where the API grants it) compares the
  payment's status, which the page asks, with the order's, which the API asks. It needs quiet
  conditions, as `RowsAgree` does: after a failure between the two writes the page offers
  a retry that the API refuses.
* `PaidOrdersHaveReference`: the payment row is written before the order is moved and
  nothing clears `providerReference`, so no interleaving, failure or restart cooks an
  order for free. The converse does not hold: a payment can be SUCCEEDED while the order
  was cancelled, or while the move failed.
* `NoOrderForgotten` is an action property: an order that waits for its payment passes from
  hand to hand (the request that moved it, a job, a worker, a dead letter), and the next
  one is there before the last lets go. It names the exceptions, which the code does
  have: `createOrder` and `retryPayment` move the order first and add the job after, so
  a request that fails or dies between strands it, and a dead letter is lost when the process dies
  before Redis has it. No failure of a worker alone loses an order.
* `ChargedOnce` needs that nothing fails: an attempt that fails after the simulation is
  repeated and charges again. `ChargesAreCounted` says the repeated charge is visible.
* `OrderTrailsDelivery` is what holds of the two rows with racing assigners.
  `RidersAgree` and `PickedUpOrderKeepsUp` need the delivery job to be the only
  assigner; before the pick-up the rows may part for good, when a rider picks up before
  the order is RIDER_ASSIGNED.
* `ReadyIsNotForgotten` is the same for a READY order and its rider, with `markReady` as the
  request. `ReadyIsHandled` adds that an order with someone to see to it is assigned or has
  its dead letter in the end, unless it is lost in one of those two ways.
* `StaleMeansRaced` compares the catalogue and not the numbers sold, which no order
  invalidates. It says that the writers miss no key and delete after they write; a reader
  that is outrun by a writer still leaves a stale copy, and `CacheHeals` says that it is
  gone once the writes stop, thanks to the time to live alone.
* `ExchangedOncePerLife` holds because of the client. The API reads a refresh token,
  revokes it without a condition and issues: two requests with one token can both get a
  pair. `sessionRequests` keeps a tab from sending the second one, and `clearSession` from
  sending it again when the answer is lost; after a reload in mid-flight the token is sent
  again, hence once per life of the tab.
* `FailsOnlyForCause` bounds what a user sees: expired and revoked tokens are made good by
  a refresh, a login or the second attempt, unless something happens during the call.
* `FollowsTheBook`: checkout implements `OrderBook`. A submission never inserts two orders,
  whatever is called again, and each line had been on offer at the recorded price. A customer
  who submits again after a lost answer has a second order by a second submission: nothing
  prevents that, and `FailedSubmissionKeepsCart` is what invites it.
* `ClearedWhatWasOrdered` covers the customer who stays on the page. One who leaves while the
  order is awaited and adds lines loses them when it is done (`checkout-screen.tsx:77`).
* `OrdersAreCounted` encloses the number of rows between the two counters. An order that is
  inserted and then not enqueued is counted in both. The counters are those of one process: its
  death between the commit and the count, and the return to zero that follows, are not
  in `Checkout`.
* `SubmissionEnds` and `RequestsEnd` except what waits for the queue while Redis is down. There
  the row of the order is already inserted, and the button stays disabled.
* `CountedAsAnswered` speaks of the requests that reach the interceptors: two pieces of code, one
  after the other, agree on the status. The others are the violation above.
* `RefreshedGauges` is `README.md:400`, "call `http://localhost:4000/health` to refresh
  dependency gauges", made precise: the check must have begun after the last event and finished
  after any older check. One that began before an outage may finish after it and set a gauge to 1; a failed query
  of any kind sets the database gauge to 0 until the next check.
* `RedisClientSettles` ends in "connected or ended": after the attempts of `retryStrategy` the
  client stays disconnected when Redis is back, and the cache is off until a restart.
* `LifecycleTypeOK` is a conjunct of `PaymentTypeOK` and of `DispatchTypeOK` and is checked there.

## 4. Proofs

Proved by TLAPS for any set of orders, processes, worker slots, jobs, riders, restaurants, items
and requests and any bounds, from the named assumptions of the modules (`LifecycleAssumption`,
`QueueAssumption`, `PaymentAssumption`, `DispatchAssumption`, `CatalogueAssumption`,
`KeyAssumption`, `CheckoutAssumption`, `PipelineAssumption`, `ObservabilityAssumption`,
`SessionAssumption`, `TokenAssumption`: the
process sets partition `Procs`, null values are none of the real ones, the handlers' targets are
among `Targets`, clients read keys that exist and send calls of endpoints, requests in flight are
finitely many, bounds are numbers). A theorem that needs quiet conditions states them as its own
ASSUME; they are those of the run that checks the property, without its bounds on orders,
slots, jobs and requests, and the property is false without them (section 3).

* `StagesAreNotSkipped`: `LifecycleSpec => []NoStageSkipped`. The property is not
  inductive. `LifecycleInv` adds that every status an order visited has a predecessor
  in the table that was visited too (`HistoryIsChained`) and that a caller about to
  write saw a status that the order has had and from which the table allows the move
  (`WritesAreChecked`): stale, but not invented. The property follows because each stage
  has one predecessor.
* `SerialCallersFollowTheTable`: with one process, `LifecycleSpec => Machine!Spec`:
  what was read is still there at the write, so each write is a `Move`, each insert a
  `Place`, and the rest stutters.
* `NothingIsCookedForFree`: `Spec => []PaidOrdersHaveReference`. `PaymentInv` adds that
  only the payment worker has a call to PAID, and makes it with the reference written
  (`CallsArePaid`), and that handlers stay in their own code (`HandlersOK`) with a job of
  their own (`JobsOK`). A new paid status either is PAID, with the reference behind the
  call, or follows one, and then the order has been paid before.
* `CheckoutImplementsLifecycle`: `Spec => LifecycleSpec`: each step of checkout is
  a step of the lifecycle or leaves its variables alone. `CheckoutSkipsNoStage` follows.
* `PaymentTypes`: `Spec => []PaymentTypeOK`.
* `EveryChargeIsCounted` (`PaymentLedgerProofs`): `Spec => []ChargesAreCounted`, without
  conditions. The invariant `AttemptsCoverCharges` leaves room for the workers that have counted
  their attempt and not yet asked the provider: charges plus those workers are at most the
  attempts. A worker that dies in between gives its place up and takes nothing back.
* `WaitingOrdersArePassedOn`: `Spec => NoOrderForgotten`, without conditions, for any number
  of requests at a time and any failures and deaths of the process. `CallsMatch` and `JobsMatch`
  say that a handler, its call and its job are about one order; from there each step that
  takes the order out of one hand is shown to put it into another or to be one of the losses that
  the property names: a worker that ends or fails hands the order on to the status, to the
  queue, or to the letter on its way, and a crash puts its job back.
* `SerialRowsAgree`, `SerialChargesOnce`, `SerialRetryIsOfferedForCause` and
  `SerialCheckoutFollowsTheTable`: the properties of `payment_serial` under `SerialCheckout` (one request at a
  time, nothing fails, nobody cancels), for any number of orders, worker slots, jobs and
  retries. None is inductive: what a worker writes was decided from a row read several awaits ago.
  `SerialInv` says why the row is still the same: at any moment an order has at most one
  handler or one job that has its payment in hand (`OneHolder`), passed from request to job to worker
  to retry job; that holder knows the status and the charges (`HolderKnows`); an order that
  nobody holds is where its status says (`OrderKnows`). With a second request, a failure
  or `cancel`, `OneHolder` is lost.
* `OnlyRacesLeaveStaleCopies`: in `CatalogueCache`, `Spec => []StaleMeansRaced`.
  `CatalogueInv` adds that what a reader is about to store is current unless its key is in
  `raced` (`LoadsAreCurrent`) and that a writer at work has something left to delete
  (`FramesOK`). A write makes copies stale, but each of their keys is among the deletions
  the writer now owes (`InvalidationsCover`); a deletion drops its claim only to keys that
  it has evicted or that are in `raced`.
* `CatalogueTypes`: `Spec => []CatalogueTypeOK`, from the same invariant.

* `TimelineTellsHistory` (`TimelineIsHistory`) and `ButtonsFollowTheTable`, in
  `OrderLifecycleProofs`: from `LifecycleInv`, and from the tables alone, what the web shows
  and offers agrees with what the API goes through and allows.
* `DispatchTypes`, `OrdersTrailDeliveries` and `DeliveryTimelineTellsHistory`: `Spec =>
  []OrderTrailsDelivery` for any riders, requests, workers, failures and restarts. The
  invariant is `DispatchInv`: the lifecycle's own, the types, handlers in their own code
  (`HandlersOK`) with a job of their own (`JobsOK`), timestamps that are chained
  (`StampsOK`), and the two that carry the argument: a handler or a call about to move the
  order to a stage knows that the delivery has had it (`HandlersKnow`, `CallsKnow`), which no
  interleaving takes back, since an assignment resets the delivery's status but not its timestamps.
* `ReadyOrdersArePassedOn`: `Spec => ReadyIsNotForgotten`, likewise without conditions, from
  `DispatchInv` and from what handlers, calls and jobs are about (`Roles`).
* `OneAssignerRidersAgree` and `OneAssignerOrderKeepsUp`: the safety properties of `dispatch_job` under
  `SerialDispatch` (one request at a time, no assignment by hand), for any number of workers,
  failures and restarts. `AssignmentInv`: an order has at most one delivery job, from `markReady`
  on (`OneJob`), so between the read of `assignReadyOrder` and its write the order stays READY
  (`HandlerRelies`), and from RIDER_ASSIGNED on the rider in both rows is fixed
  (`RowsKnown`). A rider may still pick up before the order is RIDER_ASSIGNED, and a worker that
  is run again may still find another rider: the invariant allows for both. `CalmInv` adds, until the first
  failure, that a picked-up order is level with its delivery or a request is just about to
  make it so; after a failure between the two writes the order stays behind, hence the condition
  in `PickedUpOrderKeepsUp` itself.
* `SessionTypes`, `RefreshTokensAreUsedOnce`, `FreshSessionsAreKept` and `CallsFailForCause`
  (`WebSessionProofs`): all the safety of `session_events`, for any number of calls,
  requests to `/auth`, pairs, failures, expiries, logouts and reloads. `SessionInv` adds: a request
  for a session is under way only while the stored one is not fresh (`TabOK`); exchanges done and
  exchanges still possible of one refresh token number at most the lives of the tab, and one fewer
  while it is stored and not being sent (`UsesOK`), so that sending it stays
  within the bound; a pair in an answer is in no other answer and was never sent
  (`AnswersAreNew`); what a call that nothing disturbed gets on its second attempt was issued
  after it began and has not aged (`CallersOK`).
* `CheckoutTypes`, `OneRestaurantPerOrder`, `EveryOrderIsCounted`, `ToastKeepsCart`,
  `OnlyOrderedIsCleared` and `CheckoutFollowsTheBook`. `CheckoutInv` relates the
  frames of the browser to those of the API, and the calls to the rows they have inserted:
  a call that is still to insert has no row. The refinement maps `book` to `orders`
  and `offered` to itself; `InsertOrder` and `LoseCommit` are an `Enter`, a change of the menu is
  an `Offer`, and the rest stutters.
* `ObservabilityTypes`, `RequestsAreCountedAsAnswered`, `ActiveRequestsAreInside` and
  `HealthChecksRefresh`, from `ObservabilityInv`: the gauge is the cardinality of the
  requests inside, what is counted when a handler ends is what the filter will answer, and
  a check that is still fresh has results that are still true.
* `ActorsMayView`: whoever guards and ownership let act on an order may also view it.
  `WebIsServed` (`WebCallsAreServed`): every call of the web passes the guards with the
  token of the role that its hook names. `ButtonsAreGranted`: whoever a page shows an order to
  may make the calls its buttons make. These three are facts about constants: no run, since
  there is no behaviour to explore.

Only model-checked: liveness (`PaymentSettles`, `JobsEnd`, `ReadyIsHandled`, `CacheHeals`,
`CallersReturn`, `SubmissionEnds`, `RequestsEnd`, `RedisClientSettles`), which with fairness and
ENABLED is out of the prover's reach. Every safety invariant and action property that a passing run
checks is also proved. That the three violated claims fail is shown by their runs.

## 5. Plan

Done: the core (lifecycle, queue, payment, dispatch), the cached catalogue, the sessions,
checkout, the view of orders, access, the HTTP pipeline and the gauges. What is left, in order
of worth:

1. Proofs: weaker conditions for `SerialCheckout` (several requests, as long as they are for
   different orders) and for `SerialDispatch` (several riders at a time, on different orders).
2. `Checkout` with quantities: the normalisation of repeated items and the width of the column.
3. The query cache of the web: which queries each mutation invalidates, and which view
   stays old without it.
4. Registration, with the unique index that decides a race.
5. Redis outages in `OrderPayment` and `Dispatch`, with adds that wait, in place of the assumption that
   it comes back; the reset of the order counters in `Checkout`.

## 6. Not modelled

* The notification worker: one insert per job, without a key; nothing promises how often a
  notification is sent, and its queue is `JobQueue` over again.
* The contents of notifications, domain events, profiles, logs and traces; histograms and the
  counters other than those of requests and orders; pool usage; queue depths: output that
  nothing reads back.
* Rendering, layout and the proxy of the web application; dashboards, configuration, seeds and
  migrations.
* JWT signing, bcrypt, Prisma, ioredis and BullMQ themselves (libraries, modelled as the code
  uses them).
* Expiry: EXPIRED, TIMEOUT and a CANCELLED delivery are declared but no code produces them.
