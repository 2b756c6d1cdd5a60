---------------------------- MODULE OrderPayment ----------------------------
(***************************************************************************)
(* An order from checkout to the kitchen: OrdersService.createOrder and    *)
(* cancel, PaymentsService.retryPayment, processPayment, handleTimeout and *)
(* the retry worker, RestaurantsService.acceptOrder and rejectOrder, all   *)
(* of which move the order through OrderLifecycle and talk to the workers  *)
(* through JobQueue.                                                       *)
(*                                                                         *)
(* A process is an HTTP request that is being handled (Api), or one slot   *)
(* of the payment worker (concurrency 2) or of the retry worker            *)
(* (concurrency 1).  handler[p] is its frame: what it runs and which await *)
(* comes next; call[p] is the frame of transitionOrder under it.  Every    *)
(* await is a step, and under every await the database or Redis may fail   *)
(* and the process may die.                                                *)
(***************************************************************************)
EXTENDS OrderLifecycle, JobQueue

CONSTANTS Api, PaymentWorkers, RetryWorkers,   \* the processes
          Requests,      \* the operations clients use besides POST /orders
          Scenarios,     \* the payment scenarios clients ask for
          FaultyProcs,   \* the processes whose awaits may fail
          MaxRequests,   \* bound on the requests of all clients together
          MaxFaults,     \* bound on the awaits that fail
          MaxCrashes     \* bound on the deaths of the API process

AllRequests == {"cancel", "accept", "reject", "retry"}
AllScenarios == {"success", "failure", "timeout"}
PaymentTargets == {"PAYMENT_PENDING", "PAID", "PAYMENT_FAILED", "CANCELLED",
                   "ACCEPTED", "REJECTED"}

ASSUME PaymentAssumption ==
    /\ Api \cup PaymentWorkers \cup RetryWorkers = Procs
    /\ Api \cap (PaymentWorkers \cup RetryWorkers) = {}
    /\ PaymentWorkers \cap RetryWorkers = {}
    /\ Requests \subseteq AllRequests
    /\ Scenarios \subseteq AllScenarios
    /\ PaymentTargets \subseteq Targets
    /\ MaxRequests \in Nat /\ MaxFaults \in Nat /\ MaxCrashes \in Nat

VARIABLES payment,       \* payment[o]: status and providerReference of the row
          attemptCount,  \* attemptCount[o]: the column of the payment row
          charges,       \* charges[o]: history, simulations that ended in success
          handler,       \* handler[p]: the frame of the handler that p runs
          requests, faults, crashes    \* how much of each bound is used

paymentVars == <<payment, attemptCount, charges>>
bounds == <<requests, faults, crashes>>
vars == <<lifecycleVars, queueVars, paymentVars, handler, bounds>>

Workers == PaymentWorkers \cup RetryWorkers

-----------------------------------------------------------------------------
PaymentStatuses == {"PENDING", "SUCCEEDED", "FAILED", "RETRYING"}

\* PaymentJobData.
JobData == [order : Orders, scenario : AllScenarios, retryCount : Nat]

\* Mutant: the retry count is left out.
PayloadUncounted(o, scenario, retryCount) == [order |-> o, scenario |-> scenario]

Payload(o, scenario, retryCount) ==
    [order |-> o, scenario |-> scenario, retryCount |-> retryCount]

IdleHandler == [pc |-> "idle", order |-> NoOrder, job |-> NoJob,
                scenario |-> "success"]

Handlers == [pc : {"idle", "placing", "answering", "resetting", "enqueuing",
                   "loading", "counting", "simulating", "settling",
                   "recording", "delaying", "rereading", "readding", "done"},
             order : Orders \cup {NoOrder},
             job : Jobs \cup {NoJob},
             scenario : AllScenarios]

\* Control of a handler: where it is, and whether transitionOrder, if it is
\* in it, gave it the moved order.
At(p, pc) == handler[p].pc = pc
Moved(p) == call[p].pc = "returned"

Start(p, pc, o, j, scenario) ==
    /\ At(p, "idle")
    /\ handler' = [handler EXCEPT ![p] = [pc |-> pc, order |-> o, job |-> j,
                                          scenario |-> scenario]]
Proceed(p, pc) == handler' = [handler EXCEPT ![p].pc = pc]
Stop(p) == handler' = [handler EXCEPT ![p] = IdleHandler]

AcceptRequest ==
    /\ requests < MaxRequests
    /\ requests' = requests + 1
    /\ UNCHANGED <<faults, crashes>>

Init ==
    /\ LifecycleInit
    /\ QueueInit
    /\ payment = [o \in Orders |-> [status |-> "PENDING", reference |-> FALSE]]
    /\ attemptCount = [o \in Orders |-> 0]
    /\ charges = [o \in Orders |-> 0]
    /\ handler = [p \in Procs |-> IdleHandler]
    /\ requests = 0 /\ faults = 0 /\ crashes = 0

-----------------------------------------------------------------------------
(* Requests of the clients. *)

\* POST /orders: the transaction inserts the order and its payment, PENDING,
\* and the handler asks for PAYMENT_PENDING.
PlaceOrder(p, o, scenario) ==
    /\ p \in Api
    /\ AcceptRequest
    /\ Insert(p, o)
    /\ Start(p, "placing", o, NoJob, scenario)
    /\ UNCHANGED <<queueVars, paymentVars>>

\* ... and adds the payment job (two attempts) once the order has moved.
EnqueueFirstPayment(p, j) ==
    /\ At(p, "placing") /\ Moved(p)
    /\ Return(p)
    /\ AddJob(j, "payment",
              Payload(handler[p].order, handler[p].scenario, 0), 2)
    /\ Stop(p)
    /\ UNCHANGED <<paymentVars, bounds>>

\* What PATCH .../cancel, .../accept and .../reject ask for.
TargetOf == [cancel |-> "CANCELLED", accept |-> "ACCEPTED", reject |-> "REJECTED"]

\* A customer cancels, a restaurant accepts or rejects: after the ownership
\* checks the handler is one transitionOrder.
RequestMove(p, o, request) ==
    /\ p \in Api
    /\ request \in Requests \cap DOMAIN TargetOf
    /\ status[o] # NoRow
    /\ AcceptRequest
    /\ Invoke(p, o, TargetOf[request])
    /\ Start(p, "answering", o, NoJob, "success")
    /\ UNCHANGED <<queueVars, paymentVars>>

AnswerMove(p) ==
    /\ At(p, "answering") /\ Moved(p)
    /\ Return(p)
    /\ Stop(p)
    /\ UNCHANGED <<queueVars, paymentVars, bounds>>

\* POST /payments/:orderId/retry: the order read is PAYMENT_FAILED.
RequestRetry(p, o, scenario) ==
    /\ p \in Api
    /\ "retry" \in Requests
    /\ status[o] = "PAYMENT_FAILED"
    /\ AcceptRequest
    /\ Invoke(p, o, "PAYMENT_PENDING")
    /\ Start(p, "resetting", o, NoJob, scenario)
    /\ UNCHANGED <<queueVars, paymentVars>>

\* ... the payment becomes PENDING again (its providerReference is kept) ...
ResetPayment(p) ==
    /\ At(p, "resetting") /\ Moved(p)
    /\ Return(p)
    /\ payment' = [payment EXCEPT ![handler[p].order].status = "PENDING"]
    /\ Proceed(p, "enqueuing")
    /\ UNCHANGED <<queueVars, attemptCount, charges, bounds>>

\* ... and enqueuePayment adds a payment job with two attempts.
EnqueueRetriedPayment(p, j) ==
    /\ At(p, "enqueuing")
    /\ AddJob(j, "payment",
              Payload(handler[p].order, handler[p].scenario, 0), 2)
    /\ Stop(p)
    /\ UNCHANGED <<lifecycleVars, paymentVars, bounds>>

-----------------------------------------------------------------------------
(* The payment worker: processPayment, await by await. *)

TakePayment(w, j) ==
    /\ w \in PaymentWorkers
    /\ TakeJob(j, "payment")
    /\ Start(w, "loading", jobs[j].data.order, j, jobs[j].data.scenario)
    /\ UNCHANGED <<lifecycleVars, paymentVars, bounds>>

\* The order is read: a job whose order is not payable is skipped.
LoadOrder(w) ==
    /\ At(w, "loading")
    /\ IF status[handler[w].order] = "PAYMENT_PENDING"
       THEN Proceed(w, "counting")
       ELSE Proceed(w, "done")
    /\ UNCHANGED <<lifecycleVars, queueVars, paymentVars, bounds>>

\* Mutant: the attempt is set, not incremented.
CountAttemptOnce(w) ==
    /\ At(w, "counting")
    /\ attemptCount' = [attemptCount EXCEPT ![handler[w].order] = 1]
    /\ Proceed(w, "simulating")
    /\ UNCHANGED <<lifecycleVars, queueVars, payment, charges, bounds>>

CountAttempt(w) ==
    /\ At(w, "counting")
    /\ attemptCount' = [attemptCount EXCEPT ![handler[w].order] = @ + 1]
    /\ Proceed(w, "simulating")
    /\ UNCHANGED <<lifecycleVars, queueVars, payment, charges, bounds>>

\* simulatePayment: what the provider answers to the job.
Outcome(data) == IF data.scenario = "timeout" /\ data.retryCount > 0
                 THEN "success"
                 ELSE data.scenario

OutcomeAt(w) == Outcome(jobs[handler[w].job].data)

\* The simulated provider charges the customer when the outcome is success.
Simulate(w) ==
    /\ At(w, "simulating")
    /\ charges' = IF OutcomeAt(w) = "success"
                  THEN [charges EXCEPT ![handler[w].order] = @ + 1]
                  ELSE charges
    /\ Proceed(w, "settling")
    /\ UNCHANGED <<lifecycleVars, queueVars, payment, attemptCount, bounds>>

\* Mutant: the order moves and the payment row stays.
SettleSuccessUnrecorded(w) ==
    /\ At(w, "settling") /\ OutcomeAt(w) = "success"
    /\ Invoke(w, handler[w].order, "PAID")
    /\ Proceed(w, "recording")
    /\ UNCHANGED <<queueVars, paymentVars, bounds>>

\* The payment row first, then the order.
SettleSuccess(w) ==
    /\ At(w, "settling") /\ OutcomeAt(w) = "success"
    /\ payment' = [payment EXCEPT ![handler[w].order] =
                      [status |-> "SUCCEEDED", reference |-> TRUE]]
    /\ Invoke(w, handler[w].order, "PAID")
    /\ Proceed(w, "recording")
    /\ UNCHANGED <<queueVars, attemptCount, charges, bounds>>

\* Mutant: the order moves and the payment row stays.
SettleFailureUnrecorded(w) ==
    /\ At(w, "settling") /\ OutcomeAt(w) = "failure"
    /\ Invoke(w, handler[w].order, "PAYMENT_FAILED")
    /\ Proceed(w, "recording")
    /\ UNCHANGED <<queueVars, paymentVars, bounds>>

\* Mutant: the worker writes the order itself.
SettleFailureDirect(w) ==
    /\ At(w, "settling") /\ OutcomeAt(w) = "failure"
    /\ payment' = [payment EXCEPT ![handler[w].order].status = "FAILED"]
    /\ status' = [status EXCEPT ![handler[w].order] = "PAYMENT_FAILED"]
    /\ Proceed(w, "done")
    /\ UNCHANGED <<visited, call, queueVars, attemptCount, charges, bounds>>

\* Mutant: the payment row is written and the order stays.
SettleFailureAlone(w) ==
    /\ At(w, "settling") /\ OutcomeAt(w) = "failure"
    /\ payment' = [payment EXCEPT ![handler[w].order].status = "FAILED"]
    /\ Proceed(w, "done")
    /\ UNCHANGED <<lifecycleVars, queueVars, attemptCount, charges, bounds>>

SettleFailure(w) ==
    /\ At(w, "settling") /\ OutcomeAt(w) = "failure"
    /\ payment' = [payment EXCEPT ![handler[w].order].status = "FAILED"]
    /\ Invoke(w, handler[w].order, "PAYMENT_FAILED")
    /\ Proceed(w, "recording")
    /\ UNCHANGED <<queueVars, attemptCount, charges, bounds>>

\* The event payment.succeeded or payment.failed is recorded.
RecordOutcome(w) ==
    /\ At(w, "recording") /\ Moved(w)
    /\ Return(w)
    /\ Proceed(w, "done")
    /\ UNCHANGED <<queueVars, paymentVars, bounds>>

\* handleTimeout: the payment is RETRYING, the order stays PAYMENT_PENDING ...
SettleTimeout(w) ==
    /\ At(w, "settling") /\ OutcomeAt(w) = "timeout"
    /\ payment' = [payment EXCEPT ![handler[w].order].status = "RETRYING"]
    /\ Proceed(w, "delaying")
    /\ UNCHANGED <<lifecycleVars, queueVars, attemptCount, charges, bounds>>

\* Mutant: the retry is announced and never queued.
DelayRetryDropped(w, j) ==
    /\ At(w, "delaying")
    /\ Proceed(w, "rereading")
    /\ UNCHANGED <<lifecycleVars, queueVars, paymentVars, bounds>>

\* ... and after the event and the notification a job goes to the retry queue.
\* One await is left, which reads the payment again.
DelayRetry(w, j) ==
    /\ At(w, "delaying")
    /\ AddJob(j, "retry", Payload(handler[w].order, "success", 1), 1)
    /\ Proceed(w, "rereading")
    /\ UNCHANGED <<lifecycleVars, paymentVars, bounds>>

\* Mutant: the worker never tells BullMQ.
FinishJobSilently(w) ==
    /\ handler[w].pc \in {"rereading", "done"}
    /\ Stop(w)
    /\ UNCHANGED <<lifecycleVars, queueVars, paymentVars, bounds>>

\* The processor returned: BullMQ removes the job.
FinishJob(w) ==
    /\ handler[w].pc \in {"rereading", "done"}
    /\ CompleteJob(handler[w].job)
    /\ Stop(w)
    /\ UNCHANGED <<lifecycleVars, paymentVars, bounds>>

-----------------------------------------------------------------------------
(* The retry worker puts the job back on the payment queue, one attempt. *)

TakeRetry(w, j) ==
    /\ w \in RetryWorkers
    /\ TakeJob(j, "retry")
    /\ Start(w, "readding", jobs[j].data.order, j, jobs[j].data.scenario)
    /\ UNCHANGED <<lifecycleVars, paymentVars, bounds>>

ReaddPayment(w, j) ==
    /\ At(w, "readding")
    /\ AddJob(j, "payment",
              Payload(handler[w].order, "success",
                      jobs[handler[w].job].data.retryCount + 1), 1)
    /\ Proceed(w, "done")
    /\ UNCHANGED <<lifecycleVars, paymentVars, bounds>>

-----------------------------------------------------------------------------
(* What goes wrong. *)

\* An exception leaves the handler: a request is answered with the error, a
\* job has failed once more.
Unwind(p) ==
    /\ IF p \in Workers THEN FailJob(handler[p].job) ELSE UNCHANGED queueVars
    /\ Stop(p)

\* transitionOrder threw: it refused the move or lost the database.
HandlerThrows(p) ==
    /\ call[p].pc = "threw"
    /\ Return(p)
    /\ Unwind(p)
    /\ UNCHANGED <<paymentVars, bounds>>

Fault(p) ==
    /\ p \in FaultyProcs
    /\ faults < MaxFaults
    /\ faults' = faults + 1
    /\ UNCHANGED <<requests, crashes>>

\* An await of transitionOrder fails.
FailInCall(p) ==
    /\ Fault(p)
    /\ LoseCall(p)
    /\ UNCHANGED <<queueVars, paymentVars, handler>>

\* An await of the handler itself fails.
FailInHandler(p) ==
    /\ Fault(p)
    /\ handler[p].pc \notin {"idle", "answering", "done"}
    /\ \/ call[p].pc = "idle" /\ UNCHANGED lifecycleVars
       \/ Moved(p) /\ Return(p)
    /\ Unwind(p)
    /\ UNCHANGED paymentVars

\* The API process, which also runs the workers, dies and is started again.
Crash ==
    /\ crashes < MaxCrashes
    /\ crashes' = crashes + 1
    /\ LoseAllCalls
    /\ RedeliverActiveJobs
    /\ handler' = [p \in Procs |-> IdleHandler]
    /\ UNCHANGED <<paymentVars, requests, faults>>

-----------------------------------------------------------------------------
\* transitionOrder under a handler.
CallStep(p) ==
    /\ ReadOrder(p) \/ RefuseMove(p) \/ WriteStatus(p) \/ Announce(p)
    /\ UNCHANGED <<queueVars, paymentVars, handler, bounds>>

\* A request that was accepted goes on.
ApiStep(p) ==
    \/ \E j \in Jobs : EnqueueFirstPayment(p, j) \/ EnqueueRetriedPayment(p, j)
    \/ AnswerMove(p)
    \/ ResetPayment(p)

\* A worker slot takes a job or goes on with the one it has.
WorkerStep(w) ==
    \/ \E j \in Jobs : TakePayment(w, j) \/ TakeRetry(w, j)
    \/ \E j \in Jobs : DelayRetry(w, j) \/ ReaddPayment(w, j)
    \/ LoadOrder(w)
    \/ CountAttempt(w)
    \/ Simulate(w)
    \/ SettleSuccess(w)
    \/ SettleFailure(w)
    \/ SettleTimeout(w)
    \/ RecordOutcome(w)
    \/ FinishJob(w)

\* What a process does of itself once it has something to do.
ProcStep(p) == CallStep(p) \/ ApiStep(p) \/ WorkerStep(p) \/ HandlerThrows(p)

ClientStep(p) ==
    \E o \in Orders :
        \/ \E scenario \in Scenarios : PlaceOrder(p, o, scenario)
        \/ \E scenario \in Scenarios : RequestRetry(p, o, scenario)
        \/ \E request \in Requests : RequestMove(p, o, request)

FaultStep(p) == FailInCall(p) \/ FailInHandler(p)

\* A dead letter that a failed job left behind gets to Redis.
PostDeadLetter ==
    /\ \E letter \in letters : PostLetter(letter)
    /\ UNCHANGED <<lifecycleVars, paymentVars, handler, bounds>>

Next ==
    \/ \E p \in Procs : ProcStep(p) \/ ClientStep(p) \/ FaultStep(p)
    \/ PostDeadLetter
    \/ Crash

Spec == Init /\ [][Next]_vars

\* Promises settle and workers poll; clients, faults and crashes owe nothing.
\* An add to a queue waits as long as Redis is away: what is said under this
\* fairness is said of a Redis that comes back.
FairSpec ==
    /\ Spec
    /\ \A p \in Procs : WF_vars(ProcStep(p))
    /\ WF_vars(PostDeadLetter)

-----------------------------------------------------------------------------
PaymentTypeOK ==
    /\ LifecycleTypeOK
    /\ QueueTypeOK(JobData)
    /\ payment \in [Orders -> [status : PaymentStatuses, reference : BOOLEAN]]
    /\ attemptCount \in [Orders -> Nat]
    /\ charges \in [Orders -> Nat]
    /\ handler \in [Procs -> Handlers]
    /\ requests \in Nat /\ faults \in Nat /\ crashes \in Nat

(***************************************************************************)
(* No order is cooked for free: an order that ever was PAID or beyond has  *)
(* a payment row with a provider reference.  processPayment writes the     *)
(* payment before it moves the order, and nothing takes the reference      *)
(* back: neither a racing retry, nor a second attempt of the job, nor a    *)
(* failure under any await, nor a restart.                                 *)
(***************************************************************************)
PaidOrdersHaveReference ==
    \A o \in Orders :
        visited[o] \cap PaidStatuses # {} => payment[o].reference

(***************************************************************************)
(* Every charge is accounted for: the provider is never asked more often   *)
(* than attemptCount says, for any overlap of jobs on one order.           *)
(***************************************************************************)
ChargesAreCounted == \A o \in Orders : charges[o] <= attemptCount[o]

\* A request that will move the order and queue its payment.
Requesting(p, o) ==
    handler[p].order = o /\ handler[p].pc \in {"placing", "resetting", "enqueuing"}

(***************************************************************************)
(* A job or a handler that still works towards the payment of the order.   *)
(***************************************************************************)
Pursued(o) ==
    \/ \E j \in Jobs : jobs[j].state # "free" /\ jobs[j].data.order = o
    \/ \E p \in Procs : Requesting(p, o)

\* The order waits for its payment.
Waits(o) == status[o] \in {"PENDING", "PAYMENT_PENDING"}

\* A worker that will move the order or queue a job to do so.
Serving(w, o) ==
    /\ handler[w].order = o
    /\ \/ handler[w].pc \in {"loading", "counting", "simulating", "settling",
                              "delaying", "readding"}
       \/ At(w, "recording") /\ call[w].pc \in {"read", "write", "threw"}

\* A job about the order that waits for a worker.
Queued(j, o) == jobs[j].state = "waiting" /\ jobs[j].data.order = o

\* Everybody who has the payment of the order in hand.
Served(o) ==
    \/ \E p \in Procs : Requesting(p, o) \/ Serving(p, o)
    \/ \E j \in Jobs : Queued(j, o)
    \/ \E letter \in letters \cup deadLetters : letter.data.order = o

\* The two ways to lose the order: a request fails between its move and its job,
\* or the process dies with the request or the dead letter.
LosesOrder(o) ==
    \/ \E p \in Api : Requesting(p, o) /\ (HandlerThrows(p) \/ FailInHandler(p) \/ Crash)
    \/ Crash /\ \E letter \in letters : letter.data.order = o

(***************************************************************************)
(* An order that waits for its payment is forgotten in no other way.  No   *)
(* worker ever drops it: whatever fails under its awaits, however jobs,    *)
(* attempts and retries overlap, and over a restart, the next one to see   *)
(* to the order is there before the last one lets go.  createOrder and     *)
(* retryPayment, which move the order first and add the job after, and the *)
(* dead letter, which nobody awaits, are the places where it can be lost.  *)
(***************************************************************************)
NoOrderForgotten ==
    [][\A o \in Orders :
          Waits(o)' /\ (Waits(o) => Served(o)) => Served(o)' \/ LosesOrder(o)]_vars

(***************************************************************************)
(* The order's page offers Retry payment for a FAILED payment, the API     *)
(* retries PAYMENT_FAILED orders: whenever the button is there, either it  *)
(* works or a job or handler is still moving the order.  Holds when        *)
(* requests come one at a time and nothing fails: a death of the process   *)
(* inside retryPayment leaves the button on an order it is refused for.    *)
(***************************************************************************)
RetryIsOfferedForCause ==
    \A o \in Orders :
        status[o] # NoRow /\ CanRetryPayment(payment[o].status) =>
            status[o] = "PAYMENT_FAILED" \/ Pursued(o)

(***************************************************************************)
(* The two rows agree: a paid order has a SUCCEEDED payment, and an order  *)
(* whose payment failed has a FAILED one.  Holds when requests for the     *)
(* order come one at a time, however jobs, retries and attempts overlap.   *)
(***************************************************************************)
RowsAgree ==
    \A o \in Orders :
        /\ status[o] \in PaidStatuses => payment[o].status = "SUCCEEDED"
        /\ status[o] = "PAYMENT_FAILED" => payment[o].status = "FAILED"

\* Without faults a customer is charged once, whatever the scenarios and the
\* retries were.
ChargedOnce == \A o \in Orders : charges[o] <= 1

(***************************************************************************)
(* Every transitionOrder of these handlers is a behaviour of the lifecycle *)
(* component, so what holds there for any caller holds here.               *)
(***************************************************************************)
CallsTheLifecycle == LifecycleSpec

(***************************************************************************)
(* Checkout comes to an end: an order that is placed leaves PENDING and    *)
(* PAYMENT_PENDING.                                                        *)
(***************************************************************************)
PaymentSettles ==
    \A o \in Orders : Waits(o) ~> ~Waits(o)

(***************************************************************************)
(* Every job comes to an end: it completes or has failed for good,         *)
(* whatever fails under it and over a restart.                             *)
(***************************************************************************)
JobsEnd == \A j \in Jobs : jobs[j].state # "free" ~> jobs[j].state = "free"
=============================================================================
