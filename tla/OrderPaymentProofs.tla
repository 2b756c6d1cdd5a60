------------------------- MODULE OrderPaymentProofs -------------------------
(***************************************************************************)
(* Proofs about OrderPayment for any number of orders, requests in flight, *)
(* worker slots and jobs, and for any bounds on faults and crashes.        *)
(***************************************************************************)
EXTENDS OrderPayment, OrderLifecycleProofs

-----------------------------------------------------------------------------
(* The inductive invariant. *)

\* Requests and workers each stay in the code of their own handlers, a busy
\* handler works on an order, and only a handler that is inside
\* transitionOrder has a call.
HandlersOK ==
    \A p \in Procs :
        /\ p \in Api => handler[p].pc \in {"idle", "placing", "answering",
                                          "resetting", "enqueuing"}
        /\ p \in PaymentWorkers => handler[p].pc \in
              {"idle", "loading", "counting", "simulating", "settling",
               "recording", "delaying", "rereading", "done"}
        /\ p \in RetryWorkers => handler[p].pc \in {"idle", "readding", "done"}
        /\ handler[p].pc # "idle" => handler[p].order \in Orders
        /\ call[p].pc # "idle" => handler[p].pc \in {"placing", "answering",
                                                    "resetting", "recording"}

\* A job that exists carries payment data; a busy worker has an active job, and
\* no other worker has the same one.
JobsOK ==
    /\ \A j \in Jobs : jobs[j].state # "free" => jobs[j].data \in JobData
    /\ \A w \in Workers : handler[w].pc # "idle" =>
          handler[w].job \in Jobs /\ jobs[handler[w].job].state = "active"
    /\ \A v, w \in Workers :
          handler[v].pc # "idle" /\ handler[w].pc # "idle"
          /\ handler[v].job = handler[w].job => v = w

\* A caller that is about to make an order PAID has the reference behind it.
CallsArePaid ==
    \A p \in Procs :
        call[p].pc \in {"read", "write"} /\ call[p].next = "PAID" =>
            payment[call[p].order].reference

PaymentInv ==
    /\ LifecycleInv
    /\ PaymentTypeOK
    /\ HandlersOK
    /\ JobsOK
    /\ CallsArePaid
    /\ PaidOrdersHaveReference

-----------------------------------------------------------------------------
(* Every handler is a caller of the lifecycle component. *)

\* A step of the handlers is a step of the lifecycle or leaves it alone.
LEMMA StepsCallTheLifecycle ==
  ASSUME PaymentInv, [Next]_vars
  PROVE  [LifecycleNext]_lifecycleVars
  <1>1. ASSUME NEW p \in Procs, CallStep(p)
        PROVE  LifecycleNext
    BY <1>1 DEF CallStep, LifecycleNext, CallerStep
  <1>2. ASSUME NEW p \in Procs, ApiStep(p)
        PROVE  [LifecycleNext]_lifecycleVars
    BY <1>2 DEF ApiStep, EnqueueFirstPayment, EnqueueRetriedPayment, AnswerMove,
                ResetPayment, LifecycleNext, CallerStep
  <1>3. ASSUME NEW p \in Procs, WorkerStep(p)
        PROVE  [LifecycleNext]_lifecycleVars
    <2>1. CASE SettleSuccess(p) \/ SettleFailure(p)
      <3>1. handler[p].order \in Orders
        BY <2>1 DEF PaymentInv, HandlersOK, SettleSuccess, SettleFailure, At
      <3>2. QED
        BY <2>1, <3>1, PaymentAssumption
           DEF SettleSuccess, SettleFailure, LifecycleNext, CallerStep,
               PaymentTargets
    <2>2. CASE RecordOutcome(p)
      BY <2>2 DEF RecordOutcome, LifecycleNext, CallerStep
    <2>3. CASE ~(SettleSuccess(p) \/ SettleFailure(p) \/ RecordOutcome(p))
      BY <1>3, <2>3 DEF WorkerStep, TakePayment, TakeRetry, DelayRetry,
         ReaddPayment, LoadOrder, CountAttempt, Simulate, SettleTimeout, FinishJob
    <2>4. QED  BY <2>1, <2>2, <2>3
  <1>4. ASSUME NEW p \in Procs, HandlerThrows(p) \/ FaultStep(p)
        PROVE  [LifecycleNext]_lifecycleVars
    BY <1>4 DEF HandlerThrows, FaultStep, FailInCall, FailInHandler,
                LifecycleNext, CallerStep
  <1>5. ASSUME NEW p \in Procs, ClientStep(p)
        PROVE  LifecycleNext
    BY <1>5, PaymentAssumption
       DEF ClientStep, PlaceOrder, RequestRetry, RequestMove, LifecycleNext,
           CallerStep, TargetOf, PaymentTargets
  <1>6. CASE Crash
    BY <1>6 DEF Crash, LifecycleNext
  <1>7. CASE UNCHANGED vars \/ PostDeadLetter
    BY <1>7 DEF vars, PostDeadLetter, lifecycleVars
  <1>8. QED
    BY <1>1, <1>2, <1>3, <1>4, <1>5, <1>6, <1>7 DEF Next, ProcStep

-----------------------------------------------------------------------------
(* The invariant holds initially. *)

LEMMA PaymentInitInv == Init => PaymentInv
  <1> SUFFICES ASSUME Init
               PROVE  PaymentInv
    OBVIOUS
  <1>1. LifecycleInv
    BY LifecycleInitInv DEF Init
  <1>2. PaymentTypeOK
    <2>1. QueueTypeOK(JobData)
      BY DEF Init, QueueInit, QueueTypeOK, JobRecords, FreeJob
    <2>2. handler \in [Procs -> Handlers]
      BY DEF Init, IdleHandler, Handlers, AllScenarios
    <2>3. payment \in [Orders -> [status : PaymentStatuses, reference : BOOLEAN]]
      BY DEF Init, PaymentStatuses
    <2>4. QED
      BY <1>1, <2>1, <2>2, <2>3 DEF LifecycleInv, Init, PaymentTypeOK
  <1>3. HandlersOK /\ JobsOK /\ CallsArePaid /\ PaidOrdersHaveReference
    BY PaymentAssumption
       DEF Init, LifecycleInit, QueueInit, HandlersOK, JobsOK, CallsArePaid,
           PaidOrdersHaveReference, FreeJob, IdleHandler, IdleCall, Workers
  <1>4. QED  BY <1>1, <1>2, <1>3 DEF PaymentInv

-----------------------------------------------------------------------------
(* Types. *)

\* A job that is added is a job.
LEMMA AddJobType ==
  ASSUME QueueTypeOK(JobData), NEW j \in Jobs, NEW q \in QueueNames,
         NEW data \in JobData, NEW n \in Nat, AddJob(j, q, data, n)
  PROVE  QueueTypeOK(JobData)'
  <1>1. [state |-> "waiting", queue |-> q, data |-> data, left |-> n]
          \in JobRecords(JobData)
    BY DEF JobRecords
  <1>2. QED  BY <1>1 DEF QueueTypeOK, AddJob

\* A handler that goes on to another of its awaits is a handler.
LEMMA ProceedType ==
  ASSUME handler \in [Procs -> Handlers], NEW p \in Procs,
         NEW pc \in {"enqueuing", "counting", "simulating", "settling",
                     "recording", "delaying", "rereading", "done"},
         Proceed(p, pc)
  PROVE  handler' \in [Procs -> Handlers]
  BY DEF Proceed, Handlers

\* A handler that starts is a handler.
LEMMA StartType ==
  ASSUME handler \in [Procs -> Handlers], NEW p \in Procs, NEW o \in Orders,
         NEW pc \in {"placing", "answering", "resetting", "loading", "readding"},
         NEW j \in Jobs \cup {NoJob}, NEW scenario \in AllScenarios,
         Start(p, pc, o, j, scenario)
  PROVE  handler' \in [Procs -> Handlers]
  BY DEF Start, Handlers

\* A request that was accepted keeps the types.
LEMMA ApiTypes ==
  ASSUME PaymentInv, NEW p \in Procs, ApiStep(p), LifecycleTypeOK'
  PROVE  PaymentTypeOK'
  <1> USE DEF PaymentInv, PaymentTypeOK, QueueTypeOK, lifecycleVars, queueVars,
              paymentVars, bounds
  <1>1. ASSUME NEW j \in Jobs,
               EnqueueFirstPayment(p, j) \/ EnqueueRetriedPayment(p, j)
        PROVE  PaymentTypeOK'
    <2>1. handler[p].order \in Orders
      BY <1>1 DEF EnqueueFirstPayment, EnqueueRetriedPayment, At, HandlersOK
    <2>2. Payload(handler[p].order, handler[p].scenario, 0) \in JobData
      BY <2>1 DEF Payload, JobData, Handlers
    <2>3. QueueTypeOK(JobData)'
      BY <1>1, <2>2, AddJobType
         DEF EnqueueFirstPayment, EnqueueRetriedPayment, QueueNames
    <2>4. QED
      BY <1>1, <2>3 DEF EnqueueFirstPayment, EnqueueRetriedPayment, Stop,
                        Handlers, IdleHandler, AllScenarios
  <1>2. CASE AnswerMove(p)
    BY <1>2 DEF AnswerMove, Stop, Handlers, IdleHandler, AllScenarios
  <1>3. CASE ResetPayment(p)
    <2>1. payment' \in [Orders -> [status : PaymentStatuses, reference : BOOLEAN]]
      BY <1>3 DEF ResetPayment, PaymentStatuses
    <2>2. handler' \in [Procs -> Handlers]
      BY <1>3, ProceedType DEF ResetPayment
    <2>3. QED  BY <1>3, <2>1, <2>2 DEF ResetPayment
  <1>4. QED  BY <1>1, <1>2, <1>3 DEF ApiStep

\* A worker keeps the types.
LEMMA WorkerTypes ==
  ASSUME PaymentInv, NEW w \in Procs, WorkerStep(w), LifecycleTypeOK'
  PROVE  PaymentTypeOK'
  <1> USE DEF PaymentInv, PaymentTypeOK, QueueTypeOK, lifecycleVars, queueVars,
              paymentVars, bounds
  <1>1. ASSUME NEW j \in Jobs, TakePayment(w, j) \/ TakeRetry(w, j)
        PROVE  PaymentTypeOK'
    <2>1. jobs[j].data \in JobData
      BY <1>1 DEF TakePayment, TakeRetry, TakeJob, Waiting, JobsOK
    <2>2. QueueTypeOK(JobData)'
      BY <1>1 DEF TakePayment, TakeRetry, TakeJob, JobRecords
    <2>3. handler' \in [Procs -> Handlers]
      BY <1>1, <2>1, StartType DEF TakePayment, TakeRetry, JobData
    <2>4. QED  BY <1>1, <2>2, <2>3 DEF TakePayment, TakeRetry
  <1>2. ASSUME NEW j \in Jobs, DelayRetry(w, j) \/ ReaddPayment(w, j)
        PROVE  PaymentTypeOK'
    <2>1. /\ w \in Workers
          /\ handler[w].order \in Orders
          /\ handler[w].job \in Jobs
          /\ jobs[handler[w].job].data \in JobData
      BY <1>2, PaymentAssumption
         DEF DelayRetry, ReaddPayment, At, HandlersOK, JobsOK, Workers
    <2>2. /\ Payload(handler[w].order, "success", 1) \in JobData
          /\ Payload(handler[w].order, "success",
                     jobs[handler[w].job].data.retryCount + 1) \in JobData
      BY <2>1 DEF Payload, JobData, AllScenarios
    <2>3. QueueTypeOK(JobData)'
      BY <1>2, <2>2, AddJobType DEF DelayRetry, ReaddPayment, QueueNames
    <2>4. handler' \in [Procs -> Handlers]
      BY <1>2, ProceedType DEF DelayRetry, ReaddPayment
    <2>5. QED  BY <1>2, <2>3, <2>4 DEF DelayRetry, ReaddPayment
  <1>3. CASE LoadOrder(w) \/ CountAttempt(w) \/ Simulate(w) \/ RecordOutcome(w)
    <2>1. handler' \in [Procs -> Handlers]
      BY <1>3, ProceedType DEF LoadOrder, CountAttempt, Simulate, RecordOutcome
    <2>2. attemptCount' \in [Orders -> Nat] /\ charges' \in [Orders -> Nat]
      BY <1>3 DEF LoadOrder, CountAttempt, Simulate, RecordOutcome
    <2>3. QED
      BY <1>3, <2>1, <2>2 DEF LoadOrder, CountAttempt, Simulate, RecordOutcome
  <1>4. CASE SettleSuccess(w) \/ SettleFailure(w) \/ SettleTimeout(w)
    <2>1. handler' \in [Procs -> Handlers]
      BY <1>4, ProceedType DEF SettleSuccess, SettleFailure, SettleTimeout
    <2>2. payment' \in [Orders -> [status : PaymentStatuses, reference : BOOLEAN]]
      <3>1. CASE SettleSuccess(w)
        BY <3>1 DEF SettleSuccess, PaymentStatuses
      <3>2. CASE SettleFailure(w)
        BY <3>2 DEF SettleFailure, PaymentStatuses
      <3>3. CASE SettleTimeout(w)
        BY <3>3 DEF SettleTimeout, PaymentStatuses
      <3>4. QED  BY <1>4, <3>1, <3>2, <3>3
    <2>3. QED
      BY <1>4, <2>1, <2>2 DEF SettleSuccess, SettleFailure, SettleTimeout
  <1>5. CASE FinishJob(w)
    <2>1. handler' \in [Procs -> Handlers]
      BY <1>5 DEF FinishJob, Stop, Handlers, IdleHandler, AllScenarios
    <2>2. QueueTypeOK(JobData)'
      BY <1>5 DEF FinishJob, CompleteJob, FreeJob, JobRecords
    <2>3. QED  BY <1>5, <2>1, <2>2 DEF FinishJob
  <1>6. QED  BY <1>1, <1>2, <1>3, <1>4, <1>5 DEF WorkerStep

\* An exception that leaves a busy handler keeps the types of what it touches.
LEMMA UnwindTypes ==
  ASSUME PaymentInv, NEW p \in Procs, handler[p].pc # "idle", Unwind(p)
  PROVE  QueueTypeOK(JobData)' /\ handler' \in [Procs -> Handlers]
  <1> USE DEF PaymentInv, PaymentTypeOK, QueueTypeOK, Unwind
  <1>1. handler' \in [Procs -> Handlers]
    BY DEF Stop, Handlers, IdleHandler, AllScenarios
  <1>2. CASE p \notin Workers
    BY <1>1, <1>2 DEF queueVars
  <1>3. CASE p \in Workers
    <2>1. handler[p].job \in Jobs
      BY <1>3 DEF JobsOK
    <2>2. CASE RetryJob(handler[p].job)
      BY <1>1, <2>1, <2>2 DEF RetryJob, JobRecords
    <2>3. CASE DeadLetterJob(handler[p].job)
      BY <1>1, <2>1, <2>3 DEF DeadLetterJob, FreeJob, JobRecords, DeadLetterRecords
    <2>4. QED  BY <1>3, <2>2, <2>3 DEF FailJob
  <1>4. QED  BY <1>2, <1>3

\* Clients, faults and crashes keep the types.
LEMMA OtherTypes ==
  ASSUME PaymentInv, LifecycleTypeOK',
         \/ Crash
         \/ PostDeadLetter
         \/ UNCHANGED vars
         \/ \E p \in Procs : CallStep(p) \/ ClientStep(p) \/ HandlerThrows(p) \/ FaultStep(p)
  PROVE  PaymentTypeOK'
  <1> USE DEF PaymentInv, PaymentTypeOK, lifecycleVars, queueVars, paymentVars, bounds
  <1>1. ASSUME NEW p \in Procs, ClientStep(p)
        PROVE  PaymentTypeOK'
    <2>1. Scenarios \subseteq AllScenarios /\ "success" \in AllScenarios
      BY PaymentAssumption DEF AllScenarios
    <2>2. handler' \in [Procs -> Handlers]
      BY <1>1, <2>1, StartType DEF ClientStep, PlaceOrder, RequestRetry, RequestMove
    <2>3. QED
      BY <1>1, <2>2 DEF ClientStep, PlaceOrder, RequestRetry, RequestMove,
                        AcceptRequest, QueueTypeOK
  <1>2. ASSUME NEW p \in Procs, HandlerThrows(p) \/ FailInHandler(p)
        PROVE  PaymentTypeOK'
    <2>1. handler[p].pc # "idle" /\ Unwind(p)
      BY <1>2 DEF HandlerThrows, FailInHandler, HandlersOK
    <2>2. QueueTypeOK(JobData)' /\ handler' \in [Procs -> Handlers]
      BY <2>1, UnwindTypes
    <2>3. QED
      BY <1>2, <2>2 DEF HandlerThrows, FailInHandler, Fault
  <1>3. ASSUME NEW p \in Procs, CallStep(p) \/ FailInCall(p)
        PROVE  PaymentTypeOK'
    BY <1>3 DEF CallStep, FailInCall, Fault, QueueTypeOK
  <1>4. CASE Crash
    <2>1. QueueTypeOK(JobData)'
      BY <1>4 DEF Crash, RedeliverActiveJobs, QueueTypeOK, JobRecords
    <2>2. handler' \in [Procs -> Handlers]
      BY <1>4 DEF Crash, Handlers, IdleHandler, AllScenarios
    <2>3. QED  BY <1>4, <2>1, <2>2 DEF Crash
  <1>5. CASE UNCHANGED vars
    BY <1>5 DEF vars, QueueTypeOK
  <1>6. CASE PostDeadLetter
    BY <1>6 DEF PostDeadLetter, PostLetter, QueueTypeOK
  <1>7. QED  BY <1>1, <1>2, <1>3, <1>4, <1>5, <1>6 DEF FaultStep

-----------------------------------------------------------------------------
(* References. *)

\* A provider reference is never taken back.
LEMMA ReferencesStay ==
  ASSUME PaymentInv, [Next]_vars, NEW o \in Orders, payment[o].reference
  PROVE  payment'[o].reference
  <1> USE DEF PaymentInv, PaymentTypeOK, paymentVars
  <1>1. ASSUME NEW p \in Procs, ApiStep(p)
        PROVE  payment'[o].reference
    BY <1>1 DEF ApiStep, EnqueueFirstPayment, EnqueueRetriedPayment, AnswerMove,
                ResetPayment
  <1>2. ASSUME NEW w \in Procs, WorkerStep(w)
        PROVE  payment'[o].reference
    <2>1. CASE SettleSuccess(w)
      BY <2>1 DEF SettleSuccess
    <2>2. CASE SettleFailure(w)
      BY <2>2 DEF SettleFailure
    <2>3. CASE SettleTimeout(w)
      BY <2>3 DEF SettleTimeout
    <2>4. CASE ~(SettleSuccess(w) \/ SettleFailure(w) \/ SettleTimeout(w))
      BY <1>2, <2>4 DEF WorkerStep, TakePayment, TakeRetry, DelayRetry,
         ReaddPayment, LoadOrder, CountAttempt, Simulate, RecordOutcome, FinishJob
    <2>5. QED  BY <2>1, <2>2, <2>3, <2>4
  <1>3. CASE Crash \/ PostDeadLetter \/ UNCHANGED vars
    BY <1>3 DEF Crash, PostDeadLetter, vars
  <1>4. ASSUME NEW p \in Procs,
               CallStep(p) \/ HandlerThrows(p) \/ FaultStep(p) \/ ClientStep(p)
        PROVE  payment'[o].reference
    BY <1>4 DEF CallStep, HandlerThrows, FaultStep, FailInCall, FailInHandler,
                ClientStep, PlaceOrder, RequestRetry, RequestMove
  <1>5. QED  BY <1>1, <1>2, <1>3, <1>4 DEF Next, ProcStep

\* Only SettleSuccess asks for PAID, and it has just written the reference.
LEMMA CallsArePaidStep ==
  ASSUME PaymentInv, LifecycleInv', [Next]_vars
  PROVE  CallsArePaid'
  <1> SUFFICES ASSUME NEW q \in Procs, call'[q].pc \in {"read", "write"},
                      call'[q].next = "PAID"
               PROVE  payment'[call'[q].order].reference
    BY DEF CallsArePaid
  <1> USE DEF PaymentInv, PaymentTypeOK, LifecycleTypeOK
  \* A call that was under way before the step.
  <1>1. CASE /\ call[q].pc \in {"read", "write"}
             /\ call[q].next = "PAID"
             /\ call'[q].order = call[q].order
    <2>1. call[q].order \in Orders
      BY <1>1 DEF LifecycleInv, WritesAreChecked
    <2>2. payment[call[q].order].reference
      BY <1>1 DEF CallsArePaid
    <2>3. QED  BY <1>1, <2>1, <2>2, ReferencesStay
  <1>2. ASSUME NEW p \in Procs, CallStep(p)
        PROVE  payment'[call'[q].order].reference
    <2>1. /\ call[q].pc \in {"read", "write"}
          /\ call[q].next = "PAID"
          /\ call'[q].order = call[q].order
      <3>1. CASE q = p
        BY <1>2, <3>1 DEF CallStep, ReadOrder, RefuseMove, WriteStatus, Announce, Calls
      <3>2. CASE q # p
        BY <1>2, <3>2 DEF CallStep, ReadOrder, RefuseMove, WriteStatus, Announce
      <3>3. QED  BY <3>1, <3>2
    <2>2. QED  BY <2>1, <1>1
  <1>3. ASSUME NEW p \in Procs, ClientStep(p)
        PROVE  payment'[call'[q].order].reference
    <2>1. CASE q = p
      BY <1>3, <2>1 DEF ClientStep, PlaceOrder, RequestRetry, RequestMove, Insert,
                        Invoke, NewCall, TargetOf
    <2>2. CASE q # p
      BY <1>1, <1>3, <2>2 DEF ClientStep, PlaceOrder, RequestRetry, RequestMove,
                              Insert, Invoke
    <2>3. QED  BY <2>1, <2>2
  <1>4. ASSUME NEW w \in Procs, SettleSuccess(w)
        PROVE  payment'[call'[q].order].reference
    <2>1. CASE q = w
      <3>1. handler[w].order \in Orders
        BY <1>4 DEF SettleSuccess, At, HandlersOK
      <3>2. call'[q].order = handler[w].order
        BY <1>4, <2>1 DEF SettleSuccess, Invoke, NewCall
      <3>3. QED  BY <1>4, <3>1, <3>2 DEF SettleSuccess
    <2>2. CASE q # w
      BY <1>1, <1>4, <2>2 DEF SettleSuccess, Invoke
    <2>3. QED  BY <2>1, <2>2
  <1>5. ASSUME NEW w \in Procs, SettleFailure(w)
        PROVE  payment'[call'[q].order].reference
    <2>1. q # w
      <3>1. call' = [call EXCEPT ![w] = NewCall(handler[w].order, "PAYMENT_FAILED")]
        BY <1>5 DEF SettleFailure, Invoke
      <3>2. QED  BY <3>1 DEF NewCall
    <2>2. QED  BY <1>1, <1>5, <2>1 DEF SettleFailure, Invoke
  <1>6. ASSUME NEW p \in Procs, Return(p) \/ LoseCall(p)
        PROVE  payment'[call'[q].order].reference
    <2>1. q # p
      BY <1>6 DEF Return, LoseCall, IdleCall, Calls
    <2>2. QED  BY <1>1, <1>6, <2>1 DEF Return, LoseCall
  <1>7. CASE LoseAllCalls
    BY <1>7 DEF LoseAllCalls, IdleCall
  <1>8. CASE UNCHANGED call
    BY <1>1, <1>8
  <1>9. QED
    BY <1>2, <1>3, <1>4, <1>5, <1>6, <1>7, <1>8
       DEF Next, ProcStep, ApiStep, EnqueueFirstPayment, EnqueueRetriedPayment,
           AnswerMove, ResetPayment, WorkerStep, TakePayment, TakeRetry,
           DelayRetry, ReaddPayment, LoadOrder, CountAttempt, Simulate,
           RecordOutcome, SettleTimeout, FinishJob, HandlerThrows, FaultStep,
           FailInCall, FailInHandler, PostDeadLetter, Crash, vars, lifecycleVars

\* A status that needs a payment is entered from one that does, or is PAID.
LEMMA PaidIsEnteredByPaid ==
  ASSUME NEW s \in Statuses, NEW t \in PaidStatuses, Allowed(s, t)
  PROVE  s \in PaidStatuses \/ t = "PAID"
  BY DEF Allowed, Transitions, PaidStatuses, Statuses

\* An order that enters a paid status has its reference.
LEMMA PaidOrdersStep ==
  ASSUME PaymentInv, [Next]_vars
  PROVE  PaidOrdersHaveReference'
  <1> SUFFICES ASSUME NEW o \in Orders, NEW t \in PaidStatuses, t \in visited'[o]
               PROVE  payment'[o].reference
    BY DEF PaidOrdersHaveReference, PaidStatuses
  <1> USE DEF PaymentInv, LifecycleInv, LifecycleTypeOK
  <1>1. CASE t \in visited[o]
    BY <1>1, ReferencesStay DEF PaidOrdersHaveReference
  <1>2. CASE t \notin visited[o]
    <2>1. [LifecycleNext]_lifecycleVars
      BY StepsCallTheLifecycle
    <2>2. PICK p \in Procs : WriteStatus(p) /\ call[p].order = o /\ call[p].next = t
      <3>1. t \in Statuses \ {"PENDING"}
        BY DEF PaidStatuses, Statuses
      <3>2. QED  BY <1>2, <2>1, <3>1, NewStatusIsWritten
    <2>3. /\ call[p].seen \in visited[o]
          /\ call[p].seen \in Statuses
          /\ Allowed(call[p].seen, t)
      BY <2>2 DEF WriteStatus, WritesAreChecked
    <2>4. payment[o].reference
      <3>1. CASE t = "PAID"
        BY <2>2, <3>1 DEF CallsArePaid, WriteStatus
      <3>2. CASE call[p].seen \in PaidStatuses
        BY <2>3, <3>2 DEF PaidOrdersHaveReference
      <3>3. QED  BY <2>3, <3>1, <3>2, PaidIsEnteredByPaid
    <2>5. QED  BY <2>4, ReferencesStay
  <1>3. QED  BY <1>1, <1>2

-----------------------------------------------------------------------------
(* Control of the handlers. *)

\* A handler that starts, goes on or stops stays in its own code.
LEMMA HandlersStep ==
  ASSUME PaymentInv, [Next]_vars
  PROVE  HandlersOK'
  <1> SUFFICES ASSUME NEW q \in Procs
               PROVE  HandlersOK!(q)'
    BY DEF HandlersOK
  <1> USE DEF PaymentInv, PaymentTypeOK, LifecycleTypeOK
  <1>0. HandlersOK!(q)
    BY DEF HandlersOK
  <1>1. CASE handler'[q] = handler[q] /\ (call'[q].pc # "idle" => call[q].pc # "idle")
    BY <1>0, <1>1
  <1>2. CASE handler'[q] = IdleHandler /\ call'[q].pc = "idle"
    BY <1>2 DEF IdleHandler
  <1>3. ASSUME NEW p \in Procs, CallStep(p) \/ FailInCall(p)
        PROVE  HandlersOK!(q)'
    <2>1. call'[q].pc # "idle" => call[q].pc # "idle"
      BY <1>3 DEF CallStep, FailInCall, ReadOrder, RefuseMove, WriteStatus,
                  Announce, LoseCall
    <2>2. QED  BY <1>1, <1>3, <2>1 DEF CallStep, FailInCall
  <1>4. ASSUME NEW p \in Procs, ClientStep(p)
        PROVE  HandlersOK!(q)'
    <2>1. CASE q = p
      BY <1>4, <2>1, PaymentAssumption
         DEF ClientStep, PlaceOrder, RequestRetry, RequestMove, Start
    <2>2. CASE q # p
      BY <1>1, <1>4, <2>2 DEF ClientStep, PlaceOrder, RequestRetry, RequestMove,
                              Start, Insert, Invoke
    <2>3. QED  BY <2>1, <2>2
  <1>5. ASSUME NEW p \in Procs, ApiStep(p)
        PROVE  HandlersOK!(q)'
    <2>1. CASE q = p
      <3>1. ASSUME NEW j \in Jobs, EnqueueFirstPayment(p, j)
            PROVE  HandlersOK!(q)'
        BY <1>2, <2>1, <3>1 DEF EnqueueFirstPayment, Return, Stop, IdleCall
      <3>2. ASSUME NEW j \in Jobs, EnqueueRetriedPayment(p, j)
            PROVE  HandlersOK!(q)'
        <4>1. call'[q].pc = "idle"
          BY <1>0, <2>1, <3>2 DEF EnqueueRetriedPayment, At, lifecycleVars
        <4>2. QED  BY <1>2, <2>1, <3>2, <4>1 DEF EnqueueRetriedPayment, Stop
      <3>3. CASE AnswerMove(p)
        BY <1>2, <2>1, <3>3 DEF AnswerMove, Return, Stop, IdleCall
      <3>4. CASE ResetPayment(p)
        BY <1>0, <2>1, <3>4, PaymentAssumption
           DEF ResetPayment, At, Return, Proceed, IdleCall, Handlers
      <3>5. QED  BY <1>5, <3>1, <3>2, <3>3, <3>4 DEF ApiStep
    <2>2. CASE q # p
      BY <1>1, <1>5, <2>2
         DEF ApiStep, EnqueueFirstPayment, EnqueueRetriedPayment, AnswerMove,
             ResetPayment, Return, Stop, Proceed, lifecycleVars
    <2>3. QED  BY <2>1, <2>2
  <1>6. ASSUME NEW w \in Procs, WorkerStep(w)
        PROVE  HandlersOK!(q)'
    <2>1. CASE q # w
      BY <1>1, <1>6, <2>1
         DEF WorkerStep, TakePayment, TakeRetry, DelayRetry, ReaddPayment, Start,
             LoadOrder, CountAttempt, Simulate, SettleSuccess, SettleFailure,
             SettleTimeout, RecordOutcome, FinishJob, Proceed, Stop, Return,
             Invoke, lifecycleVars
    <2>2. CASE q = w
      <3>1. ASSUME NEW j \in Jobs, TakePayment(w, j) \/ TakeRetry(w, j)
            PROVE  HandlersOK!(q)'
        <4>1. jobs[j].data.order \in Orders
          BY <3>1 DEF TakePayment, TakeRetry, TakeJob, Waiting, JobsOK, JobData
        <4>2. call'[q].pc = "idle"
          BY <1>0, <2>2, <3>1 DEF TakePayment, TakeRetry, Start, At, lifecycleVars
        <4>3. QED
          BY <2>2, <3>1, <4>1, <4>2, PaymentAssumption
             DEF TakePayment, TakeRetry, Start
      <3>2. CASE SettleSuccess(w) \/ SettleFailure(w)
        BY <1>0, <2>2, <3>2, PaymentAssumption
           DEF SettleSuccess, SettleFailure, At, Proceed, Handlers
      <3>3. CASE RecordOutcome(w)
        BY <1>0, <2>2, <3>3, PaymentAssumption
           DEF RecordOutcome, At, Proceed, Return, IdleCall, Handlers
      <3>4. CASE FinishJob(w)
        BY <1>0, <2>2, <3>4 DEF FinishJob, At, Stop, IdleHandler, lifecycleVars
      <3>5. ASSUME NEW j \in Jobs, DelayRetry(w, j) \/ ReaddPayment(w, j)
            PROVE  HandlersOK!(q)'
        BY <1>0, <2>2, <3>5, PaymentAssumption
           DEF DelayRetry, ReaddPayment, At, Proceed, Handlers, lifecycleVars
      <3>6. CASE LoadOrder(w) \/ CountAttempt(w) \/ Simulate(w) \/ SettleTimeout(w)
        BY <1>0, <2>2, <3>6, PaymentAssumption
           DEF LoadOrder, CountAttempt, Simulate, SettleTimeout, At, Proceed,
               Handlers, lifecycleVars
      <3>7. QED
        BY <1>6, <3>1, <3>2, <3>3, <3>4, <3>5, <3>6 DEF WorkerStep
    <2>3. QED  BY <2>1, <2>2
  <1>7. ASSUME NEW p \in Procs, HandlerThrows(p) \/ FailInHandler(p)
        PROVE  HandlersOK!(q)'
    <2>1. CASE q = p
      BY <1>2, <1>7, <2>1 DEF HandlerThrows, FailInHandler, Unwind, Stop, Return,
                              IdleCall, lifecycleVars
    <2>2. CASE q # p
      BY <1>1, <1>7, <2>2 DEF HandlerThrows, FailInHandler, Unwind, Stop, Return,
                              lifecycleVars
    <2>3. QED  BY <2>1, <2>2
  <1>8. CASE Crash
    BY <1>2, <1>8 DEF Crash, LoseAllCalls, IdleCall
  <1>9. CASE UNCHANGED vars \/ PostDeadLetter
    BY <1>1, <1>9 DEF vars, PostDeadLetter, lifecycleVars
  <1>10. QED
    BY <1>3, <1>4, <1>5, <1>6, <1>7, <1>8, <1>9 DEF Next, ProcStep, FaultStep

-----------------------------------------------------------------------------
(* Jobs and the workers that hold them. *)

\* A handler that goes on keeps its job.
LEMMA ProceedKeepsJob ==
  ASSUME handler \in [Procs -> Handlers], NEW p \in Procs, handler[p].pc # "idle",
         NEW pc, Proceed(p, pc)
  PROVE  /\ \A q \in Procs : handler'[q].job = handler[q].job
         /\ \A q \in Procs : handler'[q].pc # "idle" => handler[q].pc # "idle"
  BY DEF Proceed, Handlers

\* A step that frees no active job and starts no worker keeps JobsOK.
LEMMA JobsKept ==
  ASSUME PaymentInv,
         \A j \in Jobs : jobs'[j] = jobs[j] \/ jobs'[j].data \in JobData,
         \A j \in Jobs : jobs[j].state = "active" => jobs'[j].state = "active",
         \A w \in Workers : handler'[w].pc # "idle" =>
             handler[w].pc # "idle" /\ handler'[w].job = handler[w].job
  PROVE  JobsOK'
  <1> USE DEF PaymentInv, JobsOK
  <1>1. \A j \in Jobs : jobs'[j].state # "free" => jobs'[j].data \in JobData
    OBVIOUS
  <1>2. \A w \in Workers : handler'[w].pc # "idle" =>
          handler'[w].job \in Jobs /\ jobs'[handler'[w].job].state = "active"
    OBVIOUS
  <1>3. \A v, w \in Workers :
          handler'[v].pc # "idle" /\ handler'[w].pc # "idle"
          /\ handler'[v].job = handler'[w].job => v = w
    OBVIOUS
  <1>4. QED  BY <1>1, <1>2, <1>3

\* A worker that lets go of its job, however it ends, disturbs no other.
LEMMA JobsReleased ==
  ASSUME PaymentInv, NEW w \in Workers, handler[w].pc # "idle", Stop(w),
         CompleteJob(handler[w].job) \/ FailJob(handler[w].job)
  PROVE  JobsOK'
  <1> DEFINE j == handler[w].job
  <1> USE DEF PaymentInv, PaymentTypeOK, QueueTypeOK
  <1>1. w \in Procs /\ j \in Jobs
    BY PaymentAssumption DEF JobsOK, Workers
  <1>2. \A i \in Jobs : i # j => jobs'[i] = jobs[i]
    BY <1>1 DEF CompleteJob, FailJob, RetryJob, DeadLetterJob
  <1>3. jobs'[j].state # "free" => jobs'[j].data = jobs[j].data
    BY <1>1 DEF CompleteJob, FailJob, RetryJob, DeadLetterJob, FreeJob, JobRecords
  <1>4. jobs[j].data \in JobData
    BY <1>1 DEF JobsOK
  <1>5. handler'[w].pc = "idle"
    BY <1>1 DEF Stop, IdleHandler
  <1>6. \A v \in Workers : v # w => handler'[v] = handler[v]
    BY <1>1 DEF Stop
  <1>7. \A v \in Workers : handler'[v].pc # "idle" => v # w
    BY <1>5
  <1>8. \A v \in Workers : v # w /\ handler[v].pc # "idle" => handler[v].job # j
    BY DEF JobsOK
  <1>9. QED  BY <1>2, <1>3, <1>4, <1>6, <1>7, <1>8 DEF JobsOK

\* Every step keeps jobs and workers matched.
LEMMA JobsStep ==
  ASSUME PaymentInv, [Next]_vars
  PROVE  JobsOK'
  <1> USE DEF PaymentInv, PaymentTypeOK, QueueTypeOK
  <1>1. Workers \subseteq Procs
    BY PaymentAssumption DEF Workers
  <1>2. ASSUME NEW p \in Procs,
               CallStep(p) \/ FailInCall(p) \/ LoadOrder(p) \/ CountAttempt(p)
               \/ Simulate(p) \/ SettleSuccess(p) \/ SettleFailure(p)
               \/ SettleTimeout(p) \/ RecordOutcome(p) \/ ResetPayment(p)
        PROVE  JobsOK'
    <2>1. UNCHANGED jobs
      BY <1>2 DEF CallStep, FailInCall, LoadOrder, CountAttempt, Simulate,
         SettleSuccess, SettleFailure, SettleTimeout, RecordOutcome, ResetPayment,
         queueVars
    <2>2. \/ UNCHANGED handler
          \/ handler[p].pc # "idle" /\ \E pc : Proceed(p, pc)
      BY <1>2 DEF CallStep, FailInCall, LoadOrder, CountAttempt, Simulate,
         SettleSuccess, SettleFailure, SettleTimeout, RecordOutcome, ResetPayment, At
    <2>3. \A w \in Workers : handler'[w].pc # "idle" =>
            handler[w].pc # "idle" /\ handler'[w].job = handler[w].job
      BY <1>1, <2>2, ProceedKeepsJob
    <2>4. QED  BY <2>1, <2>3, JobsKept
  <1>3. ASSUME NEW p \in Procs, ClientStep(p) \/ AnswerMove(p)
        PROVE  JobsOK'
    <2>1. UNCHANGED jobs
      BY <1>3 DEF ClientStep, PlaceOrder, RequestRetry, RequestMove, AnswerMove,
                  queueVars
    <2>2. p \notin Workers
      BY <1>3, PaymentAssumption
         DEF ClientStep, PlaceOrder, RequestRetry, RequestMove, AnswerMove, At,
             HandlersOK, Workers
    <2>3. \A w \in Workers : handler'[w] = handler[w]
      BY <1>1, <1>3, <2>2
         DEF ClientStep, PlaceOrder, RequestRetry, RequestMove, AnswerMove, Start, Stop
    <2>4. QED  BY <2>1, <2>3, JobsKept
  <1>4. ASSUME NEW p \in Procs, NEW j \in Jobs,
               EnqueueFirstPayment(p, j) \/ EnqueueRetriedPayment(p, j)
        PROVE  JobsOK'
    <2>1. Payload(handler[p].order, handler[p].scenario, 0) \in JobData
      BY <1>4 DEF EnqueueFirstPayment, EnqueueRetriedPayment, At, HandlersOK,
                  Payload, JobData, Handlers
    <2>2. /\ jobs[j].state = "free"
          /\ \A i \in Jobs : i # j => jobs'[i] = jobs[i]
          /\ jobs'[j].data \in JobData
      BY <1>4, <2>1 DEF EnqueueFirstPayment, EnqueueRetriedPayment, AddJob
    <2>3. p \notin Workers
      BY <1>4, PaymentAssumption
         DEF EnqueueFirstPayment, EnqueueRetriedPayment, At, HandlersOK, Workers
    <2>4. \A w \in Workers : handler'[w] = handler[w]
      BY <1>1, <1>4, <2>3 DEF EnqueueFirstPayment, EnqueueRetriedPayment, Stop
    <2>5. QED  BY <2>2, <2>4, JobsKept
  <1>5. ASSUME NEW w \in Procs, NEW j \in Jobs, DelayRetry(w, j) \/ ReaddPayment(w, j)
        PROVE  JobsOK'
    <2>1. /\ w \in Workers
          /\ handler[w].order \in Orders
          /\ jobs[handler[w].job].data \in JobData
      BY <1>5, PaymentAssumption
         DEF DelayRetry, ReaddPayment, At, HandlersOK, JobsOK, Workers
    <2>2. /\ Payload(handler[w].order, "success", 1) \in JobData
          /\ Payload(handler[w].order, "success",
                     jobs[handler[w].job].data.retryCount + 1) \in JobData
      BY <2>1 DEF Payload, JobData, AllScenarios
    <2>3. /\ jobs[j].state = "free"
          /\ \A i \in Jobs : i # j => jobs'[i] = jobs[i]
          /\ jobs'[j].data \in JobData
      BY <1>5, <2>2 DEF DelayRetry, ReaddPayment, AddJob
    <2>4. \A v \in Workers : handler'[v].pc # "idle" =>
            handler[v].pc # "idle" /\ handler'[v].job = handler[v].job
      BY <1>1, <1>5, ProceedKeepsJob DEF DelayRetry, ReaddPayment, At
    <2>5. QED  BY <2>3, <2>4, JobsKept
  <1>6. ASSUME NEW w \in Procs, NEW j \in Jobs, TakePayment(w, j) \/ TakeRetry(w, j)
        PROVE  JobsOK'
    <2>1. /\ w \in Workers
          /\ jobs[j].state = "waiting"
          /\ jobs' = [jobs EXCEPT ![j].state = "active"]
          /\ handler[w].pc = "idle"
      BY <1>6 DEF TakePayment, TakeRetry, TakeJob, Waiting, Start, At, Workers
    <2>2. /\ handler'[w].job = j
          /\ \A v \in Workers : v # w => handler'[v] = handler[v]
      BY <1>1, <1>6 DEF TakePayment, TakeRetry, Start
    <2>3. /\ jobs'[j].state = "active" /\ jobs'[j].data \in JobData
          /\ \A i \in Jobs : i # j => jobs'[i] = jobs[i]
      BY <2>1 DEF JobsOK, JobRecords
    <2>4. \A v \in Workers : v # w /\ handler[v].pc # "idle" => handler[v].job # j
      BY <2>1 DEF JobsOK
    <2>5. QED  BY <2>2, <2>3, <2>4 DEF JobsOK
  <1>7. ASSUME NEW w \in Procs, FinishJob(w)
        PROVE  JobsOK'
    <2>1. w \in Workers /\ handler[w].pc # "idle"
      BY <1>7, PaymentAssumption DEF FinishJob, At, HandlersOK, Workers
    <2>2. QED  BY <1>7, <2>1, JobsReleased DEF FinishJob
  <1>8. ASSUME NEW p \in Procs, HandlerThrows(p) \/ FailInHandler(p)
        PROVE  JobsOK'
    <2>1. handler[p].pc # "idle" /\ Unwind(p)
      BY <1>8 DEF HandlerThrows, FailInHandler, HandlersOK
    <2>2. CASE p \in Workers
      BY <2>1, <2>2, JobsReleased DEF Unwind
    <2>3. CASE p \notin Workers
      BY <1>1, <2>1, <2>3, JobsKept DEF Unwind, Stop, queueVars
    <2>4. QED  BY <2>2, <2>3
  <1>9. CASE Crash
    <2>1. \A w \in Workers : handler'[w].pc = "idle"
      BY <1>1, <1>9 DEF Crash, IdleHandler
    <2>2. \A j \in Jobs : jobs'[j].state # "free" => jobs'[j].data \in JobData
      BY <1>9 DEF Crash, RedeliverActiveJobs, JobsOK, JobRecords
    <2>3. QED  BY <2>1, <2>2 DEF JobsOK
  <1>10. CASE UNCHANGED vars \/ PostDeadLetter
    BY <1>10 DEF vars, queueVars, PostDeadLetter, PostLetter, JobsOK
  <1>11. QED
    BY <1>2, <1>3, <1>4, <1>5, <1>6, <1>7, <1>8, <1>9, <1>10
       DEF Next, ProcStep, ApiStep, WorkerStep, FaultStep

-----------------------------------------------------------------------------
(* The theorems. *)

\* The invariant holds in every reachable state.
THEOREM PaymentInvariant == Spec => []PaymentInv
  <1>1. Init => PaymentInv
    BY PaymentInitInv
  <1>2. PaymentInv /\ [Next]_vars => PaymentInv'
    <2> SUFFICES ASSUME PaymentInv, [Next]_vars
                 PROVE  PaymentInv'
      OBVIOUS
    <2>1. LifecycleInv'
      BY StepsCallTheLifecycle, LifecycleStepInv DEF PaymentInv
    <2>2. PaymentTypeOK'
      BY <2>1, ApiTypes, WorkerTypes, OtherTypes
         DEF Next, ProcStep, LifecycleInv
    <2>3. HandlersOK' /\ JobsOK'
      BY HandlersStep, JobsStep
    <2>4. CallsArePaid' /\ PaidOrdersHaveReference'
      BY <2>1, CallsArePaidStep, PaidOrdersStep
    <2>5. QED  BY <2>1, <2>2, <2>3, <2>4 DEF PaymentInv
  <1>3. QED  BY <1>1, <1>2, PTL DEF Spec

\* The variables of the checkout keep their types.
THEOREM PaymentTypes == Spec => []PaymentTypeOK
  <1>1. PaymentInv => PaymentTypeOK
    BY DEF PaymentInv
  <1>2. QED  BY <1>1, PaymentInvariant, PTL

\* No order is ever PAID, accepted, rejected or beyond without the provider
\* reference of a successful payment: for any overlap of requests, workers and
\* repeated jobs, any failure and any restart.
THEOREM NothingIsCookedForFree == Spec => []PaidOrdersHaveReference
  <1>1. PaymentInv => PaidOrdersHaveReference
    BY DEF PaymentInv
  <1>2. QED  BY <1>1, PaymentInvariant, PTL

\* The handlers of the checkout move orders only as the lifecycle component does.
THEOREM CheckoutImplementsLifecycle == Spec => CallsTheLifecycle
  <1>1. Init => LifecycleInit
    BY DEF Init
  <1>2. PaymentInv /\ [Next]_vars => [LifecycleNext]_lifecycleVars
    BY StepsCallTheLifecycle
  <1>3. QED
    BY <1>1, <1>2, PaymentInvariant, PTL DEF Spec, CallsTheLifecycle, LifecycleSpec

\* So what the lifecycle guarantees to any callers holds for the checkout.
THEOREM CheckoutSkipsNoStage == Spec => []NoStageSkipped
  BY CheckoutImplementsLifecycle, StagesAreNotSkipped DEF CallsTheLifecycle
=============================================================================
