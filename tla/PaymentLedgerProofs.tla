------------------------ MODULE PaymentLedgerProofs ------------------------
(***************************************************************************)
(* Further proofs about OrderPayment: that every charge is counted, that   *)
(* an order which waits for its payment has somebody working on it, and    *)
(* that, when requests come one at a time and nothing fails, the two rows  *)
(* agree and a customer is charged once.                                   *)
(***************************************************************************)
EXTENDS OrderPaymentProofs, FiniteSets, FiniteSetTheorems

-----------------------------------------------------------------------------
(* A step of one process, and what it leaves alone. *)

StepOf(p) == ProcStep(p) \/ ClientStep(p) \/ FaultStep(p)

\* The actions of which StepOf consists, under one name each.
LEMMA StepCases ==
  ASSUME NEW p \in Procs, StepOf(p)
  PROVE  \/ CallStep(p)
         \/ \E j \in Jobs : EnqueueFirstPayment(p, j)
         \/ \E j \in Jobs : EnqueueRetriedPayment(p, j)
         \/ AnswerMove(p)
         \/ ResetPayment(p)
         \/ \E j \in Jobs : TakePayment(p, j)
         \/ \E j \in Jobs : TakeRetry(p, j)
         \/ \E j \in Jobs : DelayRetry(p, j)
         \/ \E j \in Jobs : ReaddPayment(p, j)
         \/ LoadOrder(p)
         \/ CountAttempt(p)
         \/ Simulate(p)
         \/ SettleSuccess(p)
         \/ SettleFailure(p)
         \/ SettleTimeout(p)
         \/ RecordOutcome(p)
         \/ FinishJob(p)
         \/ HandlerThrows(p)
         \/ ClientStep(p)
         \/ FailInCall(p)
         \/ FailInHandler(p)
  BY DEF StepOf, ProcStep, ApiStep, WorkerStep, FaultStep

\* The handlers and the calls of the other processes stay as they are.
LEMMA OthersStay ==
  ASSUME PaymentInv, NEW p \in Procs, StepOf(p), NEW q \in Procs, q # p
  PROVE  handler'[q] = handler[q] /\ call'[q] = call[q]
  <1> USE DEF PaymentInv, PaymentTypeOK, LifecycleTypeOK
  <1>1. CASE CallStep(p) \/ FailInCall(p)
    BY <1>1 DEF CallStep, FailInCall, ReadOrder, RefuseMove, WriteStatus, Announce,
                LoseCall
  <1>2. CASE ClientStep(p)
    BY <1>2 DEF ClientStep, PlaceOrder, RequestRetry, RequestMove, Start, Insert,
                Invoke
  <1>3. CASE ApiStep(p)
    BY <1>3 DEF ApiStep, EnqueueFirstPayment, EnqueueRetriedPayment, AnswerMove,
                ResetPayment, Return, Stop, Proceed, lifecycleVars
  <1>4. CASE WorkerStep(p)
    BY <1>4 DEF WorkerStep, TakePayment, TakeRetry, DelayRetry, ReaddPayment, Start,
                LoadOrder, CountAttempt, Simulate, SettleSuccess, SettleFailure,
                SettleTimeout, RecordOutcome, FinishJob, Proceed, Stop, Return,
                Invoke, lifecycleVars
  <1>5. CASE HandlerThrows(p) \/ FailInHandler(p)
    BY <1>5 DEF HandlerThrows, FailInHandler, Unwind, Stop, Return, lifecycleVars
  <1>6. QED
    BY <1>1, <1>2, <1>3, <1>4, <1>5 DEF StepOf, ProcStep, FaultStep

\* A step that ends a worker's job touches no other job.
LEMMA EndedJobAlone ==
  ASSUME PaymentInv, NEW w \in Workers, handler[w].pc # "idle",
         CompleteJob(handler[w].job) \/ FailJob(handler[w].job),
         NEW i \in Jobs, i # handler[w].job
  PROVE  jobs'[i] = jobs[i]
  BY DEF PaymentInv, PaymentTypeOK, QueueTypeOK, JobsOK, CompleteJob, FailJob,
         RetryJob, DeadLetterJob

\* So do the jobs that other workers have.
LEMMA OthersKeepJobs ==
  ASSUME PaymentInv, NEW p \in Procs, StepOf(p), NEW q \in Workers, q # p,
         handler[q].pc # "idle"
  PROVE  jobs'[handler[q].job] = jobs[handler[q].job]
  <1> DEFINE i == handler[q].job
  <1> USE DEF PaymentInv, PaymentTypeOK, QueueTypeOK
  <1>1. i \in Jobs /\ jobs[i].state = "active"
    BY DEF JobsOK
  <1>2. CASE UNCHANGED jobs
    BY <1>2
  <1>3. ASSUME NEW j \in Jobs, jobs[j].state # "active", \E r : jobs' = [jobs EXCEPT ![j] = r]
        PROVE  jobs'[i] = jobs[i]
    BY <1>1, <1>3
  <1>4. CASE p \in Workers /\ handler[p].pc # "idle"
             /\ (CompleteJob(handler[p].job) \/ FailJob(handler[p].job))
    <2>1. i # handler[p].job
      BY <1>4 DEF JobsOK
    <2>2. QED  BY <1>1, <1>4, <2>1, EndedJobAlone
  <1>5. ASSUME NEW j \in Jobs,
               \/ EnqueueFirstPayment(p, j)
               \/ EnqueueRetriedPayment(p, j)
               \/ DelayRetry(p, j)
               \/ ReaddPayment(p, j)
        PROVE  jobs'[i] = jobs[i]
    BY <1>1, <1>5 DEF EnqueueFirstPayment, EnqueueRetriedPayment, DelayRetry,
                      ReaddPayment, AddJob
  <1>6. ASSUME NEW j \in Jobs, TakePayment(p, j) \/ TakeRetry(p, j)
        PROVE  jobs'[i] = jobs[i]
    BY <1>1, <1>6 DEF TakePayment, TakeRetry, TakeJob, Waiting
  <1>7. CASE FinishJob(p)
    BY <1>4, <1>7, PaymentAssumption DEF FinishJob, HandlersOK, Workers
  <1>8. CASE HandlerThrows(p) \/ FailInHandler(p)
    <2>1. handler[p].pc # "idle" /\ Unwind(p)
      BY <1>8 DEF HandlerThrows, FailInHandler, HandlersOK
    <2>2. QED  BY <1>2, <1>4, <2>1 DEF Unwind, queueVars
  <1>9. CASE \/ CallStep(p) \/ FailInCall(p) \/ ClientStep(p)
             \/ AnswerMove(p) \/ ResetPayment(p)
    BY <1>2, <1>9 DEF CallStep, FailInCall, ClientStep, PlaceOrder, RequestRetry,
                      RequestMove, AnswerMove, ResetPayment, queueVars
  <1>10. CASE \/ LoadOrder(p) \/ CountAttempt(p) \/ Simulate(p) \/ SettleSuccess(p)
              \/ SettleFailure(p) \/ SettleTimeout(p) \/ RecordOutcome(p)
    BY <1>2, <1>10 DEF LoadOrder, CountAttempt, Simulate, SettleSuccess,
                       SettleFailure, SettleTimeout, RecordOutcome, queueVars
  <1>11. QED
    BY <1>5, <1>6, <1>7, <1>8, <1>9, <1>10, StepCases

-----------------------------------------------------------------------------
(* Every charge is counted. *)

\* The workers that have counted their attempt and not yet asked the provider.
Counted(o) == {p \in Procs : At(p, "simulating") /\ handler[p].order = o}

\* The attempts that are counted cover the charges and those still to come.
AttemptsCoverCharges ==
    \A o \in Orders :
        /\ IsFiniteSet(Counted(o))
        /\ charges[o] + Cardinality(Counted(o)) <= attemptCount[o]

\* A step that counts and charges nothing, and starts no simulation.
LEMMA NothingCharged ==
  ASSUME PaymentInv, AttemptsCoverCharges, UNCHANGED <<charges, attemptCount>>,
         \A p \in Procs : At(p, "simulating")' => handler'[p] = handler[p]
  PROVE  AttemptsCoverCharges'
  <1> SUFFICES ASSUME NEW o \in Orders
               PROVE  AttemptsCoverCharges!(o)'
    BY DEF AttemptsCoverCharges
  <1>1. Counted(o)' \subseteq Counted(o)
    BY DEF Counted, At
  <1>2. /\ IsFiniteSet(Counted(o)')
        /\ Cardinality(Counted(o)') <= Cardinality(Counted(o))
    BY <1>1, FS_Subset DEF AttemptsCoverCharges
  <1>3. Cardinality(Counted(o)) \in Nat /\ Cardinality(Counted(o)') \in Nat
    BY <1>2, FS_CardinalityType DEF AttemptsCoverCharges
  <1>4. charges[o] \in Nat /\ attemptCount[o] \in Nat
    BY DEF PaymentInv, PaymentTypeOK
  <1>5. QED  BY <1>2, <1>3, <1>4 DEF AttemptsCoverCharges

\* The counter is written before the provider is asked.
LEMMA CountAttemptCovers ==
  ASSUME PaymentInv, AttemptsCoverCharges, NEW w \in Procs, CountAttempt(w)
  PROVE  AttemptsCoverCharges'
  <1> SUFFICES ASSUME NEW o \in Orders
               PROVE  AttemptsCoverCharges!(o)'
    BY DEF AttemptsCoverCharges
  <1> USE DEF PaymentInv, PaymentTypeOK
  <1>1. /\ IsFiniteSet(Counted(o))
        /\ charges[o] + Cardinality(Counted(o)) <= attemptCount[o]
    BY DEF AttemptsCoverCharges
  <1>2. charges'[o] = charges[o] /\ charges[o] \in Nat /\ attemptCount[o] \in Nat
    BY DEF CountAttempt
  <1>3. Cardinality(Counted(o)) \in Nat
    BY <1>1, FS_CardinalityType
  <1>4. CASE handler[w].order = o
    <2>1. Counted(o)' = Counted(o) \cup {w}
      BY <1>4 DEF CountAttempt, Counted, At, Proceed, Handlers
    <2>2. w \notin Counted(o)
      BY DEF CountAttempt, Counted, At
    <2>3. /\ IsFiniteSet(Counted(o)')
          /\ Cardinality(Counted(o)') = Cardinality(Counted(o)) + 1
      BY <1>1, <2>1, <2>2, FS_AddElement
    <2>4. attemptCount'[o] = attemptCount[o] + 1
      BY <1>4 DEF CountAttempt
    <2>5. QED  BY <1>1, <1>2, <1>3, <2>3, <2>4
  <1>5. CASE handler[w].order # o
    <2>1. Counted(o)' = Counted(o)
      BY <1>5 DEF CountAttempt, Counted, At, Proceed, Handlers
    <2>2. attemptCount'[o] = attemptCount[o]
      BY <1>5 DEF CountAttempt
    <2>3. QED  BY <1>1, <1>2, <2>1, <2>2
  <1>6. QED  BY <1>4, <1>5

\* Asking the provider uses up what was counted.
LEMMA SimulateCovers ==
  ASSUME PaymentInv, AttemptsCoverCharges, NEW w \in Procs, Simulate(w)
  PROVE  AttemptsCoverCharges'
  <1> SUFFICES ASSUME NEW o \in Orders
               PROVE  AttemptsCoverCharges!(o)'
    BY DEF AttemptsCoverCharges
  <1> USE DEF PaymentInv, PaymentTypeOK
  <1>1. /\ IsFiniteSet(Counted(o))
        /\ charges[o] + Cardinality(Counted(o)) <= attemptCount[o]
    BY DEF AttemptsCoverCharges
  <1>2. attemptCount'[o] = attemptCount[o] /\ charges[o] \in Nat /\ attemptCount[o] \in Nat
    BY DEF Simulate
  <1>3. Cardinality(Counted(o)) \in Nat
    BY <1>1, FS_CardinalityType
  <1>4. CASE handler[w].order = o
    <2>1. Counted(o)' = Counted(o) \ {w}
      BY <1>4 DEF Simulate, Counted, At, Proceed, Handlers
    <2>2. w \in Counted(o)
      BY <1>4 DEF Simulate, Counted, At
    <2>3. /\ IsFiniteSet(Counted(o)')
          /\ Cardinality(Counted(o)') = Cardinality(Counted(o)) - 1
      BY <1>1, <2>1, <2>2, FS_RemoveElement
    <2>4. charges'[o] \in {charges[o], charges[o] + 1}
      BY <1>4 DEF Simulate
    <2>5. QED  BY <1>1, <1>2, <1>3, <2>3, <2>4
  <1>5. CASE handler[w].order # o
    <2>1. Counted(o)' = Counted(o)
      BY <1>5 DEF Simulate, Counted, At, Proceed, Handlers
    <2>2. charges'[o] = charges[o]
      BY <1>5 DEF Simulate
    <2>3. QED  BY <1>1, <1>2, <2>1, <2>2
  <1>6. QED  BY <1>4, <1>5

\* No other step charges anybody.
LEMMA AttemptsCoverChargesStep ==
  ASSUME PaymentInv, AttemptsCoverCharges, [Next]_vars
  PROVE  AttemptsCoverCharges'
  <1> USE DEF PaymentInv, PaymentTypeOK
  <1>1. CASE Crash
    <2>1. \A p \in Procs : ~At(p, "simulating")'
      BY <1>1 DEF Crash, IdleHandler, At
    <2>2. QED  BY <1>1, <2>1, NothingCharged DEF Crash, paymentVars
  <1>2. CASE UNCHANGED vars \/ PostDeadLetter
    BY <1>2, NothingCharged DEF vars, PostDeadLetter, paymentVars
  <1>3. ASSUME NEW p \in Procs, StepOf(p), ~CountAttempt(p), ~Simulate(p)
        PROVE  AttemptsCoverCharges'
    <2>1. UNCHANGED <<charges, attemptCount>>
      BY <1>3, StepCases
         DEF CallStep, EnqueueFirstPayment, EnqueueRetriedPayment, AnswerMove,
             ResetPayment, TakePayment, TakeRetry, DelayRetry, ReaddPayment,
             LoadOrder, SettleSuccess, SettleFailure, SettleTimeout, RecordOutcome,
             FinishJob, HandlerThrows, ClientStep, PlaceOrder, RequestRetry,
             RequestMove, FailInCall, FailInHandler, paymentVars
    <2>2. At(p, "simulating")' => handler'[p] = handler[p]
      <3>1. CASE CallStep(p) \/ FailInCall(p)
        BY <3>1 DEF CallStep, FailInCall
      <3>2. ASSUME NEW pc \in {"placing", "answering", "resetting", "loading", "readding"},
                   NEW o, NEW j, NEW scenario, Start(p, pc, o, j, scenario)
            PROVE  ~At(p, "simulating")'
        BY <3>2 DEF Start, At
      <3>3. ASSUME NEW pc \in {"enqueuing", "counting", "settling", "recording",
                               "delaying", "rereading", "done"}, Proceed(p, pc)
            PROVE  ~At(p, "simulating")'
        BY <3>3 DEF Proceed, At, Handlers
      <3>4. CASE Stop(p)
        BY <3>4 DEF Stop, At, IdleHandler
      <3>5. CASE ClientStep(p)
        BY <3>2, <3>5 DEF ClientStep, PlaceOrder, RequestRetry, RequestMove
      <3>6. CASE ApiStep(p)
        BY <3>3, <3>4, <3>6 DEF ApiStep, EnqueueFirstPayment, EnqueueRetriedPayment,
                                AnswerMove, ResetPayment
      <3>7. CASE WorkerStep(p)
        BY <1>3, <3>2, <3>3, <3>4, <3>7
           DEF WorkerStep, TakePayment, TakeRetry, DelayRetry, ReaddPayment,
               LoadOrder, SettleSuccess, SettleFailure, SettleTimeout,
               RecordOutcome, FinishJob
      <3>8. CASE HandlerThrows(p) \/ FailInHandler(p)
        BY <3>4, <3>8 DEF HandlerThrows, FailInHandler, Unwind
      <3>9. QED
        BY <1>3, <3>1, <3>5, <3>6, <3>7, <3>8 DEF StepOf, ProcStep, FaultStep
    <2>3. QED  BY <1>3, <2>1, <2>2, OthersStay, NothingCharged
  <1>4. QED
    BY <1>1, <1>2, <1>3, CountAttemptCovers, SimulateCovers DEF Next, StepOf

\* The provider is never asked to charge an order more often than the attempts
\* of its payment row say: for any overlap of jobs, requests, failures and
\* restarts.
THEOREM EveryChargeIsCounted == Spec => []ChargesAreCounted
  <1>1. Init => AttemptsCoverCharges
    <2> SUFFICES ASSUME Init, NEW o \in Orders
                 PROVE  AttemptsCoverCharges!(o)
      BY DEF AttemptsCoverCharges
    <2>1. Counted(o) = {}
      BY DEF Init, Counted, At, IdleHandler
    <2>2. QED  BY <2>1, FS_EmptySet DEF Init
  <1>2. PaymentInv /\ AttemptsCoverCharges /\ [Next]_vars => AttemptsCoverCharges'
    BY AttemptsCoverChargesStep
  <1>3. PaymentInv /\ AttemptsCoverCharges => ChargesAreCounted
    <2> SUFFICES ASSUME PaymentInv, AttemptsCoverCharges, NEW o \in Orders
                 PROVE  charges[o] <= attemptCount[o]
      BY DEF ChargesAreCounted
    <2>1. /\ Cardinality(Counted(o)) \in Nat
          /\ charges[o] + Cardinality(Counted(o)) <= attemptCount[o]
      BY FS_CardinalityType DEF AttemptsCoverCharges
    <2>2. charges[o] \in Nat /\ attemptCount[o] \in Nat
      BY DEF PaymentInv, PaymentTypeOK
    <2>3. QED  BY <2>1, <2>2
  <1>4. QED  BY <1>1, <1>2, <1>3, PaymentInvariant, PTL DEF Spec

-----------------------------------------------------------------------------
(* Handlers, their calls and their jobs are about the same order. *)

\* A handler inside transitionOrder moves its own order, to a status that it
\* is there to reach.
CallsMatch ==
    \A p \in Procs :
        /\ handler[p].pc \in {"placing", "answering", "resetting", "recording"} =>
              call[p].pc # "idle" /\ call[p].order = handler[p].order
        /\ handler[p].pc \in {"placing", "resetting"} => call[p].next = "PAYMENT_PENDING"
        /\ handler[p].pc = "answering" =>
              call[p].next \in {TargetOf[r] : r \in Requests \cap DOMAIN TargetOf}
        /\ handler[p].pc = "recording" => call[p].next \in {"PAID", "PAYMENT_FAILED"}

\* A worker works on the order that its job is about.
JobsMatch ==
    \A w \in Workers :
        handler[w].pc # "idle" => jobs[handler[w].job].data.order = handler[w].order

\* A handler enters transitionOrder with its own order, and stays in it until
\* the call is over.
LEMMA CallsMatchStep ==
  ASSUME PaymentInv, CallsMatch, [Next]_vars
  PROVE  CallsMatch'
  <1> SUFFICES ASSUME NEW q \in Procs
               PROVE  CallsMatch!(q)'
    BY DEF CallsMatch
  <1> USE DEF PaymentInv, PaymentTypeOK, LifecycleTypeOK
  <1>0. CallsMatch!(q)
    BY DEF CallsMatch
  <1>1. CASE handler'[q].pc \notin {"placing", "answering", "resetting", "recording"}
    BY <1>1
  <1>2. CASE handler'[q] = handler[q] /\ call'[q] = call[q]
    BY <1>0, <1>2
  <1>3. CASE Crash
    BY <1>1, <1>3 DEF Crash, IdleHandler
  <1>4. CASE UNCHANGED vars \/ PostDeadLetter
    BY <1>2, <1>4 DEF vars, PostDeadLetter, lifecycleVars
  <1>5. CASE StepOf(q)
    <2>1. CASE CallStep(q) \/ FailInCall(q)
      BY <1>0, <2>1 DEF CallStep, FailInCall, ReadOrder, RefuseMove, WriteStatus,
                        Announce, LoseCall, Calls
    <2>2. CASE ClientStep(q)
      <3>1. ASSUME NEW o \in Orders, NEW scenario \in Scenarios,
                   PlaceOrder(q, o, scenario) \/ RequestRetry(q, o, scenario)
            PROVE  CallsMatch!(q)'
        BY <3>1 DEF PlaceOrder, RequestRetry, Start, Insert, Invoke, NewCall
      <3>2. ASSUME NEW o \in Orders, NEW r \in Requests, RequestMove(q, o, r)
            PROVE  CallsMatch!(q)'
        <4>1. r \in Requests \cap DOMAIN TargetOf
          BY <3>2 DEF RequestMove
        <4>2. call'[q] = NewCall(o, TargetOf[r])
          BY <3>2 DEF RequestMove, Invoke
        <4>3. handler'[q].pc = "answering" /\ handler'[q].order = o
          BY <3>2 DEF RequestMove, Start
        <4>4. QED  BY <4>1, <4>2, <4>3 DEF NewCall
      <3>3. QED  BY <2>2, <3>1, <3>2 DEF ClientStep
    <2>3. CASE SettleSuccess(q) \/ SettleFailure(q)
      <3>1. handler'[q].pc = "recording" /\ handler'[q].order = handler[q].order
        BY <2>3 DEF SettleSuccess, SettleFailure, Proceed, Handlers
      <3>2. \E next \in {"PAID", "PAYMENT_FAILED"} :
               call'[q] = NewCall(handler[q].order, next)
        BY <2>3 DEF SettleSuccess, SettleFailure, Invoke
      <3>3. QED  BY <3>1, <3>2 DEF NewCall
    <2>4. ASSUME NEW pc \in {"enqueuing", "counting", "simulating", "settling",
                             "delaying", "rereading", "done"}, Proceed(q, pc)
          PROVE  CallsMatch!(q)'
      BY <1>1, <2>4 DEF Proceed
    <2>5. CASE Stop(q)
      BY <1>1, <2>5 DEF Stop, IdleHandler
    <2>6. ASSUME NEW pc \in {"loading", "readding"}, NEW o, NEW j, NEW scenario,
                 Start(q, pc, o, j, scenario)
          PROVE  CallsMatch!(q)'
      BY <1>1, <2>6 DEF Start
    <2>7. CASE ApiStep(q)
      BY <2>4, <2>5, <2>7 DEF ApiStep, EnqueueFirstPayment, EnqueueRetriedPayment,
                              AnswerMove, ResetPayment
    <2>8. CASE WorkerStep(q)
      BY <2>3, <2>4, <2>5, <2>6, <2>8
         DEF WorkerStep, TakePayment, TakeRetry, DelayRetry, ReaddPayment,
             LoadOrder, CountAttempt, Simulate, SettleTimeout, RecordOutcome,
             FinishJob
    <2>9. CASE HandlerThrows(q) \/ FailInHandler(q)
      BY <2>5, <2>9 DEF HandlerThrows, FailInHandler, Unwind
    <2>10. QED
      BY <1>5, <2>1, <2>2, <2>7, <2>8, <2>9 DEF StepOf, ProcStep, FaultStep
  <1>6. ASSUME NEW p \in Procs, StepOf(p), p # q
        PROVE  CallsMatch!(q)'
    BY <1>2, <1>6, OthersStay
  <1>7. QED  BY <1>3, <1>4, <1>5, <1>6 DEF Next, StepOf

\* A worker that goes on keeps its order and its job.
LEMMA OwnJobKept ==
  ASSUME PaymentInv, NEW w \in Workers, StepOf(w), handler[w].pc # "idle",
         handler'[w].pc # "idle"
  PROVE  /\ handler'[w].order = handler[w].order
         /\ handler'[w].job = handler[w].job
         /\ jobs'[handler[w].job] = jobs[handler[w].job]
  <1> USE DEF PaymentInv, PaymentTypeOK, QueueTypeOK
  <1>1. w \in Procs /\ w \notin Api
    BY PaymentAssumption DEF Workers
  <1>2. handler[w].job \in Jobs /\ jobs[handler[w].job].state = "active"
    BY DEF JobsOK
  <1>3. ASSUME NEW pc, Proceed(w, pc)
        PROVE  handler'[w].order = handler[w].order /\ handler'[w].job = handler[w].job
    BY <1>1, <1>3 DEF Proceed, Handlers
  <1>4. ~Stop(w)
    BY <1>1 DEF Stop, IdleHandler
  <1>5. CASE CallStep(w) \/ FailInCall(w)
    BY <1>5 DEF CallStep, FailInCall, queueVars
  <1>6. CASE \/ LoadOrder(w) \/ CountAttempt(w) \/ Simulate(w) \/ SettleSuccess(w)
             \/ SettleFailure(w) \/ SettleTimeout(w) \/ RecordOutcome(w)
             \/ ResetPayment(w)
    BY <1>3, <1>6 DEF LoadOrder, CountAttempt, Simulate, SettleSuccess, SettleFailure,
                      SettleTimeout, RecordOutcome, ResetPayment, queueVars
  <1>7. ASSUME NEW j \in Jobs, DelayRetry(w, j) \/ ReaddPayment(w, j)
        PROVE  jobs'[handler[w].job] = jobs[handler[w].job]
    BY <1>2, <1>7 DEF DelayRetry, ReaddPayment, AddJob
  <1>8. ASSUME NEW j \in Jobs, DelayRetry(w, j) \/ ReaddPayment(w, j)
        PROVE  \E pc : Proceed(w, pc)
    BY <1>8 DEF DelayRetry, ReaddPayment
  <1>9. ASSUME \/ ClientStep(w)
               \/ \E j \in Jobs : TakePayment(w, j) \/ TakeRetry(w, j)
        PROVE  FALSE
    BY <1>9 DEF ClientStep, PlaceOrder, RequestRetry, RequestMove, TakePayment,
                TakeRetry, Start, At
  <1>10. ASSUME \/ \E j \in Jobs : EnqueueFirstPayment(w, j) \/ EnqueueRetriedPayment(w, j)
                \/ AnswerMove(w) \/ FinishJob(w) \/ HandlerThrows(w)
                \/ FailInHandler(w)
         PROVE  FALSE
    BY <1>4, <1>10 DEF EnqueueFirstPayment, EnqueueRetriedPayment, AnswerMove,
                       FinishJob, HandlerThrows, FailInHandler, Unwind
  <1>11. QED
    BY <1>1, <1>3, <1>5, <1>6, <1>7, <1>8, <1>9, <1>10, StepCases

\* A job that is taken is about the order that the worker turns to.
LEMMA JobsMatchStep ==
  ASSUME PaymentInv, JobsMatch, [Next]_vars
  PROVE  JobsMatch'
  <1> SUFFICES ASSUME NEW w \in Workers, handler'[w].pc # "idle"
               PROVE  jobs'[handler'[w].job].data.order = handler'[w].order
    BY DEF JobsMatch
  <1> USE DEF PaymentInv, PaymentTypeOK, QueueTypeOK
  <1>1. w \in Procs
    BY PaymentAssumption DEF Workers
  <1>2. ~Crash
    BY <1>1 DEF Crash, IdleHandler
  <1>3. CASE UNCHANGED vars \/ PostDeadLetter
    BY <1>3 DEF vars, queueVars, PostDeadLetter, PostLetter, JobsMatch
  <1>4. CASE StepOf(w) /\ handler[w].pc # "idle"
    BY <1>4, OwnJobKept DEF JobsMatch
  <1>5. CASE StepOf(w) /\ handler[w].pc = "idle"
    <2>1. PICK j \in Jobs : TakePayment(w, j) \/ TakeRetry(w, j)
      BY <1>1, <1>5, StepCases, PaymentAssumption
         DEF CallStep, ReadOrder, RefuseMove, WriteStatus, Announce, HandlersOK,
             EnqueueFirstPayment, EnqueueRetriedPayment, AnswerMove, ResetPayment,
             DelayRetry, ReaddPayment, LoadOrder, CountAttempt, Simulate,
             SettleSuccess, SettleFailure, SettleTimeout, RecordOutcome, FinishJob,
             HandlerThrows, ClientStep, PlaceOrder, RequestRetry, RequestMove,
             FailInCall, LoseCall, FailInHandler, At, Workers
    <2>2. jobs'[j].data = jobs[j].data
      BY <2>1 DEF TakePayment, TakeRetry, TakeJob, JobRecords
    <2>3. handler'[w].job = j /\ handler'[w].order = jobs[j].data.order
      BY <1>1, <2>1 DEF TakePayment, TakeRetry, Start
    <2>4. QED  BY <2>2, <2>3
  <1>6. ASSUME NEW p \in Procs, StepOf(p), p # w
        PROVE  jobs'[handler'[w].job].data.order = handler'[w].order
    BY <1>1, <1>6, OthersStay, OthersKeepJobs DEF JobsMatch
  <1>7. QED  BY <1>2, <1>3, <1>4, <1>5, <1>6 DEF Next, StepOf

-----------------------------------------------------------------------------
(* Only createOrder and transitionOrder write the status of an order. *)

LEMMA StatusMoves ==
  ASSUME PaymentInv, NEW p \in Procs, StepOf(p), NEW o \in Orders,
         status'[o] # status[o] \/ visited'[o] # visited[o]
  PROVE  \/ \E scenario \in Scenarios : PlaceOrder(p, o, scenario)
         \/ /\ WriteStatus(p) /\ call[p].order = o
            /\ UNCHANGED <<handler, payment, charges, jobs>>
  <1> USE DEF PaymentInv, PaymentTypeOK, LifecycleTypeOK
  <1>1. CASE CallStep(p)
    BY <1>1 DEF CallStep, ReadOrder, RefuseMove, WriteStatus, Announce, paymentVars,
                queueVars
  <1>2. CASE ClientStep(p)
    BY <1>2 DEF ClientStep, PlaceOrder, RequestRetry, RequestMove, Insert, Invoke
  <1>3. CASE ApiStep(p)
    BY <1>3 DEF ApiStep, EnqueueFirstPayment, EnqueueRetriedPayment, AnswerMove,
                ResetPayment, Return, lifecycleVars
  <1>4. CASE WorkerStep(p)
    BY <1>4 DEF WorkerStep, TakePayment, TakeRetry, DelayRetry, ReaddPayment,
                LoadOrder, CountAttempt, Simulate, SettleSuccess, SettleFailure,
                SettleTimeout, RecordOutcome, FinishJob, Return, Invoke, lifecycleVars
  <1>5. CASE HandlerThrows(p) \/ FaultStep(p)
    BY <1>5 DEF HandlerThrows, FaultStep, FailInCall, FailInHandler, LoseCall,
                Return, lifecycleVars
  <1>6. QED
    BY <1>1, <1>2, <1>3, <1>4, <1>5 DEF StepOf, ProcStep

\* Nobody asks for PENDING, and only createOrder and retryPayment ask for
\* PAYMENT_PENDING.
LEMMA WhoAsksForWhat ==
  ASSUME PaymentInv, CallsMatch, NEW p \in Procs, call[p].pc = "write"
  PROVE  /\ call[p].order = handler[p].order
         /\ call[p].next # "PENDING"
         /\ call[p].next = "PAYMENT_PENDING" => handler[p].pc \in {"placing", "resetting"}
         /\ handler[p].pc \in {"placing", "resetting"} => call[p].next = "PAYMENT_PENDING"
  BY DEF PaymentInv, HandlersOK, CallsMatch, TargetOf

\* The handlers, their calls and their jobs match in every reachable state.
LEMMA CallsAndJobsMatch == Spec => [](CallsMatch /\ JobsMatch)
  <1>1. Init => CallsMatch /\ JobsMatch
    BY PaymentAssumption
       DEF Init, IdleHandler, CallsMatch, JobsMatch, Workers
  <1>2. PaymentInv /\ CallsMatch /\ JobsMatch /\ [Next]_vars => (CallsMatch /\ JobsMatch)'
    BY CallsMatchStep, JobsMatchStep
  <1>3. QED  BY <1>1, <1>2, PaymentInvariant, PTL DEF Spec

-----------------------------------------------------------------------------
(* The first job about an order comes after the order has left PENDING. *)

\* A request that has moved its order and will add a job.
Handing(p) ==
    \/ At(p, "enqueuing")
    \/ handler[p].pc \in {"placing", "resetting"}
       /\ call[p].pc \in {"announce", "returned"}

JobsComeLater ==
    /\ \A o \in Orders : status[o] = "PENDING" => "PAYMENT_PENDING" \notin visited[o]
    /\ \A j \in Jobs :
          jobs[j].state # "free" => "PAYMENT_PENDING" \in visited[jobs[j].data.order]
    /\ \A p \in Procs : Handing(p) => "PAYMENT_PENDING" \in visited[handler[p].order]

\* The history of an order grows.
LEMMA VisitedGrows ==
  ASSUME PaymentInv, NEW p \in Procs, StepOf(p), NEW o \in Orders
  PROVE  visited[o] \subseteq visited'[o]
  <1> USE DEF PaymentInv, LifecycleInv, LifecycleTypeOK
  <1>1. ASSUME NEW scenario \in Scenarios, PlaceOrder(p, o, scenario)
        PROVE  visited[o] \subseteq visited'[o]
    BY <1>1 DEF PlaceOrder, Insert, HistoryStartsPending
  <1>2. CASE WriteStatus(p)
    BY <1>2 DEF WriteStatus
  <1>3. QED  BY <1>1, <1>2, StatusMoves

\* Who adds a job has moved the order before, or does a job about the order.
LEMMA WhoAdds ==
  ASSUME PaymentInv, JobsMatch, NEW p \in Procs, StepOf(p), NEW j \in Jobs,
         jobs'[j].state # "free"
  PROVE  \/ jobs[j].state # "free" /\ jobs'[j].data = jobs[j].data
         \/ jobs'[j].data.order = handler[p].order /\ Handing(p)
         \/ \E i \in Jobs : /\ jobs[i].state # "free"
                            /\ jobs'[j].data.order = jobs[i].data.order
  <1> USE DEF PaymentInv, PaymentTypeOK, QueueTypeOK
  <1>1. CASE jobs'[j] = jobs[j]
    BY <1>1
  <1>2. ASSUME NEW i \in Jobs,
               EnqueueFirstPayment(p, i) \/ EnqueueRetriedPayment(p, i)
        PROVE  \/ jobs'[j] = jobs[j]
               \/ jobs'[j].data.order = handler[p].order /\ Handing(p)
    BY <1>2 DEF EnqueueFirstPayment, EnqueueRetriedPayment, AddJob, Payload, Handing,
                At, Moved
  <1>3. ASSUME NEW i \in Jobs, DelayRetry(p, i) \/ ReaddPayment(p, i)
        PROVE  \/ jobs'[j] = jobs[j]
               \/ \E k \in Jobs : /\ jobs[k].state # "free"
                                  /\ jobs'[j].data.order = jobs[k].data.order
    <2>1. p \in Workers /\ handler[p].pc # "idle"
      BY <1>3, PaymentAssumption DEF DelayRetry, ReaddPayment, At, HandlersOK, Workers
    <2>2. /\ handler[p].job \in Jobs /\ jobs[handler[p].job].state # "free"
          /\ jobs[handler[p].job].data.order = handler[p].order
      BY <2>1 DEF JobsOK, JobsMatch
    <2>3. jobs'[j] = jobs[j] \/ jobs'[j].data.order = handler[p].order
      BY <1>3 DEF DelayRetry, ReaddPayment, AddJob, Payload
    <2>4. QED  BY <2>2, <2>3
  <1>4. ASSUME NEW i \in Jobs, TakePayment(p, i) \/ TakeRetry(p, i)
        PROVE  jobs[j].state # "free" /\ jobs'[j].data = jobs[j].data
    BY <1>4 DEF TakePayment, TakeRetry, TakeJob, Waiting, JobRecords
  <1>5. CASE p \in Workers /\ handler[p].pc # "idle"
             /\ (CompleteJob(handler[p].job) \/ FailJob(handler[p].job))
    <2>1. CASE j # handler[p].job
      BY <1>1, <1>5, <2>1, EndedJobAlone
    <2>2. CASE j = handler[p].job
      <3>1. jobs[j].state = "active"
        BY <1>5, <2>2 DEF JobsOK
      <3>2. CASE RetryJob(j)
        BY <3>1, <3>2 DEF RetryJob, JobRecords
      <3>3. CASE CompleteJob(j) \/ DeadLetterJob(j)
        BY <3>3 DEF CompleteJob, DeadLetterJob, FreeJob
      <3>4. QED  BY <1>5, <2>2, <3>2, <3>3 DEF FailJob
    <2>3. QED  BY <2>1, <2>2
  <1>6. CASE FinishJob(p)
    BY <1>5, <1>6, PaymentAssumption DEF FinishJob, HandlersOK, Workers
  <1>7. CASE HandlerThrows(p) \/ FailInHandler(p)
    <2>1. handler[p].pc # "idle" /\ Unwind(p)
      BY <1>7 DEF HandlerThrows, FailInHandler, HandlersOK
    <2>2. QED  BY <1>1, <1>5, <2>1 DEF Unwind, queueVars
  <1>8. CASE \/ CallStep(p) \/ FailInCall(p) \/ ClientStep(p)
             \/ AnswerMove(p) \/ ResetPayment(p)
    BY <1>1, <1>8 DEF CallStep, FailInCall, ClientStep, PlaceOrder, RequestRetry,
                      RequestMove, AnswerMove, ResetPayment, queueVars
  <1>9. CASE \/ LoadOrder(p) \/ CountAttempt(p) \/ Simulate(p) \/ SettleSuccess(p)
             \/ SettleFailure(p) \/ SettleTimeout(p) \/ RecordOutcome(p)
    BY <1>1, <1>9 DEF LoadOrder, CountAttempt, Simulate, SettleSuccess,
                      SettleFailure, SettleTimeout, RecordOutcome, queueVars
  <1>10. QED
    BY <1>1, <1>2, <1>3, <1>4, <1>6, <1>7, <1>8, <1>9, StepCases

\* Who begins to hand over has just moved the order, or goes on.
LEMMA WhoHands ==
  ASSUME PaymentInv, CallsMatch, NEW p \in Procs, StepOf(p), Handing(p)'
  PROVE  /\ handler'[p].order = handler[p].order
         /\ handler[p].pc # "idle"
         /\ Handing(p) \/ "PAYMENT_PENDING" \in visited'[handler[p].order]
  <1> USE DEF PaymentInv, PaymentTypeOK, LifecycleTypeOK
  <1>1. handler'[p].pc \in {"enqueuing", "placing", "resetting"}
        /\ (handler'[p].pc # "enqueuing" => call'[p].pc \in {"announce", "returned"})
    BY DEF Handing, At
  <1>2. CASE ClientStep(p)
    BY <1>1, <1>2 DEF ClientStep, PlaceOrder, RequestRetry, RequestMove, Start, Insert,
                      Invoke, NewCall
  <1>3. CASE Stop(p)
    BY <1>1, <1>3 DEF Stop, IdleHandler
  <1>4. ASSUME NEW pc \in {"counting", "simulating", "settling", "recording",
                           "delaying", "rereading", "done"}, Proceed(p, pc)
        PROVE  FALSE
    BY <1>1, <1>4 DEF Proceed, Handlers
  <1>5. ASSUME NEW j \in Jobs, TakePayment(p, j) \/ TakeRetry(p, j)
        PROVE  FALSE
    BY <1>1, <1>5 DEF TakePayment, TakeRetry, Start
  <1>6. CASE ResetPayment(p)
    BY <1>6 DEF ResetPayment, At, Moved, Proceed, Handlers, Handing
  <1>7. CASE CallStep(p) \/ FailInCall(p)
    <2>1. UNCHANGED handler
      BY <1>7 DEF CallStep, FailInCall
    <2>2. CASE WriteStatus(p)
      <3>1. handler[p].pc \in {"placing", "resetting"}
        BY <1>1, <2>1, <2>2 DEF WriteStatus, HandlersOK, Handing, At
      <3>2. call[p].order = handler[p].order /\ call[p].next = "PAYMENT_PENDING"
        BY <2>2, <3>1 DEF WriteStatus, CallsMatch
      <3>3. handler[p].order \in Orders
        BY <3>1 DEF HandlersOK
      <3>4. QED  BY <2>1, <2>2, <3>1, <3>2, <3>3 DEF WriteStatus
    <2>3. CASE ~WriteStatus(p)
      BY <1>1, <1>7, <2>1, <2>3
         DEF CallStep, FailInCall, ReadOrder, RefuseMove, Announce, LoseCall, Calls,
             Handing, At
    <2>4. QED  BY <2>2, <2>3
  <1>8. CASE \/ \E j \in Jobs : EnqueueFirstPayment(p, j) \/ EnqueueRetriedPayment(p, j)
             \/ AnswerMove(p) \/ FinishJob(p) \/ HandlerThrows(p) \/ FailInHandler(p)
    BY <1>3, <1>8 DEF EnqueueFirstPayment, EnqueueRetriedPayment, AnswerMove,
                      FinishJob, HandlerThrows, FailInHandler, Unwind
  <1>9. CASE \/ \E j \in Jobs : DelayRetry(p, j) \/ ReaddPayment(p, j)
             \/ LoadOrder(p) \/ CountAttempt(p) \/ Simulate(p) \/ SettleSuccess(p)
             \/ SettleFailure(p) \/ SettleTimeout(p) \/ RecordOutcome(p)
    BY <1>4, <1>9 DEF DelayRetry, ReaddPayment, LoadOrder, CountAttempt, Simulate,
                      SettleSuccess, SettleFailure, SettleTimeout, RecordOutcome
  <1>10. QED
    BY <1>2, <1>3, <1>5, <1>6, <1>7, <1>8, <1>9, StepCases

LEMMA JobsComeLaterStep ==
  ASSUME PaymentInv, CallsMatch, JobsMatch, JobsComeLater, [Next]_vars
  PROVE  JobsComeLater'
  <1> USE DEF PaymentInv, PaymentTypeOK, LifecycleTypeOK
  <1>1. CASE UNCHANGED vars
    BY <1>1 DEF vars, lifecycleVars, queueVars, JobsComeLater, Handing, At
  <1>2. CASE PostDeadLetter
    BY <1>2 DEF PostDeadLetter, PostLetter, lifecycleVars, JobsComeLater, Handing, At
  <1>3. CASE Crash
    <2>1. UNCHANGED <<status, visited>>
      BY <1>3 DEF Crash, LoseAllCalls
    <2>2. \A p \in Procs : ~Handing(p)'
      BY <1>3 DEF Crash, IdleHandler, Handing, At
    <2>3. \A j \in Jobs : jobs'[j].state # "free" =>
            jobs[j].state # "free" /\ jobs'[j].data = jobs[j].data
      BY <1>3 DEF Crash, RedeliverActiveJobs, QueueTypeOK, JobRecords
    <2>4. QED  BY <2>1, <2>2, <2>3 DEF JobsComeLater
  <1>4. ASSUME NEW p \in Procs, StepOf(p)
        PROVE  JobsComeLater'
    <2>1. \A o \in Orders : visited[o] \subseteq visited'[o]
      BY <1>4, VisitedGrows
    <2>2. ASSUME NEW o \in Orders, status'[o] = "PENDING"
          PROVE  "PAYMENT_PENDING" \notin visited'[o]
      <3>1. CASE status'[o] = status[o] /\ visited'[o] = visited[o]
        BY <2>2, <3>1 DEF JobsComeLater
      <3>2. ASSUME NEW scenario \in Scenarios, PlaceOrder(p, o, scenario)
            PROVE  "PAYMENT_PENDING" \notin visited'[o]
        BY <3>2 DEF PlaceOrder, Insert
      <3>3. CASE WriteStatus(p) /\ call[p].order = o
        BY <2>2, <3>3, WhoAsksForWhat DEF WriteStatus
      <3>4. QED  BY <1>4, <3>1, <3>2, <3>3, StatusMoves
    <2>3. ASSUME NEW j \in Jobs, jobs'[j].state # "free"
          PROVE  "PAYMENT_PENDING" \in visited'[jobs'[j].data.order]
      <3>1. \A i \in Jobs : jobs[i].state # "free" => jobs[i].data.order \in Orders
        BY DEF JobsOK, JobData
      <3>2. Handing(p) => handler[p].order \in Orders
        BY DEF HandlersOK, Handing, At
      <3>3. QED
        BY <1>4, <2>1, <2>3, <3>1, <3>2, WhoAdds DEF JobsComeLater
    <2>4. ASSUME NEW q \in Procs, Handing(q)'
          PROVE  "PAYMENT_PENDING" \in visited'[handler'[q].order]
      <3>1. CASE q # p
        <4>1. Handing(q) /\ handler'[q].order = handler[q].order
          BY <1>4, <2>4, <3>1, OthersStay DEF Handing, At
        <4>2. handler[q].order \in Orders
          BY <4>1 DEF HandlersOK, Handing, At
        <4>3. QED  BY <2>1, <4>1, <4>2 DEF JobsComeLater
      <3>2. CASE q = p
        <4>1. /\ handler'[p].order = handler[p].order
              /\ handler[p].order \in Orders
              /\ Handing(p) \/ "PAYMENT_PENDING" \in visited'[handler[p].order]
          BY <1>4, <2>4, <3>2, WhoHands DEF HandlersOK
        <4>2. QED  BY <2>1, <3>2, <4>1 DEF JobsComeLater
      <3>3. QED  BY <3>1, <3>2
    <2>5. QED  BY <2>2, <2>3, <2>4 DEF JobsComeLater
  <1>5. QED  BY <1>1, <1>2, <1>3, <1>4 DEF Next, StepOf

\* Everything that the steps below rest on, in every reachable state.
HandOver == PaymentInv /\ CallsMatch /\ JobsMatch /\ JobsComeLater

LEMMA HandOverInvariant == Spec => []HandOver
  <1>1. Init => JobsComeLater
    BY DEF Init, LifecycleInit, QueueInit, FreeJob, IdleHandler, NoRow, JobsComeLater,
           Handing, At
  <1>2. PaymentInv /\ CallsMatch /\ JobsMatch /\ JobsComeLater /\ [Next]_vars
          => JobsComeLater'
    BY JobsComeLaterStep
  <1>3. QED
    BY <1>1, <1>2, PaymentInvariant, CallsAndJobsMatch, PTL DEF Spec, HandOver

-----------------------------------------------------------------------------
(* An order that waits for its payment is passed on, not dropped. *)

\* A step that ends a worker's job with an exception leaves it in the queue or
\* begins a dead letter.
LEMMA FailedJobIsKept ==
  ASSUME PaymentInv, JobsMatch, NEW w \in Workers, handler[w].pc # "idle",
         FailJob(handler[w].job), NEW o, o = handler[w].order
  PROVE  Served(o)'
  <1> USE DEF PaymentInv, PaymentTypeOK, QueueTypeOK
  <1>1. PICK j \in Jobs : j = handler[w].job /\ jobs[j].data.order = o
    BY DEF JobsOK, JobsMatch
  <1>2. CASE RetryJob(j)
    <2>1. jobs'[j].state = "waiting" /\ jobs'[j].data = jobs[j].data
      BY <1>1, <1>2 DEF RetryJob, JobRecords
    <2>2. Queued(j, o)'
      BY <1>1, <2>1 DEF Queued
    <2>3. QED  BY <1>1, <2>2 DEF Served
  <1>3. CASE DeadLetterJob(j)
    <2>1. [queue |-> jobs[j].queue, data |-> jobs[j].data] \in letters'
      BY <1>3 DEF DeadLetterJob
    <2>2. QED  BY <1>1, <2>1 DEF Served
  <1>4. QED  BY <1>1, <1>2, <1>3 DEF FailJob

\* A job that waits goes on waiting or is taken by a worker.
LEMMA QueuedGoesOn ==
  ASSUME PaymentInv, NEW p \in Procs, StepOf(p), NEW o, NEW j \in Jobs, Queued(j, o)
  PROVE  Served(o)'
  <1> USE DEF PaymentInv, PaymentTypeOK, QueueTypeOK
  <1>1. CASE jobs'[j] = jobs[j]
    BY <1>1 DEF Served, Queued
  <1>2. CASE TakePayment(p, j) \/ TakeRetry(p, j)
    <2>1. handler'[p].order = o /\ handler'[p].pc \in {"loading", "readding"}
      BY <1>2 DEF TakePayment, TakeRetry, Start, Queued
    <2>2. QED  BY <2>1 DEF Served, Serving
  <1>3. ASSUME NEW i \in Jobs, i # j, TakePayment(p, i) \/ TakeRetry(p, i)
        PROVE  jobs'[j] = jobs[j]
    BY <1>3 DEF TakePayment, TakeRetry, TakeJob
  <1>4. ASSUME NEW i \in Jobs,
               \/ EnqueueFirstPayment(p, i)
               \/ EnqueueRetriedPayment(p, i)
               \/ DelayRetry(p, i)
               \/ ReaddPayment(p, i)
        PROVE  jobs'[j] = jobs[j]
    BY <1>4 DEF Queued, EnqueueFirstPayment, EnqueueRetriedPayment, DelayRetry,
                ReaddPayment, AddJob
  <1>5. CASE p \in Workers /\ handler[p].pc # "idle"
             /\ (CompleteJob(handler[p].job) \/ FailJob(handler[p].job))
    <2>1. j # handler[p].job
      BY <1>5 DEF JobsOK, Queued
    <2>2. QED  BY <1>1, <1>5, <2>1, EndedJobAlone
  <1>6. CASE FinishJob(p)
    BY <1>5, <1>6, PaymentAssumption DEF FinishJob, HandlersOK, Workers
  <1>7. CASE HandlerThrows(p) \/ FailInHandler(p)
    <2>1. handler[p].pc # "idle" /\ Unwind(p)
      BY <1>7 DEF HandlerThrows, FailInHandler, HandlersOK
    <2>2. QED  BY <1>1, <1>5, <2>1 DEF Unwind, queueVars
  <1>8. CASE \/ CallStep(p) \/ FailInCall(p) \/ ClientStep(p)
             \/ AnswerMove(p) \/ ResetPayment(p)
    BY <1>1, <1>8 DEF CallStep, FailInCall, ClientStep, PlaceOrder, RequestRetry,
                      RequestMove, AnswerMove, ResetPayment, queueVars
  <1>9. CASE \/ LoadOrder(p) \/ CountAttempt(p) \/ Simulate(p) \/ SettleSuccess(p)
             \/ SettleFailure(p) \/ SettleTimeout(p) \/ RecordOutcome(p)
    BY <1>1, <1>9 DEF LoadOrder, CountAttempt, Simulate, SettleSuccess,
                      SettleFailure, SettleTimeout, RecordOutcome, queueVars
  <1>10. QED
    BY <1>1, <1>2, <1>3, <1>4, <1>6, <1>7, <1>8, <1>9, StepCases

\* A job that is added waits.
LEMMA AddedJobWaits ==
  ASSUME PaymentInv, NEW j \in Jobs, NEW q, NEW o, NEW scenario, NEW count, NEW n,
         AddJob(j, q, Payload(o, scenario, count), n)
  PROVE  Served(o)'
  <1>1. jobs'[j] = [state |-> "waiting", queue |-> q,
                    data |-> Payload(o, scenario, count), left |-> n]
    BY DEF AddJob, PaymentInv, PaymentTypeOK, QueueTypeOK
  <1>2. Queued(j, o)'
    BY <1>1 DEF Queued, Payload
  <1>3. QED  BY <1>2 DEF Served

\* A request goes on, adds its job, or fails and loses the order.
LEMMA RequestGoesOn ==
  ASSUME HandOver, NEW p \in Procs, StepOf(p), NEW o \in Orders, Requesting(p, o)
  PROVE  Served(o)' \/ LosesOrder(o)
  <1> USE DEF HandOver, PaymentInv, PaymentTypeOK
  <1>1. /\ handler[p].order = o
        /\ handler[p].pc \in {"placing", "resetting", "enqueuing"}
    BY DEF Requesting
  <1>2. p \in Api
    BY <1>1, PaymentAssumption DEF HandlersOK, Workers
  <1>3. CASE CallStep(p) \/ FailInCall(p)
    BY <1>1, <1>3 DEF CallStep, FailInCall, Served, Requesting
  <1>4. ASSUME NEW j \in Jobs,
               EnqueueFirstPayment(p, j) \/ EnqueueRetriedPayment(p, j)
        PROVE  Served(o)'
    BY <1>1, <1>4, AddedJobWaits DEF EnqueueFirstPayment, EnqueueRetriedPayment
  <1>5. CASE ResetPayment(p)
    <2>1. handler'[p].order = o /\ handler'[p].pc = "enqueuing"
      BY <1>1, <1>5 DEF ResetPayment, Proceed, Handlers
    <2>2. QED  BY <2>1 DEF Served, Requesting
  <1>6. CASE HandlerThrows(p) \/ FailInHandler(p)
    BY <1>2, <1>6 DEF LosesOrder
  <1>7. ASSUME \/ \E j \in Jobs : \/ TakePayment(p, j) \/ TakeRetry(p, j)
                                  \/ DelayRetry(p, j) \/ ReaddPayment(p, j)
               \/ AnswerMove(p) \/ LoadOrder(p) \/ CountAttempt(p) \/ Simulate(p)
               \/ SettleSuccess(p) \/ SettleFailure(p) \/ SettleTimeout(p)
               \/ RecordOutcome(p) \/ FinishJob(p) \/ ClientStep(p)
        PROVE  FALSE
    BY <1>1, <1>7
       DEF TakePayment, TakeRetry, DelayRetry, ReaddPayment, AnswerMove, LoadOrder,
           CountAttempt, Simulate, SettleSuccess, SettleFailure, SettleTimeout,
           RecordOutcome, FinishJob, ClientStep, PlaceOrder, RequestRetry,
           RequestMove, Start, At
  <1>8. QED  BY <1>3, <1>4, <1>5, <1>6, <1>7, StepCases

\* A worker goes on, hands the order to the queue, or moves it.
LEMMA WorkGoesOn ==
  ASSUME HandOver, NEW p \in Procs, StepOf(p), NEW o \in Orders, Serving(p, o),
         Waits(o)'
  PROVE  Served(o)'
  <1> USE DEF HandOver, PaymentInv, PaymentTypeOK, LifecycleTypeOK
  <1>1. /\ handler[p].order = o
        /\ handler[p].pc \in {"loading", "counting", "simulating", "settling",
                              "delaying", "readding", "recording"}
        /\ handler[p].pc = "recording" => call[p].pc \in {"read", "write", "threw"}
    BY DEF Serving, At
  <1>2. p \in Workers
    BY <1>1, PaymentAssumption DEF HandlersOK, Workers
  <1>3. ASSUME NEW pc \in {"counting", "simulating", "settling", "delaying"},
               Proceed(p, pc)
        PROVE  Served(o)'
    <2>1. handler'[p].order = o /\ handler'[p].pc = pc
      BY <1>1, <1>3 DEF Proceed, Handlers
    <2>2. QED  BY <2>1 DEF Served, Serving
  <1>4. CASE HandlerThrows(p) \/ FailInHandler(p)
    BY <1>1, <1>2, <1>4, FailedJobIsKept DEF HandlerThrows, FailInHandler, Unwind
  <1>5. CASE CallStep(p) \/ FailInCall(p)
    <2>1. UNCHANGED handler
      BY <1>5 DEF CallStep, FailInCall
    <2>2. CASE handler[p].pc # "recording"
      BY <1>1, <2>1, <2>2 DEF Served, Serving
    <2>3. CASE At(p, "recording")
      <3>1. call[p].order = o /\ call[p].next \in {"PAID", "PAYMENT_FAILED"}
        BY <1>1, <2>3 DEF CallsMatch, At
      <3>2. ~WriteStatus(p)
        BY <3>1 DEF WriteStatus, Waits
      <3>3. call'[p].pc \in {"write", "threw"}
        BY <1>1, <1>5, <2>3, <3>2
           DEF CallStep, FailInCall, ReadOrder, RefuseMove, Announce, LoseCall, Calls,
               At
      <3>4. QED  BY <1>1, <2>1, <2>3, <3>3 DEF Served, Serving, At
    <2>4. QED  BY <2>2, <2>3 DEF At
  <1>6. ASSUME NEW j \in Jobs, DelayRetry(p, j) \/ ReaddPayment(p, j)
        PROVE  Served(o)'
    BY <1>1, <1>6, AddedJobWaits DEF DelayRetry, ReaddPayment
  <1>7. CASE LoadOrder(p)
    <2>1. jobs[handler[p].job].state # "free" /\ handler[p].job \in Jobs
          /\ jobs[handler[p].job].data.order = o
      BY <1>1, <1>2 DEF JobsOK, JobsMatch
    <2>2. status[o] # "PENDING"
      BY <2>1 DEF JobsComeLater
    <2>3. status[o] = "PAYMENT_PENDING"
      BY <1>7, <2>2 DEF LoadOrder, lifecycleVars, Waits
    <2>4. QED  BY <1>1, <1>3, <1>7, <2>3 DEF LoadOrder
  <1>8. CASE CountAttempt(p) \/ Simulate(p) \/ SettleTimeout(p)
    BY <1>3, <1>8 DEF CountAttempt, Simulate, SettleTimeout
  <1>9. CASE SettleSuccess(p) \/ SettleFailure(p)
    <2>1. handler'[p].pc = "recording" /\ handler'[p].order = o
      BY <1>1, <1>9 DEF SettleSuccess, SettleFailure, Proceed, Handlers
    <2>2. call'[p].pc = "read"
      BY <1>9 DEF SettleSuccess, SettleFailure, Invoke, NewCall
    <2>3. QED  BY <2>1, <2>2 DEF Served, Serving, At
  <1>10. ASSUME \/ ClientStep(p) \/ AnswerMove(p) \/ RecordOutcome(p) \/ FinishJob(p)
                \/ ResetPayment(p)
                \/ \E j \in Jobs : \/ TakePayment(p, j) \/ TakeRetry(p, j)
                                   \/ EnqueueFirstPayment(p, j)
                                   \/ EnqueueRetriedPayment(p, j)
         PROVE  FALSE
    BY <1>1, <1>10
       DEF ClientStep, PlaceOrder, RequestRetry, RequestMove, AnswerMove,
           RecordOutcome, FinishJob, ResetPayment, TakePayment, TakeRetry,
           EnqueueFirstPayment, EnqueueRetriedPayment, Start, At, Moved
  <1>11. QED
    BY <1>4, <1>5, <1>6, <1>7, <1>8, <1>9, <1>10, StepCases

\* No handler touches the dead letters, on their way or in the queue.
LEMMA LettersGrow ==
  ASSUME NEW p \in Procs, StepOf(p)
  PROVE  letters \subseteq letters' /\ deadLetters \subseteq deadLetters'
  <1>1. ASSUME NEW j \in Jobs,
               \/ EnqueueFirstPayment(p, j)
               \/ EnqueueRetriedPayment(p, j)
               \/ TakePayment(p, j)
               \/ TakeRetry(p, j)
               \/ DelayRetry(p, j)
               \/ ReaddPayment(p, j)
        PROVE  UNCHANGED <<letters, deadLetters>>
    BY <1>1 DEF EnqueueFirstPayment, EnqueueRetriedPayment, TakePayment, TakeRetry,
                DelayRetry, ReaddPayment, AddJob, TakeJob
  <1>2. CASE FinishJob(p)
    BY <1>2 DEF FinishJob, CompleteJob
  <1>3. CASE HandlerThrows(p) \/ FailInHandler(p)
    <2>1. FailJob(handler[p].job) \/ UNCHANGED queueVars
      BY <1>3 DEF HandlerThrows, FailInHandler, Unwind
    <2>2. QED  BY <2>1 DEF FailJob, RetryJob, DeadLetterJob, queueVars
  <1>4. CASE \/ CallStep(p) \/ FailInCall(p) \/ ClientStep(p)
             \/ AnswerMove(p) \/ ResetPayment(p)
    BY <1>4 DEF CallStep, FailInCall, ClientStep, PlaceOrder, RequestRetry,
                RequestMove, AnswerMove, ResetPayment, queueVars
  <1>5. CASE \/ LoadOrder(p) \/ CountAttempt(p) \/ Simulate(p) \/ SettleSuccess(p)
             \/ SettleFailure(p) \/ SettleTimeout(p) \/ RecordOutcome(p)
    BY <1>5 DEF LoadOrder, CountAttempt, Simulate, SettleSuccess, SettleFailure,
                SettleTimeout, RecordOutcome, queueVars
  <1>6. QED  BY <1>1, <1>2, <1>3, <1>4, <1>5, StepCases

\* The death of the process: what a worker had goes back to the queue.
LEMMA CrashPassesOn ==
  ASSUME HandOver, Crash, NEW o \in Orders, Served(o)
  PROVE  Served(o)' \/ LosesOrder(o)
  <1> USE DEF HandOver, PaymentInv, PaymentTypeOK, QueueTypeOK
  <1>1. ASSUME NEW p \in Procs, Requesting(p, o)
        PROVE  LosesOrder(o)
    BY <1>1, PaymentAssumption DEF Requesting, HandlersOK, Workers, LosesOrder
  <1>2. ASSUME NEW p \in Procs, Serving(p, o)
        PROVE  Served(o)'
    <2>1. p \in Workers /\ handler[p].pc # "idle" /\ handler[p].order = o
      BY <1>2, PaymentAssumption DEF Serving, At, HandlersOK, Workers
    <2>2. PICK j \in Jobs : jobs[j].state = "active" /\ jobs[j].data.order = o
      BY <2>1 DEF JobsOK, JobsMatch
    <2>3. Queued(j, o)'
      BY <2>2 DEF Crash, RedeliverActiveJobs, JobRecords, Queued
    <2>4. QED  BY <2>3 DEF Served
  <1>3. ASSUME NEW j \in Jobs, Queued(j, o)
        PROVE  Served(o)'
    <2>1. Queued(j, o)'
      BY <1>3 DEF Crash, RedeliverActiveJobs, Queued
    <2>2. QED  BY <2>1 DEF Served
  <1>4. ASSUME NEW letter \in letters, letter.data.order = o
        PROVE  LosesOrder(o)
    BY <1>4 DEF LosesOrder
  <1>5. ASSUME NEW letter \in deadLetters, letter.data.order = o
        PROVE  Served(o)'
    BY <1>5 DEF Crash, RedeliverActiveJobs, Served
  <1>6. QED  BY <1>1, <1>2, <1>3, <1>4, <1>5 DEF Served

\* Every step passes the order on or is one of the two losses.
LEMMA WaitingOrderStep ==
  ASSUME HandOver, [Next]_vars, NEW o \in Orders, Waits(o)', Waits(o) => Served(o)
  PROVE  Served(o)' \/ LosesOrder(o)
  <1> USE DEF HandOver, PaymentInv, PaymentTypeOK, LifecycleTypeOK
  <1>1. CASE UNCHANGED vars
    BY <1>1 DEF vars, lifecycleVars, queueVars, Waits, Served, Requesting, Serving,
                Queued, At
  <1>2. CASE PostDeadLetter
    BY <1>2 DEF PostDeadLetter, PostLetter, lifecycleVars, Waits, Served, Requesting,
                Serving, Queued, At
  <1>3. CASE Crash
    BY <1>3, CrashPassesOn DEF Crash, LoseAllCalls, Waits
  <1>4. ASSUME NEW p \in Procs, StepOf(p), Waits(o)
        PROVE  Served(o)' \/ LosesOrder(o)
    <2>1. ASSUME NEW q \in Procs, Requesting(q, o) \/ Serving(q, o), q # p
          PROVE  Served(o)'
      <3>1. handler'[q] = handler[q] /\ call'[q] = call[q]
        BY <1>4, <2>1, OthersStay
      <3>2. QED  BY <2>1, <3>1 DEF Served, Requesting, Serving, At
    <2>2. CASE Requesting(p, o) \/ Serving(p, o)
      BY <1>4, <2>2, RequestGoesOn, WorkGoesOn
    <2>3. ASSUME NEW j \in Jobs, Queued(j, o)
          PROVE  Served(o)'
      BY <1>4, <2>3, QueuedGoesOn
    <2>4. ASSUME NEW letter \in letters \cup deadLetters, letter.data.order = o
          PROVE  Served(o)'
      BY <1>4, <2>4, LettersGrow DEF Served
    <2>5. QED  BY <1>4, <2>1, <2>2, <2>3, <2>4 DEF Served
  <1>5. ASSUME NEW p \in Procs, StepOf(p), ~Waits(o)
        PROVE  Served(o)'
    <2>1. ASSUME NEW scenario \in Scenarios, PlaceOrder(p, o, scenario)
          PROVE  Served(o)'
      BY <2>1 DEF PlaceOrder, Start, Served, Requesting
    <2>2. CASE WriteStatus(p) /\ call[p].order = o /\ UNCHANGED handler
      <3>1. call[p].pc = "write" /\ call[p].next \in {"PENDING", "PAYMENT_PENDING"}
        BY <2>2 DEF WriteStatus, Waits
      <3>2. handler[p].order = o /\ handler[p].pc \in {"placing", "resetting"}
        BY <2>2, <3>1, WhoAsksForWhat
      <3>3. QED  BY <2>2, <3>2 DEF Served, Requesting
    <2>3. QED  BY <1>5, <2>1, <2>2, StatusMoves DEF Waits
  <1>6. QED  BY <1>1, <1>2, <1>3, <1>4, <1>5 DEF Next, StepOf

\* An order that waits for its payment is never dropped by a worker, whatever
\* fails and however often the process dies: it is lost only with a request that
\* fails between its move and its job, or with a dead letter that nobody awaits.
THEOREM WaitingOrdersArePassedOn == Spec => NoOrderForgotten
  <1>1. HandOver /\ [Next]_vars =>
          [\A o \in Orders :
              Waits(o)' /\ (Waits(o) => Served(o)) => Served(o)' \/ LosesOrder(o)]_vars
    BY WaitingOrderStep
  <1>2. QED  BY <1>1, HandOverInvariant, PTL DEF Spec, NoOrderForgotten

-----------------------------------------------------------------------------
(* Requests that come one at a time, nothing that fails, no cancellation. *)

\* A failure between the two writes, a repeated attempt, or a cancellation that
\* overtakes the payment makes the rows differ or charges twice: these are the
\* conditions of the run payment_serial.
SerialCheckout ==
    /\ \A p, q \in Api : p = q
    /\ FaultyProcs = {}
    /\ MaxCrashes = 0
    /\ "cancel" \notin Requests

\* The one handler that has the payment of the order in hand ...
Holding(p, o) ==
    /\ handler[p].order = o
    /\ \/ handler[p].pc \in {"placing", "resetting", "enqueuing", "loading",
                             "counting", "simulating", "settling", "delaying",
                             "readding"}
       \/ At(p, "recording") /\ call[p].pc \in {"read", "write"}

\* ... or the one job that waits to be.
OneHolder ==
    \A o \in Orders :
        /\ \A p, q \in Procs : Holding(p, o) /\ Holding(q, o) => p = q
        /\ \A i, j \in Jobs : Queued(i, o) /\ Queued(j, o) => i = j
        /\ \A p \in Procs, j \in Jobs : ~(Holding(p, o) /\ Queued(j, o))

\* Where a handler is while its order is PAYMENT_PENDING.
PendingAt(p) ==
    \/ handler[p].pc \in {"enqueuing", "loading", "counting", "simulating",
                          "settling", "delaying", "readding"}
    \/ handler[p].pc \in {"placing", "resetting"}
       /\ call[p].pc \in {"announce", "returned"}
    \/ At(p, "recording") /\ call[p].pc \in {"read", "write"}

\* Where it is before the provider is asked.
Unpaid(p) ==
    handler[p].pc \in {"placing", "resetting", "enqueuing", "loading", "counting",
                       "simulating", "delaying", "readding"}

\* What a handler may rely on, although it read the order some awaits ago.
HolderKnows(p) ==
    /\ call[p].pc = "threw" => At(p, "answering")
    /\ PendingAt(p) => status[handler[p].order] = "PAYMENT_PENDING"
    /\ At(p, "placing") /\ call[p].pc \in {"read", "write"} =>
          status[handler[p].order] = "PENDING"
    /\ At(p, "resetting") /\ call[p].pc \in {"read", "write"} =>
          status[handler[p].order] = "PAYMENT_FAILED"
    /\ At(p, "answering") /\ call[p].pc = "write" =>
          status[handler[p].order] = "PAID"
    /\ Unpaid(p) => charges[handler[p].order] = 0
    /\ At(p, "settling") =>
          charges[handler[p].order] = IF OutcomeAt(p) = "success" THEN 1 ELSE 0
    /\ At(p, "recording") /\ call[p].pc \in {"read", "write"} =>
          IF call[p].next = "PAID"
          THEN charges[handler[p].order] = 1 /\ payment[handler[p].order].status = "SUCCEEDED"
          ELSE charges[handler[p].order] = 0 /\ payment[handler[p].order].status = "FAILED"

\* What is known of an order by its status.
OrderKnows(o) ==
    /\ status[o] \in {NoRow, "PENDING", "PAYMENT_PENDING", "PAYMENT_FAILED"}
                       \cup PaidStatuses
    /\ status[o] \in {NoRow, "PENDING", "PAYMENT_FAILED"} => charges[o] = 0
    /\ charges[o] <= 1
    /\ status[o] \in PaidStatuses => payment[o].status = "SUCCEEDED"
    /\ status[o] = "PAYMENT_FAILED" => payment[o].status = "FAILED"
    /\ \A j \in Jobs : Queued(j, o) => status[o] = "PAYMENT_PENDING" /\ charges[o] = 0

\* ... and an order that waits is in somebody's hands.
SerialInv ==
    /\ OneHolder
    /\ \A p \in Procs : HolderKnows(p)
    /\ \A o \in Orders : OrderKnows(o)
    /\ letters = {} /\ deadLetters = {}
    /\ \A o \in Orders : Waits(o) => Served(o)

\* Everything that the steps below rest on.
SerialState == HandOver /\ SerialInv

-----------------------------------------------------------------------------
(* The steps that are left. *)

\* Only an answer is refused: every other handler asks for a move that the
\* table allows from the status it relies on.
LEMMA OnlyAnswersAreRefused ==
  ASSUME SerialState, NEW p \in Procs, RefuseMove(p)
  PROVE  At(p, "answering")
  <1> USE DEF SerialState, HandOver, PaymentInv
  <1>1. SUFFICES ASSUME ~At(p, "answering")
                 PROVE  Allowed(status[call[p].order], call[p].next)
    BY DEF RefuseMove
  <1>2. call[p].pc = "read" /\ call[p].order = handler[p].order
    BY DEF RefuseMove, HandlersOK, CallsMatch
  <1>3. CASE At(p, "placing")
    BY <1>2, <1>3 DEF SerialInv, HolderKnows, CallsMatch, At, Allowed, Transitions
  <1>4. CASE At(p, "resetting")
    BY <1>2, <1>4 DEF SerialInv, HolderKnows, CallsMatch, At, Allowed, Transitions
  <1>5. CASE At(p, "recording")
    BY <1>2, <1>5 DEF SerialInv, HolderKnows, PendingAt, CallsMatch, At, Allowed,
                      Transitions
  <1>6. QED
    BY <1>1, <1>2, <1>3, <1>4, <1>5 DEF HandlersOK, At

\* A request for an answer is an accept or a reject.
LEMMA AnswersAccept ==
  ASSUME SerialState, SerialCheckout, NEW p \in Procs, At(p, "answering")
  PROVE  call[p].next \in {"ACCEPTED", "REJECTED"}
  <1>1. call[p].next \in {TargetOf[r] : r \in Requests \cap DOMAIN TargetOf}
    BY DEF SerialState, HandOver, CallsMatch, At
  <1>2. Requests \cap DOMAIN TargetOf \subseteq {"accept", "reject"}
    BY DEF SerialCheckout, TargetOf
  <1>3. QED  BY <1>1, <1>2 DEF TargetOf

\* No handler fails, and an exception is one that an answer throws.
LEMMA SerialSteps ==
  ASSUME SerialState, SerialCheckout, NEW p \in Procs, StepOf(p)
  PROVE  /\ ~FailInCall(p) /\ ~FailInHandler(p)
         /\ HandlerThrows(p) => At(p, "answering") /\ p \in Api /\ UNCHANGED queueVars
  <1>1. ~FailInCall(p) /\ ~FailInHandler(p)
    BY DEF SerialCheckout, FailInCall, FailInHandler, Fault
  <1>2. ASSUME HandlerThrows(p)
        PROVE  At(p, "answering") /\ p \in Api /\ UNCHANGED queueVars
    <2>1. At(p, "answering")
      BY <1>2 DEF HandlerThrows, SerialState, HandOver, SerialInv, HolderKnows
    <2>2. p \in Api /\ p \notin Workers
      BY <2>1, PaymentAssumption DEF SerialState, HandOver, PaymentInv, HandlersOK, At, Workers
    <2>3. QED  BY <1>2, <2>1, <2>2 DEF HandlerThrows, Unwind
  <1>3. QED  BY <1>1, <1>2

\* Only a handler that asks the provider charges, and only its own order.
LEMMA WhoCharges ==
  ASSUME PaymentInv, NEW p \in Procs, StepOf(p), NEW o \in Orders,
         charges'[o] # charges[o]
  PROVE  Simulate(p) /\ handler[p].order = o
  <1> USE DEF PaymentInv, PaymentTypeOK
  <1>1. Simulate(p)
    BY StepCases
       DEF CallStep, EnqueueFirstPayment, EnqueueRetriedPayment, AnswerMove,
           ResetPayment, TakePayment, TakeRetry, DelayRetry, ReaddPayment,
           LoadOrder, CountAttempt, SettleSuccess, SettleFailure, SettleTimeout,
           RecordOutcome, FinishJob, HandlerThrows, ClientStep, PlaceOrder,
           RequestRetry, RequestMove, FailInCall, FailInHandler, paymentVars
  <1>2. QED  BY <1>1 DEF Simulate

\* Only a handler that settles or resets writes a payment row, that of its order.
LEMMA WhoWritesPayments ==
  ASSUME PaymentInv, NEW p \in Procs, StepOf(p), NEW o \in Orders,
         payment'[o] # payment[o]
  PROVE  /\ ResetPayment(p) \/ SettleSuccess(p) \/ SettleFailure(p) \/ SettleTimeout(p)
         /\ handler[p].order = o
  <1> USE DEF PaymentInv, PaymentTypeOK
  <1>1. ResetPayment(p) \/ SettleSuccess(p) \/ SettleFailure(p) \/ SettleTimeout(p)
    BY StepCases
       DEF CallStep, EnqueueFirstPayment, EnqueueRetriedPayment, AnswerMove,
           TakePayment, TakeRetry, DelayRetry, ReaddPayment, LoadOrder,
           CountAttempt, Simulate, RecordOutcome, FinishJob, HandlerThrows,
           ClientStep, PlaceOrder, RequestRetry, RequestMove, FailInCall,
           FailInHandler, paymentVars
  <1>2. QED
    BY <1>1 DEF ResetPayment, SettleSuccess, SettleFailure, SettleTimeout

\* A handler that queues a job does so for its own order, and lets go of it.
LEMMA WhoQueues ==
  ASSUME SerialState, SerialCheckout, NEW p \in Procs, StepOf(p),
         NEW o \in Orders, NEW j \in Jobs, Queued(j, o)', ~Queued(j, o)
  PROVE  /\ Holding(p, o) /\ PendingAt(p) /\ Unpaid(p)
         /\ ~\E x \in Orders : Holding(p, x)'
         /\ \A i \in Jobs : i # j => jobs'[i] = jobs[i]
  <1> USE DEF SerialState, HandOver, PaymentInv, PaymentTypeOK, QueueTypeOK
  <1>1. jobs'[j] # jobs[j]
    BY DEF Queued
  <1>2. ASSUME NEW i \in Jobs,
               \/ EnqueueFirstPayment(p, i)
               \/ EnqueueRetriedPayment(p, i)
               \/ DelayRetry(p, i)
               \/ ReaddPayment(p, i)
        PROVE  /\ Holding(p, o) /\ PendingAt(p) /\ Unpaid(p)
               /\ ~\E x \in Orders : Holding(p, x)'
               /\ \A k \in Jobs : k # j => jobs'[k] = jobs[k]
    <2>1. PICK scenario, count, q, n :
              AddJob(i, q, Payload(handler[p].order, scenario, count), n)
      BY <1>2 DEF EnqueueFirstPayment, EnqueueRetriedPayment, DelayRetry, ReaddPayment
    <2>2. i = j
      BY <1>1, <2>1 DEF AddJob
    <2>3. handler[p].order = o
      BY <2>1, <2>2 DEF AddJob, Queued, Payload
    <2>4. PendingAt(p) /\ Unpaid(p)
      BY <1>2 DEF EnqueueFirstPayment, EnqueueRetriedPayment, DelayRetry,
                  ReaddPayment, PendingAt, Unpaid, At, Moved
    <2>5. handler'[p].pc \in {"idle", "rereading", "done"}
      BY <1>2 DEF EnqueueFirstPayment, EnqueueRetriedPayment, DelayRetry,
                  ReaddPayment, Stop, Proceed, IdleHandler, Handlers
    <2>6. Holding(p, o)
      BY <1>2, <2>3 DEF EnqueueFirstPayment, EnqueueRetriedPayment, DelayRetry,
                        ReaddPayment, Holding, At
    <2>7. ~\E x \in Orders : Holding(p, x)'
      BY <2>5 DEF Holding, At
    <2>8. \A k \in Jobs : k # j => jobs'[k] = jobs[k]
      BY <2>1, <2>2 DEF AddJob
    <2>9. QED  BY <2>4, <2>6, <2>7, <2>8
  <1>3. ASSUME NEW i \in Jobs, TakePayment(p, i) \/ TakeRetry(p, i)
        PROVE  FALSE
    BY <1>1, <1>3 DEF TakePayment, TakeRetry, TakeJob, Queued, JobRecords
  <1>4. CASE FinishJob(p)
    BY <1>1, <1>4 DEF FinishJob, CompleteJob, FreeJob, Queued
  <1>5. CASE UNCHANGED jobs
    BY <1>1, <1>5
  <1>6. CASE HandlerThrows(p)
    BY <1>5, <1>6, SerialSteps DEF queueVars
  <1>7. CASE CallStep(p) \/ ClientStep(p) \/ AnswerMove(p) \/ ResetPayment(p)
    BY <1>5, <1>7 DEF CallStep, ClientStep, PlaceOrder, RequestRetry, RequestMove,
                      AnswerMove, ResetPayment, queueVars
  <1>8. CASE \/ LoadOrder(p) \/ CountAttempt(p) \/ Simulate(p) \/ SettleSuccess(p)
             \/ SettleFailure(p) \/ SettleTimeout(p) \/ RecordOutcome(p)
    BY <1>5, <1>8 DEF LoadOrder, CountAttempt, Simulate, SettleSuccess,
                      SettleFailure, SettleTimeout, RecordOutcome, queueVars
  <1>9. QED
    BY <1>2, <1>3, <1>4, <1>6, <1>7, <1>8, SerialSteps, StepCases

-----------------------------------------------------------------------------
(* One holder at a time. *)

\* A handler that holds an order knows its status, which is none of those from
\* which a client or an answer starts.
LEMMA HeldStatus ==
  ASSUME SerialState, NEW p \in Procs, NEW o \in Orders, Holding(p, o)
  PROVE  /\ status[o] \in {"PENDING", "PAYMENT_PENDING", "PAYMENT_FAILED"}
         /\ status[o] = "PAYMENT_FAILED" => At(p, "resetting")
  <1> USE DEF SerialState, HandOver, SerialInv, Holding
  <1>1. HolderKnows(p)
    OBVIOUS
  <1>2. handler[p].pc \in {"placing", "resetting"} =>
          call[p].pc \in {"read", "write", "announce", "returned"}
    BY <1>1 DEF HolderKnows, At, CallsMatch, PaymentInv, PaymentTypeOK,
                LifecycleTypeOK, Calls
  <1>3. QED
    BY <1>1, <1>2 DEF HolderKnows, PendingAt, At

\* What the others hold, they go on holding.
LEMMA OthersHold ==
  ASSUME PaymentInv, NEW p \in Procs, StepOf(p), NEW q \in Procs, q # p, NEW o
  PROVE  Holding(q, o)' <=> Holding(q, o)
  BY OthersStay DEF Holding, At

\* A handler that takes up an order finds it free, or takes its job.
LEMMA WhoTakesUp ==
  ASSUME SerialState, SerialCheckout, NEW p \in Procs, StepOf(p),
         NEW o \in Orders, Holding(p, o)', ~Holding(p, o)
  PROVE  \/ \E j \in Jobs : /\ Queued(j, o) /\ jobs'[j].state = "active"
                            /\ \A i \in Jobs : i # j => jobs'[i] = jobs[i]
         \/ UNCHANGED jobs /\ p \in Api /\ At(p, "idle")
            /\ status[o] \in {NoRow, "PAYMENT_FAILED"}
  <1> USE DEF SerialState, HandOver, PaymentInv, PaymentTypeOK, LifecycleTypeOK, QueueTypeOK
  <1>1. ASSUME NEW j \in Jobs, TakePayment(p, j) \/ TakeRetry(p, j)
        PROVE  \E i \in Jobs : /\ Queued(i, o) /\ jobs'[i].state = "active"
                               /\ \A k \in Jobs : k # i => jobs'[k] = jobs[k]
    <2>1. jobs[j].data.order = o
      BY <1>1 DEF TakePayment, TakeRetry, Start, Holding
    <2>2. /\ jobs[j].state = "waiting" /\ jobs'[j].state = "active"
          /\ \A k \in Jobs : k # j => jobs'[k] = jobs[k]
      BY <1>1 DEF TakePayment, TakeRetry, TakeJob, Waiting, JobRecords
    <2>3. QED  BY <2>1, <2>2 DEF Queued
  <1>2. CASE ClientStep(p)
    <2>1. PICK x \in Orders :
            \/ \E scenario \in Scenarios : PlaceOrder(p, x, scenario)
            \/ \E scenario \in Scenarios : RequestRetry(p, x, scenario)
            \/ \E request \in Requests : RequestMove(p, x, request)
      BY <1>2 DEF ClientStep
    <2>2. handler'[p].order = x /\ handler'[p].pc # "answering"
      BY <2>1 DEF PlaceOrder, RequestRetry, RequestMove, Start, Holding, At
    <2>3. x = o
      BY <2>2 DEF Holding
    <2>4. QED
      BY <2>1, <2>2, <2>3 DEF PlaceOrder, RequestRetry, RequestMove, Start, Insert,
                              At, queueVars
  <1>3. ASSUME handler'[p].order = handler[p].order, handler[p].pc # "answering",
               Holding(p, handler[p].order)
        PROVE  FALSE
    BY <1>3 DEF Holding
  <1>4. CASE CallStep(p)
    <2>1. handler'[p] = handler[p]
      BY <1>4 DEF CallStep
    <2>2. At(p, "recording") /\ call'[p].pc \in {"read", "write"}
      BY <2>1 DEF Holding, At
    <2>3. call[p].pc \in {"read", "write"}
      BY <1>4, <2>2 DEF CallStep, ReadOrder, RefuseMove, WriteStatus, Announce, Calls
    <2>4. QED  BY <1>3, <2>1, <2>2, <2>3 DEF Holding, At
  <1>5. CASE \/ LoadOrder(p) \/ CountAttempt(p) \/ Simulate(p) \/ SettleSuccess(p)
             \/ SettleFailure(p) \/ SettleTimeout(p) \/ ResetPayment(p)
    <2>1. handler'[p].order = handler[p].order
      BY <1>5 DEF LoadOrder, CountAttempt, Simulate, SettleSuccess, SettleFailure,
                  SettleTimeout, ResetPayment, Proceed, Handlers
    <2>2. handler[p].pc \in {"loading", "counting", "simulating", "settling", "resetting"}
      BY <1>5 DEF LoadOrder, CountAttempt, Simulate, SettleSuccess, SettleFailure,
                  SettleTimeout, ResetPayment, At
    <2>3. QED  BY <1>3, <2>1, <2>2 DEF Holding
  <1>6. ASSUME handler'[p].pc \in {"idle", "rereading", "done"}
        PROVE  FALSE
    BY <1>6 DEF Holding, At
  <1>7. CASE \/ \E j \in Jobs : EnqueueFirstPayment(p, j) \/ EnqueueRetriedPayment(p, j)
             \/ AnswerMove(p) \/ FinishJob(p) \/ HandlerThrows(p)
    BY <1>6, <1>7 DEF EnqueueFirstPayment, EnqueueRetriedPayment, AnswerMove,
                      FinishJob, HandlerThrows, Unwind, Stop, IdleHandler
  <1>8. CASE \/ \E j \in Jobs : DelayRetry(p, j) \/ ReaddPayment(p, j)
             \/ RecordOutcome(p)
    BY <1>6, <1>8 DEF DelayRetry, ReaddPayment, RecordOutcome, Proceed, Handlers
  <1>9. QED
    BY <1>1, <1>2, <1>4, <1>5, <1>7, <1>8, SerialSteps, StepCases

\* Nobody holds an order that is not placed yet or whose payment failed, when
\* the one request that there can be has just come in.
LEMMA FreeToTakeUp ==
  ASSUME SerialState, SerialCheckout, NEW p \in Api, At(p, "idle"), NEW o \in Orders,
         status[o] \in {NoRow, "PAYMENT_FAILED"}
  PROVE  /\ \A q \in Procs : ~Holding(q, o)
         /\ \A j \in Jobs : ~Queued(j, o)
  <1>1. ASSUME NEW q \in Procs, Holding(q, o)
        PROVE  FALSE
    <2>1. At(q, "resetting")
      BY <1>1, HeldStatus DEF NoRow
    <2>2. q \in Api
      BY <2>1, PaymentAssumption DEF SerialState, HandOver, PaymentInv, HandlersOK, At, Workers
    <2>3. QED  BY <2>1, <2>2 DEF SerialCheckout, At
  <1>2. QED
    BY <1>1 DEF SerialState, HandOver, SerialInv, OrderKnows, NoRow

\* Every step leaves at most one holder.
LEMMA OneHolderStep ==
  ASSUME SerialState, SerialCheckout, NEW p \in Procs, StepOf(p)
  PROVE  OneHolder'
  <1> SUFFICES ASSUME NEW o \in Orders
               PROVE  OneHolder!(o)'
    BY DEF OneHolder
  <1>0. OneHolder!(o)
    BY DEF SerialState, HandOver, SerialInv, OneHolder
  <1>1. \A q \in Procs : q # p => (Holding(q, o)' <=> Holding(q, o))
    BY OthersHold DEF SerialState, HandOver
  <1>2. ASSUME NEW j \in Jobs, Queued(j, o)', ~Queued(j, o)
        PROVE  OneHolder!(o)'
    <2>1. Holding(p, o) /\ ~Holding(p, o)'
      BY <1>2, WhoQueues
    <2>2. \A i \in Jobs : i # j => (Queued(i, o)' <=> Queued(i, o))
      BY <1>2, WhoQueues DEF Queued
    <2>3. QED  BY <1>0, <1>1, <2>1, <2>2
  <1>3. CASE Holding(p, o)' /\ ~Holding(p, o)
    <2>1. ASSUME NEW j \in Jobs, Queued(j, o), jobs'[j].state = "active",
                 \A i \in Jobs : i # j => jobs'[i] = jobs[i]
          PROVE  OneHolder!(o)'
      <3>1. \A i \in Jobs : ~Queued(i, o)'
        BY <1>0, <2>1 DEF Queued
      <3>2. \A q \in Procs : ~Holding(q, o)
        BY <1>0, <2>1
      <3>3. QED  BY <1>1, <3>1, <3>2
    <2>2. ASSUME UNCHANGED jobs, p \in Api, At(p, "idle"),
                 status[o] \in {NoRow, "PAYMENT_FAILED"}
          PROVE  OneHolder!(o)'
      <3>1. \A i \in Jobs : ~Queued(i, o)'
        BY <2>2, FreeToTakeUp DEF Queued
      <3>2. \A q \in Procs : ~Holding(q, o)
        BY <2>2, FreeToTakeUp
      <3>3. QED  BY <1>1, <3>1, <3>2
    <2>3. QED  BY <1>3, <2>1, <2>2, WhoTakesUp
  <1>4. CASE /\ \A j \in Jobs : Queued(j, o)' => Queued(j, o)
             /\ Holding(p, o)' => Holding(p, o)
    BY <1>0, <1>1, <1>4
  <1>5. QED  BY <1>2, <1>3, <1>4

-----------------------------------------------------------------------------
(* What a handler knows stays true until it acts on it. *)

\* A write of transitionOrder moves the order along the table.
LEMMA WritesFollowTheTable ==
  ASSUME SerialState, SerialCheckout, NEW p \in Procs, WriteStatus(p)
  PROVE  /\ Allowed(status[call[p].order], call[p].next)
         /\ \/ Holding(p, call[p].order)
            \/ At(p, "answering") /\ status[call[p].order] = "PAID"
  <1> USE DEF SerialState, HandOver, PaymentInv
  <1>1. /\ call[p].pc = "write" /\ call[p].order = handler[p].order
        /\ HolderKnows(p)
    BY WhoAsksForWhat DEF WriteStatus, SerialInv
  <1>2. CASE At(p, "answering")
    BY <1>1, <1>2, AnswersAccept DEF HolderKnows, Allowed, Transitions
  <1>3. CASE At(p, "placing") \/ At(p, "resetting") \/ At(p, "recording")
    <2>1. Holding(p, call[p].order)
      BY <1>1, <1>3 DEF Holding, At
    <2>2. Allowed(status[call[p].order], call[p].next)
      BY <1>1, <1>3 DEF HolderKnows, PendingAt, CallsMatch, At, Allowed, Transitions
    <2>3. QED  BY <2>1, <2>2
  <1>4. QED  BY <1>1, <1>2, <1>3 DEF HandlersOK, At

\* Nobody touches the rows of an order that another handler holds.
LEMMA HeldOrderIsLeft ==
  ASSUME SerialState, SerialCheckout, NEW p \in Procs, StepOf(p),
         NEW q \in Procs, q # p, NEW o \in Orders, Holding(q, o)
  PROVE  status'[o] = status[o] /\ charges'[o] = charges[o] /\ payment'[o] = payment[o]
  <1> USE DEF SerialState, HandOver
  <1>1. ~Holding(p, o)
    BY DEF SerialInv, OneHolder
  <1>2. charges'[o] = charges[o]
    BY <1>1, WhoCharges DEF Simulate, Holding, At
  <1>3. payment'[o] = payment[o]
    BY <1>1, WhoWritesPayments
       DEF ResetPayment, SettleSuccess, SettleFailure, SettleTimeout, Holding, At
  <1>4. status'[o] = status[o]
    <2>1. status[o] # NoRow /\ status[o] # "PAID"
      BY HeldStatus DEF NoRow
    <2>2. ~WriteStatus(p) \/ call[p].order # o
      BY <1>1, <2>1, WritesFollowTheTable
    <2>3. QED  BY <2>1, <2>2, StatusMoves DEF PlaceOrder, Insert
  <1>5. QED  BY <1>2, <1>3, <1>4

\* What another handler knows stays true.
LEMMA OthersKnow ==
  ASSUME SerialState, SerialCheckout, NEW p \in Procs, StepOf(p),
         NEW q \in Procs, q # p
  PROVE  HolderKnows(q)'
  <1> USE DEF SerialState, HandOver, PaymentInv
  <1>0. handler'[q] = handler[q] /\ call'[q] = call[q] /\ HolderKnows(q)
    BY OthersStay DEF SerialInv
  <1>1. CASE handler[q].order \in Orders /\ Holding(q, handler[q].order)
    <2>1. /\ status'[handler[q].order] = status[handler[q].order]
          /\ charges'[handler[q].order] = charges[handler[q].order]
          /\ payment'[handler[q].order] = payment[handler[q].order]
      BY <1>1, HeldOrderIsLeft
    <2>2. At(q, "settling") => OutcomeAt(q)' = OutcomeAt(q)
      <3>1. At(q, "settling") => q \in Workers /\ handler[q].pc # "idle"
        BY PaymentAssumption DEF HandlersOK, At, Workers
      <3>2. At(q, "settling") => jobs'[handler[q].job] = jobs[handler[q].job]
        BY <3>1, OthersKeepJobs
      <3>3. QED  BY <1>0, <3>2 DEF OutcomeAt
    <2>3. QED
      BY <1>0, <2>1, <2>2 DEF HolderKnows, PendingAt, Unpaid, At
  <1>2. CASE At(q, "answering")
    <2>1. q \in Api /\ handler[q].order \in Orders
      BY <1>2, PaymentAssumption DEF HandlersOK, At, Workers
    <2>2. CASE call[q].pc = "write"
      <3>1. status[handler[q].order] = "PAID"
        BY <1>0, <1>2, <2>2 DEF HolderKnows
      <3>2. ~At(p, "answering")
        BY <2>1, PaymentAssumption DEF SerialCheckout, HandlersOK, At, Workers
      <3>3. ~WriteStatus(p) \/ call[p].order # handler[q].order
        BY <2>1, <3>1, <3>2, WritesFollowTheTable, HeldStatus
      <3>4. status'[handler[q].order] = "PAID"
        BY <2>1, <3>1, <3>3, StatusMoves DEF PlaceOrder, Insert, NoRow
      <3>5. QED
        BY <1>0, <1>2, <3>4 DEF HolderKnows, PendingAt, Unpaid, At
    <2>3. CASE call[q].pc # "write"
      BY <1>0, <1>2, <2>3 DEF HolderKnows, PendingAt, Unpaid, At
    <2>4. QED  BY <2>2, <2>3
  <1>3. CASE ~At(q, "answering") /\ ~Holding(q, handler[q].order)
    BY <1>0, <1>3 DEF HolderKnows, Holding, PendingAt, Unpaid, At
  <1>4. handler[q].pc = "idle" \/ handler[q].order \in Orders
    BY DEF HandlersOK
  <1>5. CASE handler[q].pc = "idle"
    BY <1>0, <1>5 DEF HolderKnows, PendingAt, Unpaid, At
  <1>6. QED  BY <1>1, <1>2, <1>3, <1>4, <1>5

\* A handler that stands between two of its awaits with nothing in hand.
LEMMA NothingToKnow ==
  ASSUME SerialState, NEW p \in Procs,
         handler'[p].pc \in {"idle", "rereading", "done"},
         call'[p].pc # "threw"
  PROVE  HolderKnows(p)'
  BY DEF HolderKnows, PendingAt, Unpaid, At

\* transitionOrder tells its handler what it may rely on.
LEMMA CallTellsHolder ==
  ASSUME SerialState, SerialCheckout, NEW p \in Procs, CallStep(p)
  PROVE  HolderKnows(p)'
  <1> USE DEF SerialState, HandOver, PaymentInv, PaymentTypeOK, LifecycleTypeOK
  <1>0. HolderKnows(p) /\ UNCHANGED <<handler, payment, charges, jobs>>
    BY DEF SerialInv, CallStep, paymentVars, queueVars
  <1>1. /\ handler[p].pc \in {"placing", "answering", "resetting", "recording"}
        /\ call[p].order = handler[p].order /\ handler[p].order \in Orders
    BY DEF CallStep, ReadOrder, RefuseMove, WriteStatus, Announce, HandlersOK, CallsMatch
  <1>2. CASE ReadOrder(p)
    <2>1. /\ call[p].pc = "read" /\ call'[p].pc = "write" /\ UNCHANGED status
          /\ call'[p].next = call[p].next
      BY <1>2 DEF ReadOrder, Calls
    <2>2. At(p, "answering") => status[handler[p].order] = "PAID"
      BY <1>1, <1>2, AnswersAccept DEF ReadOrder, Allowed, Transitions
    <2>3. QED
      BY <1>0, <1>1, <2>1, <2>2 DEF HolderKnows, PendingAt, Unpaid, At
  <1>3. CASE RefuseMove(p)
    <2>1. At(p, "answering") /\ call'[p].pc = "threw"
      BY <1>3, OnlyAnswersAreRefused DEF RefuseMove, Calls
    <2>2. QED
      BY <1>0, <2>1 DEF HolderKnows, PendingAt, Unpaid, At
  <1>4. CASE WriteStatus(p)
    <2>1. call'[p].pc = "announce" /\ status'[handler[p].order] = call[p].next
      BY <1>1, <1>4 DEF WriteStatus, Calls
    <2>2. handler[p].pc \in {"placing", "resetting"} => call[p].next = "PAYMENT_PENDING"
      BY DEF CallsMatch
    <2>3. QED
      BY <1>0, <1>1, <2>1, <2>2 DEF HolderKnows, PendingAt, Unpaid, At
  <1>5. CASE Announce(p)
    <2>1. /\ call[p].pc = "announce" /\ call'[p].pc = "returned" /\ UNCHANGED status
      BY <1>5 DEF Announce, Calls
    <2>2. QED
      BY <1>0, <1>1, <2>1 DEF HolderKnows, PendingAt, Unpaid, At
  <1>6. QED  BY <1>2, <1>3, <1>4, <1>5 DEF CallStep

\* A client's request starts from the status that it has read.
LEMMA ClientTellsHolder ==
  ASSUME SerialState, SerialCheckout, NEW p \in Procs, ClientStep(p)
  PROVE  HolderKnows(p)'
  <1> USE DEF SerialState, HandOver, PaymentInv, PaymentTypeOK, LifecycleTypeOK
  <1>1. ASSUME NEW o \in Orders, NEW scenario \in Scenarios, PlaceOrder(p, o, scenario)
        PROVE  HolderKnows(p)'
    <2>1. charges'[o] = 0 /\ status'[o] = "PENDING"
      BY <1>1 DEF PlaceOrder, Insert, paymentVars, SerialInv, OrderKnows
    <2>2. handler'[p].pc = "placing" /\ handler'[p].order = o /\ call'[p].pc = "read"
      BY <1>1 DEF PlaceOrder, Insert, Start, NewCall
    <2>3. QED
      BY <2>1, <2>2 DEF HolderKnows, PendingAt, Unpaid, At
  <1>2. ASSUME NEW o \in Orders, NEW scenario \in Scenarios, RequestRetry(p, o, scenario)
        PROVE  HolderKnows(p)'
    <2>1. charges'[o] = 0 /\ status'[o] = "PAYMENT_FAILED"
      BY <1>2 DEF RequestRetry, Invoke, paymentVars, SerialInv, OrderKnows
    <2>2. handler'[p].pc = "resetting" /\ handler'[p].order = o /\ call'[p].pc = "read"
      BY <1>2 DEF RequestRetry, Invoke, Start, NewCall
    <2>3. QED
      BY <2>1, <2>2 DEF HolderKnows, PendingAt, Unpaid, At
  <1>3. ASSUME NEW o \in Orders, NEW request \in Requests, RequestMove(p, o, request)
        PROVE  HolderKnows(p)'
    <2>1. handler'[p].pc = "answering" /\ call'[p].pc = "read"
      BY <1>3 DEF RequestMove, Invoke, Start, NewCall
    <2>2. QED
      BY <2>1 DEF HolderKnows, PendingAt, Unpaid, At
  <1>4. QED  BY <1>1, <1>2, <1>3 DEF ClientStep

\* A worker knows what the job and its own steps before have told it.
LEMMA WorkerTellsHolder ==
  ASSUME SerialState, SerialCheckout, NEW p \in Procs, WorkerStep(p)
  PROVE  HolderKnows(p)'
  <1> USE DEF SerialState, HandOver, PaymentInv, PaymentTypeOK, LifecycleTypeOK
  <1>0. HolderKnows(p)
    BY DEF SerialInv
  <1>1. handler[p].pc # "idle" => handler[p].order \in Orders
    BY DEF HandlersOK
  <1>2. ASSUME handler[p].pc \in {"idle", "loading", "counting", "simulating",
                                  "settling", "delaying", "rereading", "readding",
                                  "done"}
        PROVE  call[p].pc = "idle"
    BY <1>2 DEF HandlersOK
  <1>3. ASSUME NEW j \in Jobs, TakePayment(p, j) \/ TakeRetry(p, j)
        PROVE  HolderKnows(p)'
    <2>1. /\ handler'[p].pc \in {"loading", "readding"}
          /\ handler'[p].order = jobs[j].data.order
          /\ UNCHANGED <<lifecycleVars, paymentVars>> /\ At(p, "idle")
      BY <1>3 DEF TakePayment, TakeRetry, Start
    <2>2. jobs[j].state = "waiting" /\ jobs[j].data.order \in Orders
      BY <1>3 DEF TakePayment, TakeRetry, TakeJob, Waiting, JobsOK, JobData
    <2>3. status'[jobs[j].data.order] = "PAYMENT_PENDING" /\ charges'[jobs[j].data.order] = 0
      BY <2>1, <2>2 DEF SerialInv, OrderKnows, Queued, lifecycleVars, paymentVars
    <2>4. call'[p].pc = "idle"
      BY <1>2, <2>1 DEF At, lifecycleVars
    <2>5. QED
      BY <2>1, <2>3, <2>4 DEF HolderKnows, PendingAt, Unpaid, At
  <1>4. CASE LoadOrder(p) \/ CountAttempt(p)
    <2>1. /\ handler[p].pc \in {"loading", "counting"}
          /\ handler'[p].pc \in {"counting", "simulating", "done"}
          /\ handler'[p].order = handler[p].order
          /\ UNCHANGED <<status, call, charges>>
      BY <1>4 DEF LoadOrder, CountAttempt, At, Proceed, Handlers, lifecycleVars, paymentVars
    <2>2. QED
      BY <1>0, <1>2, <2>1 DEF HolderKnows, PendingAt, Unpaid, At
  <1>5. CASE Simulate(p)
    <2>1. /\ At(p, "simulating") /\ handler'[p].pc = "settling"
          /\ handler'[p].order = handler[p].order /\ handler'[p].job = handler[p].job
          /\ UNCHANGED <<status, call, jobs>>
      BY <1>5 DEF Simulate, At, Proceed, Handlers, lifecycleVars, queueVars
    <2>2. OutcomeAt(p)' = OutcomeAt(p)
      BY <2>1 DEF OutcomeAt
    <2>3. status[handler[p].order] = "PAYMENT_PENDING" /\ charges[handler[p].order] = 0
      BY <1>0, <2>1 DEF HolderKnows, PendingAt, Unpaid, At
    <2>4. charges'[handler[p].order] = IF OutcomeAt(p) = "success" THEN 1 ELSE 0
      BY <1>1, <1>5, <2>1, <2>3 DEF Simulate, At
    <2>5. call[p].pc = "idle"
      BY <1>2, <2>1 DEF At
    <2>6. QED
      BY <2>1, <2>2, <2>3, <2>4, <2>5 DEF HolderKnows, PendingAt, Unpaid, At
  <1>6. CASE SettleSuccess(p) \/ SettleFailure(p)
    <2>1. /\ At(p, "settling") /\ handler'[p].pc = "recording"
          /\ handler'[p].order = handler[p].order
          /\ UNCHANGED <<status, charges>> /\ call'[p].pc = "read"
      BY <1>6 DEF SettleSuccess, SettleFailure, At, Proceed, Handlers, Invoke, NewCall
    <2>2. status[handler[p].order] = "PAYMENT_PENDING"
      BY <1>0, <2>1 DEF HolderKnows, PendingAt, At
    <2>3. CASE SettleSuccess(p)
      <3>1. call'[p].next = "PAID" /\ payment'[handler[p].order].status = "SUCCEEDED"
        BY <1>1, <2>1, <2>3 DEF SettleSuccess, Invoke, NewCall, At
      <3>2. charges[handler[p].order] = 1
        BY <1>0, <2>1, <2>3 DEF HolderKnows, SettleSuccess
      <3>3. QED
        BY <2>1, <2>2, <3>1, <3>2 DEF HolderKnows, PendingAt, Unpaid, At
    <2>4. CASE SettleFailure(p)
      <3>1. call'[p].next = "PAYMENT_FAILED" /\ payment'[handler[p].order].status = "FAILED"
        BY <1>1, <2>1, <2>4 DEF SettleFailure, Invoke, NewCall, At
      <3>2. charges[handler[p].order] = 0
        BY <1>0, <2>1, <2>4 DEF HolderKnows, SettleFailure
      <3>3. QED
        BY <2>1, <2>2, <3>1, <3>2 DEF HolderKnows, PendingAt, Unpaid, At
    <2>5. QED  BY <1>6, <2>3, <2>4
  <1>7. CASE SettleTimeout(p)
    <2>1. /\ At(p, "settling") /\ handler'[p].pc = "delaying"
          /\ handler'[p].order = handler[p].order
          /\ UNCHANGED <<status, charges, call>>
      BY <1>7 DEF SettleTimeout, At, Proceed, Handlers, lifecycleVars
    <2>2. status[handler[p].order] = "PAYMENT_PENDING" /\ charges[handler[p].order] = 0
      BY <1>0, <1>7, <2>1 DEF HolderKnows, PendingAt, SettleTimeout, At
    <2>3. call[p].pc = "idle"
      BY <1>2, <2>1 DEF At
    <2>4. QED
      BY <2>1, <2>2, <2>3 DEF HolderKnows, PendingAt, Unpaid, At
  <1>8. ASSUME NEW j \in Jobs, DelayRetry(p, j) \/ ReaddPayment(p, j)
        PROVE  HolderKnows(p)'
    <2>1. handler'[p].pc \in {"rereading", "done"} /\ UNCHANGED call
          /\ handler[p].pc \in {"delaying", "readding"}
      BY <1>8 DEF DelayRetry, ReaddPayment, Proceed, Handlers, At, lifecycleVars
    <2>2. QED  BY <1>2, <2>1, NothingToKnow
  <1>9. CASE RecordOutcome(p)
    BY <1>9, NothingToKnow DEF RecordOutcome, Proceed, Handlers, Return, IdleCall
  <1>10. CASE FinishJob(p)
    <2>1. handler'[p].pc = "idle" /\ UNCHANGED call /\ handler[p].pc \in {"rereading", "done"}
      BY <1>10 DEF FinishJob, Stop, IdleHandler, lifecycleVars
    <2>2. QED  BY <1>2, <2>1, NothingToKnow
  <1>11. QED
    BY <1>3, <1>4, <1>5, <1>6, <1>7, <1>8, <1>9, <1>10 DEF WorkerStep

\* A request that goes on.
LEMMA ApiTellsHolder ==
  ASSUME SerialState, SerialCheckout, NEW p \in Procs, ApiStep(p) \/ HandlerThrows(p)
  PROVE  HolderKnows(p)'
  <1> USE DEF SerialState, HandOver, PaymentInv, PaymentTypeOK, LifecycleTypeOK
  <1>0. HolderKnows(p)
    BY DEF SerialInv
  <1>1. ASSUME Stop(p), call'[p].pc = "idle"
        PROVE  HolderKnows(p)'
    BY <1>1, NothingToKnow DEF Stop, IdleHandler
  <1>2. ASSUME NEW j \in Jobs, EnqueueFirstPayment(p, j) \/ EnqueueRetriedPayment(p, j)
        PROVE  HolderKnows(p)'
    BY <1>1, <1>2 DEF EnqueueFirstPayment, EnqueueRetriedPayment, Return, IdleCall,
                      HandlersOK, At, lifecycleVars
  <1>3. CASE AnswerMove(p) \/ HandlerThrows(p)
    BY <1>1, <1>3 DEF AnswerMove, HandlerThrows, Unwind, Return, IdleCall
  <1>4. CASE ResetPayment(p)
    <2>1. /\ At(p, "resetting") /\ call[p].pc = "returned"
          /\ handler'[p].pc = "enqueuing" /\ handler'[p].order = handler[p].order
          /\ UNCHANGED <<status, charges>> /\ call'[p].pc = "idle"
      BY <1>4 DEF ResetPayment, At, Moved, Proceed, Handlers, Return, IdleCall
    <2>2. status[handler[p].order] = "PAYMENT_PENDING" /\ charges[handler[p].order] = 0
      BY <1>0, <2>1 DEF HolderKnows, PendingAt, Unpaid, At
    <2>3. QED
      BY <2>1, <2>2 DEF HolderKnows, PendingAt, Unpaid, At
  <1>5. QED  BY <1>2, <1>3, <1>4 DEF ApiStep

-----------------------------------------------------------------------------
(* What the rows say. *)

\* Every step leaves what is known of an order by its status.
LEMMA OrderKnowsStep ==
  ASSUME SerialState, SerialCheckout, NEW p \in Procs, StepOf(p), NEW o \in Orders
  PROVE  OrderKnows(o)'
  <1> USE DEF SerialState, HandOver, PaymentInv, PaymentTypeOK, LifecycleTypeOK
  <1>0. OrderKnows(o) /\ HolderKnows(p)
    BY DEF SerialInv
  <1>1. CASE status'[o] # status[o]
    <2>1. ASSUME NEW scenario \in Scenarios, PlaceOrder(p, o, scenario)
          PROVE  OrderKnows(o)'
      <3>1. /\ status[o] = NoRow /\ status'[o] = "PENDING"
            /\ UNCHANGED <<charges, payment, jobs>>
        BY <2>1 DEF PlaceOrder, Insert, paymentVars, queueVars
      <3>2. QED
        BY <1>0, <3>1 DEF OrderKnows, NoRow, PaidStatuses, Queued
    <2>2. CASE WriteStatus(p) /\ call[p].order = o /\ UNCHANGED <<handler, payment, charges, jobs>>
      <3>1. /\ status'[o] = call[p].next /\ call[p].pc = "write"
            /\ handler[p].order = o
        BY <2>2, WhoAsksForWhat DEF WriteStatus
      <3>2. \A j \in Jobs : ~Queued(j, o)
        BY <1>0, <2>2, WritesFollowTheTable DEF SerialInv, OneHolder, OrderKnows
      <3>3. \A j \in Jobs : ~Queued(j, o)'
        BY <2>2, <3>2 DEF Queued
      <3>4. CASE At(p, "placing") \/ At(p, "resetting")
        <4>1. status'[o] = "PAYMENT_PENDING" /\ charges[o] = 0
          BY <1>0, <3>1, <3>4 DEF CallsMatch, HolderKnows, Unpaid, At
        <4>2. QED  BY <2>2, <3>3, <4>1 DEF OrderKnows, NoRow, PaidStatuses
      <3>5. CASE At(p, "recording")
        <4>1. call[p].next \in {"PAID", "PAYMENT_FAILED"}
          BY <3>5 DEF CallsMatch, At
        <4>2. IF call[p].next = "PAID"
              THEN charges[o] = 1 /\ payment[o].status = "SUCCEEDED"
              ELSE charges[o] = 0 /\ payment[o].status = "FAILED"
          BY <1>0, <3>1, <3>5 DEF HolderKnows
        <4>3. QED
          BY <2>2, <3>1, <3>3, <4>1, <4>2 DEF OrderKnows, NoRow, PaidStatuses
      <3>6. CASE At(p, "answering")
        <4>1. call[p].next \in {"ACCEPTED", "REJECTED"} /\ status[o] = "PAID"
          BY <1>0, <3>1, <3>6, AnswersAccept DEF HolderKnows
        <4>2. payment[o].status = "SUCCEEDED" /\ charges[o] <= 1
          BY <1>0, <4>1 DEF OrderKnows, PaidStatuses
        <4>3. QED
          BY <2>2, <3>1, <3>3, <4>1, <4>2 DEF OrderKnows, NoRow, PaidStatuses
      <3>7. QED
        BY <3>1, <3>4, <3>5, <3>6 DEF HandlersOK, At
    <2>3. QED  BY <1>1, <2>1, <2>2, StatusMoves
  <1>2. CASE status'[o] = status[o] /\ charges'[o] # charges[o]
    <2>1. Simulate(p) /\ handler[p].order = o
      BY <1>2, WhoCharges
    <2>2. status[o] = "PAYMENT_PENDING" /\ charges[o] = 0 /\ Holding(p, o)
      BY <1>0, <2>1 DEF Simulate, At, HolderKnows, PendingAt, Unpaid, Holding
    <2>3. charges'[o] <= 1 /\ UNCHANGED <<payment, jobs>>
      BY <2>1, <2>2 DEF Simulate, queueVars
    <2>4. \A j \in Jobs : ~Queued(j, o)'
      BY <2>2, <2>3 DEF SerialInv, OneHolder, Queued
    <2>5. QED
      BY <1>2, <2>2, <2>3, <2>4 DEF OrderKnows, NoRow, PaidStatuses
  <1>3. CASE status'[o] = status[o] /\ charges'[o] = charges[o]
    <2>1. \A j \in Jobs : Queued(j, o)' => status[o] = "PAYMENT_PENDING" /\ charges[o] = 0
      <3>1. SUFFICES ASSUME NEW j \in Jobs, Queued(j, o)', ~Queued(j, o)
                     PROVE  status[o] = "PAYMENT_PENDING" /\ charges[o] = 0
        BY <1>0 DEF OrderKnows
      <3>2. Holding(p, o) /\ PendingAt(p) /\ Unpaid(p)
        BY <3>1, WhoQueues
      <3>3. QED  BY <1>0, <3>2 DEF HolderKnows, Holding
    <2>2. CASE payment'[o] = payment[o]
      BY <1>0, <1>3, <2>1, <2>2 DEF OrderKnows
    <2>3. CASE payment'[o] # payment[o]
      <3>1. /\ ResetPayment(p) \/ SettleSuccess(p) \/ SettleFailure(p) \/ SettleTimeout(p)
            /\ handler[p].order = o
        BY <2>3, WhoWritesPayments
      <3>2. status[o] = "PAYMENT_PENDING"
        BY <1>0, <3>1 DEF ResetPayment, SettleSuccess, SettleFailure, SettleTimeout,
                          At, Moved, HolderKnows, PendingAt
      <3>3. QED
        BY <1>0, <1>3, <2>1, <3>2 DEF OrderKnows, NoRow, PaidStatuses
    <2>4. QED  BY <2>2, <2>3
  <1>4. QED  BY <1>1, <1>2, <1>3

\* Nothing is dead-lettered.
LEMMA NoDeadLetters ==
  ASSUME SerialState, SerialCheckout, NEW p \in Procs, StepOf(p)
  PROVE  letters' = {} /\ deadLetters' = {}
  <1>0. letters = {} /\ deadLetters = {}
    BY DEF SerialState, HandOver, SerialInv
  <1>1. ASSUME NEW j \in Jobs,
               \/ EnqueueFirstPayment(p, j)
               \/ EnqueueRetriedPayment(p, j)
               \/ TakePayment(p, j)
               \/ TakeRetry(p, j)
               \/ DelayRetry(p, j)
               \/ ReaddPayment(p, j)
        PROVE  letters' = {} /\ deadLetters' = {}
    BY <1>0, <1>1 DEF EnqueueFirstPayment, EnqueueRetriedPayment, TakePayment,
                      TakeRetry, DelayRetry, ReaddPayment, AddJob, TakeJob
  <1>2. CASE FinishJob(p)
    BY <1>0, <1>2 DEF FinishJob, CompleteJob
  <1>3. CASE HandlerThrows(p)
    BY <1>0, <1>3, SerialSteps DEF queueVars
  <1>4. CASE CallStep(p) \/ ClientStep(p) \/ AnswerMove(p) \/ ResetPayment(p)
    BY <1>0, <1>4 DEF CallStep, ClientStep, PlaceOrder, RequestRetry, RequestMove,
                      AnswerMove, ResetPayment, queueVars
  <1>5. CASE \/ LoadOrder(p) \/ CountAttempt(p) \/ Simulate(p) \/ SettleSuccess(p)
             \/ SettleFailure(p) \/ SettleTimeout(p) \/ RecordOutcome(p)
    BY <1>0, <1>5 DEF LoadOrder, CountAttempt, Simulate, SettleSuccess,
                      SettleFailure, SettleTimeout, RecordOutcome, queueVars
  <1>6. QED  BY <1>1, <1>2, <1>3, <1>4, <1>5, SerialSteps, StepCases

\* Nothing is lost: what an order is lost with does not happen here.
LEMMA NothingIsLost ==
  ASSUME SerialState, SerialCheckout, [Next]_vars, NEW o \in Orders
  PROVE  ~LosesOrder(o)
  <1>1. ~Crash
    BY DEF Crash, SerialCheckout, SerialState, HandOver, PaymentInv, PaymentTypeOK
  <1>2. ASSUME NEW p \in Api, Requesting(p, o), HandlerThrows(p)
        PROVE  FALSE
    BY <1>2, PaymentAssumption
       DEF HandlerThrows, SerialState, SerialInv, HolderKnows, Requesting, At
  <1>3. ASSUME NEW p \in Api, FailInHandler(p)
        PROVE  FALSE
    BY <1>3 DEF SerialCheckout, FailInHandler, Fault
  <1>4. QED  BY <1>1, <1>2, <1>3 DEF LosesOrder

\* Every step of a serial checkout keeps its invariant.
LEMMA SerialStep ==
  ASSUME SerialState, SerialCheckout, [Next]_vars
  PROVE  SerialInv'
  <1>1. CASE UNCHANGED vars
    BY <1>1 DEF vars, lifecycleVars, queueVars, paymentVars, SerialState, SerialInv,
                OneHolder, Holding, Queued, HolderKnows, PendingAt, Unpaid,
                OutcomeAt, OrderKnows, Waits, Served, Requesting, Serving, At
  <1>2. ~Crash /\ ~PostDeadLetter
    BY DEF Crash, PostDeadLetter, SerialCheckout, SerialState, SerialInv, HandOver,
           PaymentInv, PaymentTypeOK
  <1>3. ASSUME NEW p \in Procs, StepOf(p)
        PROVE  SerialInv'
    <2>1. HolderKnows(p)'
      BY <1>3, SerialSteps, CallTellsHolder, ClientTellsHolder, WorkerTellsHolder,
         ApiTellsHolder DEF StepOf, ProcStep, FaultStep
    <2>2. \A q \in Procs : HolderKnows(q)'
      BY <1>3, <2>1, OthersKnow
    <2>3. OneHolder' /\ letters' = {} /\ deadLetters' = {}
      BY <1>3, OneHolderStep, NoDeadLetters
    <2>4. \A o \in Orders : OrderKnows(o)'
      BY <1>3, OrderKnowsStep
    <2>5. \A o \in Orders : Waits(o)' => Served(o)'
      BY WaitingOrderStep, NothingIsLost DEF SerialState, SerialInv
    <2>6. QED  BY <2>2, <2>3, <2>4, <2>5 DEF SerialInv
  <1>4. QED  BY <1>1, <1>2, <1>3 DEF Next, StepOf

-----------------------------------------------------------------------------
(* What a serial checkout promises. *)

\* When requests come one at a time, nothing fails and nobody cancels, an order
\* has one holder in every reachable state, and the holder knows its rows.
LEMMA SerialInvariant ==
  ASSUME SerialCheckout
  PROVE  Spec => []SerialInv
  <1>1. Init => SerialInv
    <2> SUFFICES ASSUME Init
                 PROVE  SerialInv
      OBVIOUS
    <2>1. \A p \in Procs, o \in Orders : ~Holding(p, o)
      BY DEF Init, IdleHandler, Holding, At
    <2>2. \A j \in Jobs, o \in Orders : ~Queued(j, o)
      BY DEF Init, QueueInit, FreeJob, Queued
    <2>3. \A p \in Procs : HolderKnows(p)
      BY DEF Init, IdleHandler, LifecycleInit, IdleCall, HolderKnows, PendingAt,
             Unpaid, At
    <2>4. \A o \in Orders : OrderKnows(o)
      BY <2>2 DEF Init, LifecycleInit, OrderKnows, NoRow, PaidStatuses
    <2>5. \A o \in Orders : ~Waits(o)
      BY DEF Init, LifecycleInit, NoRow, Waits
    <2>6. QED
      BY <2>1, <2>2, <2>3, <2>4, <2>5 DEF SerialInv, OneHolder, Init, QueueInit
  <1>2. HandOver /\ SerialInv /\ [Next]_vars => SerialInv'
    BY SerialStep DEF SerialState
  <1>3. QED  BY <1>1, <1>2, HandOverInvariant, PTL DEF Spec

\* In a serial checkout the two rows agree, however many orders, workers and
\* jobs there are, and however timeouts, retries and requests follow each other.
THEOREM SerialRowsAgree ==
  ASSUME SerialCheckout
  PROVE  Spec => []RowsAgree
  <1>1. SerialInv => RowsAgree
    BY DEF SerialInv, OrderKnows, RowsAgree
  <1>2. QED  BY <1>1, SerialInvariant, PTL

\* In a serial checkout a customer is charged at most once for an order.
THEOREM SerialChargesOnce ==
  ASSUME SerialCheckout
  PROVE  Spec => []ChargedOnce
  <1>1. SerialInv => ChargedOnce
    BY DEF SerialInv, OrderKnows, ChargedOnce
  <1>2. QED  BY <1>1, SerialInvariant, PTL

\* In a serial checkout every status change is a move of the transition table:
\* the read and the write of transitionOrder, although they are two steps, act
\* as one atomic move.
THEOREM SerialCheckoutFollowsTheTable ==
  ASSUME SerialCheckout
  PROVE  Spec => FollowsTheTable
  <1>1. Init => Machine!Init
    BY DEF Init, LifecycleInit, Machine!Init, NoRow, Machine!NoRow
  <1>2. SerialState /\ [Next]_vars => [Machine!Next]_status
    <2> SUFFICES ASSUME SerialState, [Next]_vars
                 PROVE  [Machine!Next]_status
      OBVIOUS
    <2> USE DEF SerialState, HandOver, PaymentInv, PaymentTypeOK, LifecycleTypeOK
    <2>1. CASE UNCHANGED vars \/ Crash \/ PostDeadLetter
      BY <2>1 DEF vars, lifecycleVars, Crash, LoseAllCalls, PostDeadLetter
    <2>2. ASSUME NEW p \in Procs, StepOf(p), status' # status
          PROVE  Machine!Next
      <3>1. status' \in [Orders -> Statuses \cup {NoRow}]
        BY LifecycleStepInv, StepsCallTheLifecycle, <2>2 DEF LifecycleInv, Next, StepOf
      <3>2. PICK o \in Orders : status'[o] # status[o]
        BY <2>2, <3>1
      <3>3. ASSUME NEW scenario \in Scenarios, PlaceOrder(p, o, scenario)
            PROVE  Machine!Next
        BY <3>3 DEF PlaceOrder, Insert, Machine!Next, Machine!Place, NoRow,
                    Machine!NoRow
      <3>4. CASE WriteStatus(p) /\ call[p].order = o
        <4>1. Allowed(status[o], call[p].next)
          BY <3>4, WritesFollowTheTable
        <4>2. call[p].next \in Statuses
          BY <4>1 DEF Allowed, Transitions, Statuses
        <4>3. status' = [status EXCEPT ![o] = call[p].next]
          BY <3>4 DEF WriteStatus
        <4>4. QED
          BY <4>1, <4>2, <4>3
             DEF Machine!Next, Machine!Move, Machine!Allowed, Machine!Transitions,
                 Machine!Statuses, Allowed, Transitions, Statuses
      <3>5. QED  BY <2>2, <3>2, <3>3, <3>4, StatusMoves
    <2>3. QED  BY <2>1, <2>2 DEF Next, StepOf
  <1>3. QED
    BY <1>1, <1>2, HandOverInvariant, SerialInvariant, PTL
       DEF Spec, SerialState, FollowsTheTable, Machine!Spec

\* In a serial checkout, whenever the order's page offers Retry payment, the
\* order can be retried or somebody is still working on its payment.
THEOREM SerialRetryIsOfferedForCause ==
  ASSUME SerialCheckout
  PROVE  Spec => []RetryIsOfferedForCause
  <1>1. HandOver /\ SerialInv => RetryIsOfferedForCause
    <2> SUFFICES ASSUME HandOver, SerialInv, NEW o \in Orders,
                        status[o] # NoRow, payment[o].status = "FAILED",
                        status[o] # "PAYMENT_FAILED"
                 PROVE  Pursued(o)
      BY DEF RetryIsOfferedForCause, CanRetryPayment
    <2>1. Waits(o)
      BY DEF SerialInv, OrderKnows, Waits
    <2>2. Served(o) /\ letters = {} /\ deadLetters = {}
      BY <2>1 DEF SerialInv
    <2>3. ASSUME NEW w \in Procs, Serving(w, o)
          PROVE  Pursued(o)
      <3>1. w \in Workers /\ handler[w].pc # "idle" /\ handler[w].order = o
        BY <2>3, PaymentAssumption
           DEF HandOver, PaymentInv, HandlersOK, Serving, At, Workers
      <3>2. QED
        BY <3>1 DEF HandOver, PaymentInv, JobsOK, JobsMatch, Pursued
    <2>4. QED  BY <2>2, <2>3 DEF Served, Queued, Pursued
  <1>2. QED  BY <1>1, HandOverInvariant, SerialInvariant, PTL
=============================================================================
