--------------------------- MODULE DispatchProofs ---------------------------
(***************************************************************************)
(* Proofs about Dispatch for any orders, riders, requests in flight,       *)
(* worker slots and jobs, and for any bounds on faults, crashes and        *)
(* changes of availability; in the part under SerialDispatch, of a system *)
(* in which the delivery job is the only assigner.                         *)
(***************************************************************************)
EXTENDS Dispatch, OrderLifecycleProofs

-----------------------------------------------------------------------------
(* The inductive invariant. *)

\* A busy handler works on an order, and from the choice of a rider on it has
\* one; only a handler that is inside transitionOrder has a call, for its order.
HandlersOK ==
    \A p \in Procs :
        /\ handler[p].pc # "idle" => handler[p].order \in Orders
        /\ handler[p].pc \in {"upserting", "occupying", "assigning"} =>
              handler[p].rider \in Riders
        /\ handler[p].pc \in {"accepting", "pickingUp", "leaving", "delivering", "freeing"} =>
              handler[p].rider \in Riders
        /\ handler[p].pc = "done" => p \in DeliveryWorkers
        /\ call[p].pc # "idle" =>
              /\ handler[p].pc \in {"answering", "readying", "assigning"}
              /\ call[p].order = handler[p].order
              /\ call[p].next = "RIDER_ASSIGNED" => handler[p].pc = "assigning"

\* A job that exists is for an order; a busy worker has an active job, and no
\* other worker has the same one.
JobsOK ==
    /\ \A j \in Jobs : jobs[j].state # "free" => jobs[j].data \in JobData
    /\ \A w \in DeliveryWorkers : handler[w].pc # "idle" =>
          handler[w].job \in Jobs /\ jobs[handler[w].job].state = "active"
    /\ \A v, w \in DeliveryWorkers :
          handler[v].pc # "idle" /\ handler[w].pc # "idle"
          /\ handler[v].job = handler[w].job => v = w

\* The delivery row was stamped on its way to the status it has.
StampsOK ==
    \A o \in Orders :
        LET d == delivery[o] IN
        /\ d.status \in {"ACCEPTED", "PICKED_UP", "OUT_FOR_DELIVERY", "DELIVERED"} =>
              "acceptedAt" \in d.stamps
        /\ d.status \in {"PICKED_UP", "OUT_FOR_DELIVERY", "DELIVERED"} =>
              "pickedUpAt" \in d.stamps
        /\ d.status = "DELIVERED" => "deliveredAt" \in d.stamps

\* What a handler checked before it started is still true of the stamps,
\* whatever the delivery's status is by now.
HandlersKnow ==
    \A p \in Procs :
        LET d == delivery[handler[p].order] IN
        /\ handler[p].pc \in {"occupying", "assigning"} => d.rider \in Riders
        /\ handler[p].pc \in {"pickingUp", "leaving", "delivering"} => "acceptedAt" \in d.stamps
        /\ handler[p].pc \in {"leaving", "delivering"} => "pickedUpAt" \in d.stamps
        /\ handler[p].pc = "freeing" => "deliveredAt" \in d.stamps

\* A call that is to move the order has the delivery behind it.
CallsKnow ==
    \A p \in Procs :
        LET d == delivery[call[p].order] IN
        /\ call[p].pc # "idle" /\ call[p].next = "PICKED_UP" =>
              {"acceptedAt", "pickedUpAt"} \subseteq d.stamps
        /\ call[p].pc # "idle" /\ call[p].next = "DELIVERED" => "deliveredAt" \in d.stamps

DispatchInv ==
    /\ LifecycleInv
    /\ DispatchTypeOK
    /\ HandlersOK
    /\ JobsOK
    /\ StampsOK
    /\ HandlersKnow
    /\ CallsKnow
    /\ OrderTrailsDelivery

\* The timeline of the rider's page, spelt out.
LEMMA DeliveryStepsShown ==
  /\ \A s : "ACCEPTED" \in CompleteDeliverySteps(s) <=>
               s \in {"ACCEPTED", "PICKED_UP", "OUT_FOR_DELIVERY", "DELIVERED"}
  /\ \A s : "PICKED_UP" \in CompleteDeliverySteps(s) <=>
               s \in {"PICKED_UP", "OUT_FOR_DELIVERY", "DELIVERED"}
  /\ \A s : "DELIVERED" \in CompleteDeliverySteps(s) <=> s = "DELIVERED"
  <1> DEFINE D == DeliverySteps
  <1>1. /\ D[1] = "ASSIGNED" /\ D[2] = "ACCEPTED" /\ D[3] = "PICKED_UP"
        /\ D[4] = "OUT_FOR_DELIVERY" /\ D[5] = "DELIVERED"
        /\ Len(D) = 5 /\ DOMAIN D = 1 .. 5
    BY DEF DeliverySteps
  <1>2. \A s, x : x \in CompleteDeliverySteps(s) <=>
            \E i \in 1 .. 5 : D[i] = x /\ \E j \in i .. 5 : D[j] = s
    BY <1>1 DEF CompleteDeliverySteps, UpTo
  <1>3. \A i \in 1 .. 5 : i = 1 \/ i = 2 \/ i = 3 \/ i = 4 \/ i = 5
    OBVIOUS
  <1> HIDE DEF D
  <1>4. ASSUME NEW s
        PROVE  "ACCEPTED" \in CompleteDeliverySteps(s) <=>
                  s \in {"ACCEPTED", "PICKED_UP", "OUT_FOR_DELIVERY", "DELIVERED"}
    <2>1. "ACCEPTED" \in CompleteDeliverySteps(s) <=> \E j \in 2 .. 5 : D[j] = s
      BY <1>1, <1>2, <1>3
    <2>2. QED  BY <1>1, <2>1
  <1>5. ASSUME NEW s
        PROVE  "PICKED_UP" \in CompleteDeliverySteps(s) <=>
                  s \in {"PICKED_UP", "OUT_FOR_DELIVERY", "DELIVERED"}
    <2>1. "PICKED_UP" \in CompleteDeliverySteps(s) <=> \E j \in 3 .. 5 : D[j] = s
      BY <1>1, <1>2, <1>3
    <2>2. QED  BY <1>1, <2>1
  <1>6. ASSUME NEW s
        PROVE  "DELIVERED" \in CompleteDeliverySteps(s) <=> s = "DELIVERED"
    <2>1. "DELIVERED" \in CompleteDeliverySteps(s) <=> \E j \in 5 .. 5 : D[j] = s
      BY <1>1, <1>2, <1>3
    <2>2. QED  BY <1>1, <2>1
  <1>7. QED  BY <1>4, <1>5, <1>6

-----------------------------------------------------------------------------
(* Every handler is a caller of the lifecycle component. *)

LEMMA StepsCallTheLifecycle ==
  ASSUME DispatchInv, [Next]_vars
  PROVE  [LifecycleNext]_lifecycleVars
  <1>0. {"PREPARING", "READY", "RIDER_ASSIGNED", "PICKED_UP", "OUT_FOR_DELIVERY", "DELIVERED"}
          \subseteq Targets
    BY DispatchAssumption DEF DispatchTargets
  <1>1. ASSUME NEW p \in Procs, CallStep(p) \/ FaultStep(p) \/ HandlerThrows(p)
        PROVE  [LifecycleNext]_lifecycleVars
    BY <1>1 DEF CallStep, FaultStep, FailInCall, FailInHandler, HandlerThrows,
                LifecycleNext, CallerStep
  <1>2. ASSUME NEW p \in Procs,
               (\E j \in Jobs : EnqueueAssignment(p, j)) \/ AnswerMove(p) \/ FinishAssignment(p)
        PROVE  LifecycleNext
    BY <1>2 DEF EnqueueAssignment, AnswerMove, FinishAssignment, LifecycleNext, CallerStep
  <1>3. ASSUME NEW p \in Procs, OccupyRider(p) \/ PickUp(p) \/ LeaveForDelivery(p) \/ FreeRider(p)
        PROVE  LifecycleNext
    <2>1. handler[p].order \in Orders
      BY <1>3 DEF DispatchInv, HandlersOK, OccupyRider, PickUp, LeaveForDelivery, FreeRider, At
    <2>2. QED
      BY <1>0, <1>3, <2>1 DEF OccupyRider, PickUp, LeaveForDelivery, FreeRider,
                              LifecycleNext, CallerStep
  <1>4. ASSUME NEW p \in Procs,
               \/ \E j \in Jobs : TakeAssignment(p, j)
               \/ LoadReadyOrder(p) \/ RefuseAssignment(p)
               \/ (\E r \in Riders : ChooseRider(p, r)) \/ NoAvailableRider(p)
               \/ UpsertDelivery(p) \/ FinishJob(p) \/ AcceptDelivery(p) \/ Deliver(p)
        PROVE  UNCHANGED lifecycleVars
    BY <1>4 DEF TakeAssignment, LoadReadyOrder, RefuseAssignment, ChooseRider, NoAvailableRider,
                UpsertDelivery, FinishJob, AcceptDelivery, Deliver
  <1>5. ASSUME NEW p \in Procs, ClientStep(p)
        PROVE  [LifecycleNext]_lifecycleVars
    BY <1>0, <1>5 DEF ClientStep, RequestPreparing, RequestReady, RequestAssignment,
                      RequestRiderStep, RiderRequest, LifecycleNext, CallerStep
  <1>6. CASE Crash
    BY <1>6 DEF Crash, LifecycleNext
  <1>7. CASE UNCHANGED vars \/ PostDeadLetter
    BY <1>7 DEF vars, PostDeadLetter
  <1>8. ASSUME NEW r \in Riders, NEW value, SetAvailability(r, value)
        PROVE  UNCHANGED lifecycleVars
    BY <1>8 DEF SetAvailability
  <1>9. ASSUME NEW p \in Procs, ProcStep(p)
        PROVE  [LifecycleNext]_lifecycleVars
    BY <1>1, <1>2, <1>3, <1>4, <1>9 DEF ProcStep, AssignStep, RiderStep
  <1>10. QED
    BY <1>1, <1>5, <1>6, <1>7, <1>8, <1>9 DEF Next

-----------------------------------------------------------------------------
(* Types. *)

Statistics == requests \in Nat /\ toggles \in Nat /\ faults \in Nat /\ crashes \in Nat

\* The rows of the dispatch and the profiles.
RowsTypeOK ==
    /\ orderRider \in [Orders -> Riders \cup {NoRider}]
    /\ delivery \in [Orders -> Deliveries]
    /\ availability \in [Riders -> {"OFFLINE", "AVAILABLE", "BUSY"}]

\* A handler that goes on is a handler; so is one that stops or starts.
LEMMA ProceedType ==
  ASSUME handler \in [Procs -> Handlers], NEW p \in Procs,
         NEW pc \in {"choosing", "occupying", "assigning", "freeing", "answering", "done"},
         Proceed(p, pc)
  PROVE  handler' \in [Procs -> Handlers]
  BY DEF Proceed, Handlers

LEMMA StopType ==
  ASSUME handler \in [Procs -> Handlers], NEW p \in Procs, Stop(p)
  PROVE  handler' \in [Procs -> Handlers]
  BY DEF Stop, Handlers, IdleHandler

LEMMA StartType ==
  ASSUME handler \in [Procs -> Handlers], NEW p \in Procs, NEW o \in Orders,
         NEW pc \in {"answering", "readying", "loading", "accepting", "pickingUp",
                     "leaving", "delivering"},
         NEW r \in Riders \cup {NoRider}, NEW j \in Jobs \cup {NoJob},
         Start(p, pc, o, r, j)
  PROVE  handler' \in [Procs -> Handlers]
  BY DEF Start, Handlers

\* The row is a delivery after each of its two kinds of update.
LEMMA UpdatedDelivery ==
  ASSUME delivery \in [Orders -> Deliveries], NEW o \in Orders,
         NEW next \in DeliveryStatuses, NEW r \in Riders, NEW stamps \in SUBSET Stamps
  PROVE  /\ [delivery EXCEPT ![o].status = next, ![o].rider = r] \in [Orders -> Deliveries]
         /\ [delivery EXCEPT ![o].status = next, ![o].stamps = @ \cup stamps]
               \in [Orders -> Deliveries]
  BY DEF Deliveries

\* A step of a handler keeps the types of the rows.
LEMMA RowsTypes ==
  ASSUME DispatchInv, [Next]_vars
  PROVE  RowsTypeOK'
  <1> USE DEF DispatchInv, DispatchTypeOK, RowsTypeOK
  <1>1. CASE UNCHANGED deliveryVars
    BY <1>1 DEF deliveryVars
  <1>2. ASSUME NEW p \in Procs, CallStep(p)
        PROVE  RowsTypeOK'
    <2>1. orderRider' \in [Orders -> Riders \cup {NoRider}]
      BY <1>2 DEF CallStep, Handlers
    <2>2. QED  BY <1>2, <2>1 DEF CallStep
  <1>3. ASSUME NEW p \in Procs, UpsertDelivery(p)
        PROVE  RowsTypeOK'
    <2>1. handler[p].order \in Orders /\ handler[p].rider \in Riders
      BY <1>3 DEF UpsertDelivery, At, HandlersOK
    <2>2. "ASSIGNED" \in DeliveryStatuses
      BY DEF DeliveryStatuses
    <2>3. delivery' \in [Orders -> Deliveries]
      BY <1>3, <2>1, <2>2, UpdatedDelivery DEF UpsertDelivery
    <2>4. QED  BY <1>3, <2>3 DEF UpsertDelivery
  <1>4. ASSUME NEW p \in Procs, OccupyRider(p) \/ FreeRider(p)
        PROVE  RowsTypeOK'
    BY <1>4 DEF OccupyRider, FreeRider
  <1>5. ASSUME NEW p \in Procs, NEW next \in DeliveryStatuses, NEW stamps \in SUBSET Stamps,
               handler[p].order \in Orders, UpdateDelivery(handler[p].order, next, stamps),
               UNCHANGED <<orderRider, availability>>
        PROVE  RowsTypeOK'
    BY <1>5 DEF UpdateDelivery, Deliveries
  <1>6. ASSUME NEW p \in Procs,
               AcceptDelivery(p) \/ PickUp(p) \/ LeaveForDelivery(p) \/ Deliver(p)
        PROVE  RowsTypeOK'
    <2>1. handler[p].order \in Orders
      BY <1>6 DEF AcceptDelivery, PickUp, LeaveForDelivery, Deliver, At, HandlersOK
    <2>2. UNCHANGED <<orderRider, availability>>
      BY <1>6 DEF AcceptDelivery, PickUp, LeaveForDelivery, Deliver
    <2>3. \E next \in DeliveryStatuses, stamps \in SUBSET Stamps :
              UpdateDelivery(handler[p].order, next, stamps)
      <3>1. {"ACCEPTED", "PICKED_UP", "OUT_FOR_DELIVERY", "DELIVERED"} \subseteq DeliveryStatuses
        BY DEF DeliveryStatuses
      <3>2. {"acceptedAt"} \in SUBSET Stamps /\ {"pickedUpAt"} \in SUBSET Stamps
            /\ {"deliveredAt"} \in SUBSET Stamps /\ {} \in SUBSET Stamps
        BY DEF Stamps
      <3>3. QED
        BY <1>6, <3>1, <3>2 DEF AcceptDelivery, PickUp, LeaveForDelivery, Deliver
    <2>4. QED  BY <1>5, <2>1, <2>2, <2>3
  <1>7. ASSUME NEW r \in Riders, NEW value \in {"OFFLINE", "AVAILABLE", "BUSY"},
               SetAvailability(r, value)
        PROVE  RowsTypeOK'
    BY <1>7 DEF SetAvailability
  <1>8. ASSUME NEW p \in Procs, ProcStep(p)
        PROVE  RowsTypeOK'
    BY <1>1, <1>2, <1>3, <1>4, <1>6, <1>8
       DEF ProcStep, EnqueueAssignment, AnswerMove, AssignStep, TakeAssignment, LoadReadyOrder,
           RefuseAssignment, ChooseRider, NoAvailableRider, FinishAssignment, FinishJob,
           RiderStep, HandlerThrows
  <1>9. ASSUME NEW p \in Procs, ClientStep(p) \/ FaultStep(p)
        PROVE  UNCHANGED deliveryVars
    BY <1>9 DEF ClientStep, RequestPreparing, RequestReady, RequestAssignment, RequestRiderStep,
                RiderRequest, FaultStep, FailInCall, FailInHandler
  <1>10. CASE Crash \/ PostDeadLetter \/ UNCHANGED vars
    BY <1>1, <1>10 DEF Crash, PostDeadLetter, vars
  <1>11. QED
    BY <1>1, <1>7, <1>8, <1>9, <1>10 DEF Next

\* A job that is added is a job.
LEMMA AddJobType ==
  ASSUME QueueTypeOK(JobData), NEW j \in Jobs, NEW data \in JobData,
         AddJob(j, "delivery", data, 3)
  PROVE  QueueTypeOK(JobData)'
  <1>1. [state |-> "waiting", queue |-> "delivery", data |-> data, left |-> 3]
          \in JobRecords(JobData)
    BY DEF JobRecords, QueueNames
  <1>2. QED  BY <1>1 DEF QueueTypeOK, AddJob

\* An exception that leaves a busy handler keeps the types of what it touches.
LEMMA UnwindTypes ==
  ASSUME DispatchInv, NEW p \in Procs, handler[p].pc # "idle", Unwind(p)
  PROVE  QueueTypeOK(JobData)' /\ handler' \in [Procs -> Handlers]
  <1> USE DEF DispatchInv, DispatchTypeOK, QueueTypeOK
  <1>1. handler' \in [Procs -> Handlers]
    BY StopType DEF Unwind
  <1>2. CASE p \notin DeliveryWorkers
    BY <1>1, <1>2 DEF Unwind, queueVars
  <1>3. CASE p \in DeliveryWorkers
    <2>1. handler[p].job \in Jobs /\ FailJob(handler[p].job)
      BY <1>3 DEF JobsOK, Unwind
    <2>2. CASE RetryJob(handler[p].job)
      BY <1>1, <2>1, <2>2 DEF RetryJob, JobRecords
    <2>3. CASE DeadLetterJob(handler[p].job)
      BY <1>1, <2>1, <2>3 DEF DeadLetterJob, FreeJob, JobRecords, DeadLetterRecords
    <2>4. QED  BY <2>1, <2>2, <2>3 DEF FailJob
  <1>4. QED  BY <1>2, <1>3

\* Queue and handlers keep their types.
LEMMA HandlersTypes ==
  ASSUME DispatchInv, [Next]_vars
  PROVE  QueueTypeOK(JobData)' /\ handler' \in [Procs -> Handlers]
  <1> USE DEF DispatchInv, DispatchTypeOK
  <1>1. ASSUME UNCHANGED queueVars PROVE QueueTypeOK(JobData)'
    BY <1>1 DEF QueueTypeOK, queueVars
  <1>2. CASE UNCHANGED <<queueVars, handler>>
    BY <1>1, <1>2
  <1>3. ASSUME NEW p \in Procs, NEW j \in Jobs, EnqueueAssignment(p, j)
        PROVE  QueueTypeOK(JobData)' /\ handler' \in [Procs -> Handlers]
    <2>1. handler[p].order \in JobData
      BY <1>3 DEF EnqueueAssignment, At, HandlersOK, JobData
    <2>2. QED  BY <1>3, <2>1, AddJobType, StopType DEF EnqueueAssignment
  <1>4. ASSUME NEW p \in Procs, NEW j \in Jobs, TakeAssignment(p, j)
        PROVE  QueueTypeOK(JobData)' /\ handler' \in [Procs -> Handlers]
    <2>1. jobs[j].data \in Orders
      BY <1>4 DEF TakeAssignment, TakeJob, Waiting, JobsOK, JobData
    <2>2. QueueTypeOK(JobData)'
      BY <1>4 DEF TakeAssignment, TakeJob, QueueTypeOK, JobRecords
    <2>3. QED  BY <1>4, <2>1, <2>2, StartType DEF TakeAssignment
  <1>5. ASSUME NEW p \in Procs, FinishJob(p)
        PROVE  QueueTypeOK(JobData)' /\ handler' \in [Procs -> Handlers]
    <2>1. QueueTypeOK(JobData)'
      BY <1>5 DEF FinishJob, CompleteJob, FreeJob, QueueTypeOK, JobRecords
    <2>2. QED  BY <1>5, <2>1, StopType DEF FinishJob
  <1>6. ASSUME NEW p \in Procs,
               \/ RefuseAssignment(p) \/ NoAvailableRider(p)
               \/ HandlerThrows(p) \/ FailInHandler(p)
        PROVE  QueueTypeOK(JobData)' /\ handler' \in [Procs -> Handlers]
    <2>1. handler[p].pc # "idle" /\ Unwind(p)
      BY <1>6 DEF RefuseAssignment, NoAvailableRider, HandlerThrows, FailInHandler, At, HandlersOK
    <2>2. QED  BY <2>1, UnwindTypes
  <1>7. ASSUME NEW p \in Procs, NEW r \in Riders, ChooseRider(p, r)
        PROVE  QueueTypeOK(JobData)' /\ handler' \in [Procs -> Handlers]
    <2>1. [handler[p] EXCEPT !.pc = "upserting", !.rider = r] \in Handlers
      BY DEF Handlers
    <2>2. handler' \in [Procs -> Handlers]
      BY <1>7, <2>1 DEF ChooseRider
    <2>3. QED  BY <1>1, <1>7, <2>2 DEF ChooseRider
  <1>8. ASSUME NEW p \in Procs,
               \/ AnswerMove(p) \/ FinishAssignment(p) \/ AcceptDelivery(p)
               \/ LoadReadyOrder(p) \/ UpsertDelivery(p) \/ OccupyRider(p) \/ PickUp(p)
               \/ LeaveForDelivery(p) \/ Deliver(p) \/ FreeRider(p)
        PROVE  QueueTypeOK(JobData)' /\ handler' \in [Procs -> Handlers]
    <2>1. handler' \in [Procs -> Handlers]
      BY <1>8, ProceedType, StopType
         DEF AnswerMove, FinishAssignment, AcceptDelivery, LoadReadyOrder, UpsertDelivery,
             OccupyRider, PickUp, LeaveForDelivery, Deliver, FreeRider
    <2>2. UNCHANGED queueVars
      BY <1>8 DEF AnswerMove, FinishAssignment, AcceptDelivery, LoadReadyOrder, UpsertDelivery,
             OccupyRider, PickUp, LeaveForDelivery, Deliver, FreeRider
    <2>3. QED  BY <1>1, <2>1, <2>2
  <1>9. ASSUME NEW p \in Procs, ClientStep(p)
        PROVE  QueueTypeOK(JobData)' /\ handler' \in [Procs -> Handlers]
    <2>1. handler' \in [Procs -> Handlers]
      BY <1>9, StartType DEF ClientStep, RequestPreparing, RequestReady, RequestAssignment,
                             RequestRiderStep, RiderRequest
    <2>2. UNCHANGED queueVars
      BY <1>9 DEF ClientStep, RequestPreparing, RequestReady, RequestAssignment,
                  RequestRiderStep, RiderRequest
    <2>3. QED  BY <1>1, <2>1, <2>2
  <1>10. CASE Crash
    <2>1. QueueTypeOK(JobData)'
      BY <1>10 DEF Crash, RedeliverActiveJobs, QueueTypeOK, JobRecords
    <2>2. handler' \in [Procs -> Handlers]
      BY <1>10 DEF Crash, Handlers, IdleHandler
    <2>3. QED  BY <2>1, <2>2
  <1>11. ASSUME NEW p \in Procs, CallStep(p) \/ FailInCall(p)
         PROVE  UNCHANGED <<queueVars, handler>>
    BY <1>11 DEF CallStep, FailInCall
  <1>12. ASSUME NEW r \in Riders, NEW value, SetAvailability(r, value)
         PROVE  UNCHANGED <<queueVars, handler>>
    BY <1>12 DEF SetAvailability
  <1>13. CASE UNCHANGED vars
    BY <1>2, <1>13 DEF vars
  <1>14. CASE PostDeadLetter
    BY <1>14 DEF PostDeadLetter, PostLetter, QueueTypeOK
  <1>15. QED
    BY <1>2, <1>3, <1>4, <1>5, <1>6, <1>7, <1>8, <1>9, <1>10, <1>11, <1>12, <1>13,
       <1>14
       DEF Next, ProcStep, AssignStep, RiderStep, FaultStep

\* The bounds count up.
LEMMA StatisticsTypes ==
  ASSUME Statistics, [Next]_vars
  PROVE  Statistics'
  <1> USE DEF Statistics
  <1>1. CASE UNCHANGED bounds
    BY <1>1 DEF bounds
  <1>2. ASSUME NEW p \in Procs, ClientStep(p)
        PROVE  Statistics'
    <2>1. \E request : AcceptRequest(request)
      BY <1>2 DEF ClientStep, RequestPreparing, RequestReady, RequestAssignment,
                  RequestRiderStep, RiderRequest
    <2>2. QED  BY <2>1 DEF AcceptRequest
  <1>3. ASSUME NEW p \in Procs, FaultStep(p)
        PROVE  Statistics'
    BY <1>3 DEF FaultStep, FailInCall, FailInHandler, Fault
  <1>4. ASSUME NEW r \in Riders, NEW value, SetAvailability(r, value)
        PROVE  Statistics'
    BY <1>4 DEF SetAvailability
  <1>5. CASE Crash
    BY <1>5 DEF Crash
  <1>6. ASSUME NEW p \in Procs, ProcStep(p)
        PROVE  UNCHANGED bounds
    BY <1>6 DEF ProcStep, CallStep, EnqueueAssignment, AnswerMove, AssignStep, TakeAssignment,
       LoadReadyOrder, RefuseAssignment, ChooseRider, NoAvailableRider, UpsertDelivery,
       OccupyRider, FinishAssignment, FinishJob, RiderStep, AcceptDelivery, PickUp,
       LeaveForDelivery, Deliver, FreeRider, HandlerThrows
  <1>7. CASE UNCHANGED vars \/ PostDeadLetter
    BY <1>1, <1>7 DEF vars, PostDeadLetter
  <1>8. QED  BY <1>1, <1>2, <1>3, <1>4, <1>5, <1>6, <1>7 DEF Next

LEMMA StepTypes ==
  ASSUME DispatchInv, [Next]_vars, LifecycleTypeOK'
  PROVE  DispatchTypeOK'
  <1>1. Statistics /\ Statistics'
    BY StatisticsTypes DEF DispatchInv, DispatchTypeOK, Statistics
  <1>2. QED
    BY <1>1, RowsTypes, HandlersTypes DEF DispatchTypeOK, RowsTypeOK, Statistics

-----------------------------------------------------------------------------
(* Jobs and the workers that hold them. *)

\* A step that frees no active job and starts no worker keeps JobsOK.
LEMMA JobsKept ==
  ASSUME DispatchInv,
         \A j \in Jobs : jobs'[j] = jobs[j] \/ jobs'[j].data \in JobData,
         \A j \in Jobs : jobs[j].state = "active" => jobs'[j].state = "active",
         \A w \in DeliveryWorkers : handler'[w].pc # "idle" =>
             handler[w].pc # "idle" /\ handler'[w].job = handler[w].job
  PROVE  JobsOK'
  <1> USE DEF DispatchInv, JobsOK
  <1>1. \A j \in Jobs : jobs'[j].state # "free" => jobs'[j].data \in JobData'
    BY DEF JobData
  <1>2. \A w \in DeliveryWorkers : handler'[w].pc # "idle" =>
          handler'[w].job \in Jobs /\ jobs'[handler'[w].job].state = "active"
    OBVIOUS
  <1>3. \A v, w \in DeliveryWorkers :
          handler'[v].pc # "idle" /\ handler'[w].pc # "idle"
          /\ handler'[v].job = handler'[w].job => v = w
    OBVIOUS
  <1>4. QED  BY <1>1, <1>2, <1>3

\* A worker that lets go of its job, however it ends, disturbs no other.
LEMMA JobsReleased ==
  ASSUME DispatchInv, NEW w \in DeliveryWorkers, handler[w].pc # "idle", Stop(w),
         CompleteJob(handler[w].job) \/ FailJob(handler[w].job)
  PROVE  JobsOK'
  <1> DEFINE j == handler[w].job
  <1> USE DEF DispatchInv, DispatchTypeOK, QueueTypeOK
  <1>1. w \in Procs /\ j \in Jobs
    BY DispatchAssumption DEF JobsOK
  <1>2. \A i \in Jobs : i # j => jobs'[i] = jobs[i]
    BY <1>1 DEF CompleteJob, FailJob, RetryJob, DeadLetterJob
  <1>3. jobs'[j].state # "free" => jobs'[j].data = jobs[j].data
    BY <1>1 DEF CompleteJob, FailJob, RetryJob, DeadLetterJob, FreeJob, JobRecords
  <1>4. jobs[j].data \in JobData
    BY <1>1 DEF JobsOK
  <1>5. handler'[w].pc = "idle"
    BY <1>1 DEF Stop, IdleHandler
  <1>6. \A v \in DeliveryWorkers : v # w => handler'[v] = handler[v]
    BY <1>1 DEF Stop
  <1>7. \A v \in DeliveryWorkers : handler'[v].pc # "idle" => v # w
    BY <1>5
  <1>8. \A v \in DeliveryWorkers : v # w /\ handler[v].pc # "idle" => handler[v].job # j
    BY DEF JobsOK
  <1>9. QED  BY <1>2, <1>3, <1>4, <1>6, <1>7, <1>8 DEF JobsOK, JobData

\* What a step does to the handlers of the others.
LEMMA OthersStay ==
  ASSUME DispatchTypeOK, NEW p \in Procs, ProcStep(p) \/ ClientStep(p) \/ FaultStep(p)
  PROVE  \A q \in Procs : q # p => handler'[q] = handler[q] /\ call'[q] = call[q]
  <1> USE DEF DispatchTypeOK, LifecycleTypeOK, lifecycleVars
  <1>1. CASE CallStep(p)
    BY <1>1 DEF CallStep, ReadOrder, RefuseMove, Announce, WriteStatus
  <1>2. CASE \/ (\E j \in Jobs : EnqueueAssignment(p, j)) \/ AnswerMove(p)
             \/ HandlerThrows(p) \/ FinishAssignment(p)
    BY <1>2 DEF EnqueueAssignment, AnswerMove, HandlerThrows, FinishAssignment, Return, Unwind,
                Stop, Proceed
  <1>3. CASE \/ \E j \in Jobs : TakeAssignment(p, j)
             \/ LoadReadyOrder(p) \/ RefuseAssignment(p)
             \/ (\E r \in Riders : ChooseRider(p, r)) \/ NoAvailableRider(p)
             \/ UpsertDelivery(p) \/ FinishJob(p)
    BY <1>3 DEF TakeAssignment, LoadReadyOrder, RefuseAssignment, ChooseRider, NoAvailableRider,
                UpsertDelivery, FinishJob, Start, Stop, Proceed, Unwind
  <1>4. CASE OccupyRider(p) \/ RiderStep(p)
    BY <1>4 DEF OccupyRider, RiderStep, AcceptDelivery, PickUp, LeaveForDelivery, Deliver,
                FreeRider, Invoke, Proceed, Stop
  <1>5. CASE ClientStep(p)
    BY <1>5 DEF ClientStep, RequestPreparing, RequestReady, RequestAssignment, RequestRiderStep,
                RiderRequest, Invoke, Start
  <1>6. CASE FaultStep(p)
    BY <1>6 DEF FaultStep, FailInCall, FailInHandler, LoseCall, Return, Unwind, Stop
  <1>7. QED
    BY <1>1, <1>2, <1>3, <1>4, <1>5, <1>6 DEF ProcStep, AssignStep

\* Every step keeps jobs and workers matched.
LEMMA JobsStep ==
  ASSUME DispatchInv, [Next]_vars
  PROVE  JobsOK'
  <1> USE DEF DispatchInv, DispatchTypeOK, QueueTypeOK
  <1>1. DeliveryWorkers \subseteq Procs /\ Api \cap DeliveryWorkers = {}
    BY DispatchAssumption
  <1>2. ASSUME NEW p \in Procs,
               \/ CallStep(p) \/ FailInCall(p) \/ LoadReadyOrder(p)
               \/ (\E r \in Riders : ChooseRider(p, r))
               \/ UpsertDelivery(p) \/ OccupyRider(p) \/ FinishAssignment(p)
               \/ AnswerMove(p) \/ RiderStep(p)
        PROVE  JobsOK'
    <2>1. UNCHANGED jobs
      BY <1>2 DEF CallStep, FailInCall, LoadReadyOrder, ChooseRider, UpsertDelivery, OccupyRider,
                  FinishAssignment, AnswerMove, RiderStep, AcceptDelivery, PickUp,
                  LeaveForDelivery, Deliver, FreeRider, queueVars
    <2>2. handler[p].pc = "idle" => UNCHANGED handler
      BY <1>2 DEF CallStep, FailInCall, LoadReadyOrder, ChooseRider, UpsertDelivery, OccupyRider,
                  FinishAssignment, AnswerMove, RiderStep, AcceptDelivery, PickUp,
                  LeaveForDelivery, Deliver, FreeRider, At
    <2>3. handler'[p].pc # "idle" => handler'[p].job = handler[p].job
      <3>1. CASE UNCHANGED handler
        BY <3>1
      <3>2. CASE Stop(p)
        BY <3>2 DEF Stop, IdleHandler
      <3>3. ASSUME NEW pc, Proceed(p, pc) PROVE handler'[p].job = handler[p].job
        BY <3>3 DEF Proceed, Handlers
      <3>4. ASSUME NEW r \in Riders, ChooseRider(p, r) PROVE handler'[p].job = handler[p].job
        BY <3>4 DEF ChooseRider, Handlers
      <3>5. QED
        BY <1>2, <3>1, <3>2, <3>3, <3>4
           DEF CallStep, FailInCall, LoadReadyOrder, UpsertDelivery, OccupyRider,
               FinishAssignment, AnswerMove, RiderStep, AcceptDelivery, PickUp,
               LeaveForDelivery, Deliver, FreeRider
    <2>4. \A q \in Procs : q # p => handler'[q] = handler[q]
      BY <1>2, OthersStay DEF ProcStep, AssignStep, FaultStep
    <2>5. \A w \in DeliveryWorkers : handler'[w].pc # "idle" =>
              handler[w].pc # "idle" /\ handler'[w].job = handler[w].job
      BY <1>1, <2>2, <2>3, <2>4
    <2>6. QED  BY <2>1, <2>5, JobsKept
  <1>3. ASSUME NEW p \in Procs, ClientStep(p)
        PROVE  JobsOK'
    <2>1. UNCHANGED jobs /\ p \in Api
      BY <1>3 DEF ClientStep, RequestPreparing, RequestReady, RequestAssignment,
                  RequestRiderStep, RiderRequest, queueVars
    <2>2. \A w \in DeliveryWorkers : handler'[w] = handler[w]
      BY <1>1, <1>3, <2>1, OthersStay
    <2>3. QED  BY <2>1, <2>2, JobsKept
  <1>4. ASSUME NEW p \in Procs, NEW j \in Jobs, EnqueueAssignment(p, j)
        PROVE  JobsOK'
    <2>1. handler[p].order \in JobData
      BY <1>4 DEF EnqueueAssignment, At, HandlersOK, JobData
    <2>2. /\ jobs[j].state = "free"
          /\ \A i \in Jobs : i # j => jobs'[i] = jobs[i]
          /\ jobs'[j].data \in JobData
      BY <1>4, <2>1 DEF EnqueueAssignment, AddJob
    <2>3. handler'[p].pc = "idle"
      BY <1>4 DEF EnqueueAssignment, Stop, IdleHandler
    <2>4. \A w \in DeliveryWorkers : handler'[w].pc # "idle" => handler'[w] = handler[w]
      BY <1>1, <1>4, <2>3, OthersStay DEF ProcStep
    <2>5. QED  BY <2>2, <2>4, JobsKept
  <1>5. ASSUME NEW w \in Procs, NEW j \in Jobs, TakeAssignment(w, j)
        PROVE  JobsOK'
    <2>1. /\ w \in DeliveryWorkers
          /\ jobs[j].state = "waiting"
          /\ jobs' = [jobs EXCEPT ![j].state = "active"]
          /\ handler[w].pc = "idle"
      BY <1>5 DEF TakeAssignment, TakeJob, Waiting, Start, At
    <2>2. /\ handler'[w].job = j
          /\ \A v \in DeliveryWorkers : v # w => handler'[v] = handler[v]
      BY <1>1, <1>5 DEF TakeAssignment, Start
    <2>3. /\ jobs'[j].state = "active" /\ jobs'[j].data \in JobData
          /\ \A i \in Jobs : i # j => jobs'[i] = jobs[i]
      BY <2>1 DEF JobsOK, JobRecords
    <2>4. \A v \in DeliveryWorkers : v # w /\ handler[v].pc # "idle" => handler[v].job # j
      BY <2>1 DEF JobsOK
    <2>5. QED  BY <2>2, <2>3, <2>4 DEF JobsOK, JobData
  <1>6. ASSUME NEW w \in Procs, FinishJob(w)
        PROVE  JobsOK'
    <2>1. w \in DeliveryWorkers /\ handler[w].pc # "idle"
      BY <1>6 DEF FinishJob, At, HandlersOK
    <2>2. QED  BY <1>6, <2>1, JobsReleased DEF FinishJob
  <1>7. ASSUME NEW p \in Procs,
               \/ RefuseAssignment(p) \/ NoAvailableRider(p)
               \/ HandlerThrows(p) \/ FailInHandler(p)
        PROVE  JobsOK'
    <2>1. handler[p].pc # "idle" /\ Unwind(p)
      BY <1>7 DEF RefuseAssignment, NoAvailableRider, HandlerThrows, FailInHandler, At, HandlersOK
    <2>2. CASE p \in DeliveryWorkers
      BY <2>1, <2>2, JobsReleased DEF Unwind
    <2>3. CASE p \notin DeliveryWorkers
      BY <1>1, <2>1, <2>3, JobsKept DEF Unwind, Stop, queueVars
    <2>4. QED  BY <2>2, <2>3
  <1>8. CASE Crash
    <2>1. \A w \in DeliveryWorkers : handler'[w].pc = "idle"
      BY <1>1, <1>8 DEF Crash, IdleHandler
    <2>2. \A j \in Jobs : jobs'[j].state # "free" => jobs'[j].data \in JobData
      BY <1>8 DEF Crash, RedeliverActiveJobs, JobsOK, JobRecords
    <2>3. QED  BY <2>1, <2>2 DEF JobsOK, JobData
  <1>9. ASSUME NEW r \in Riders, NEW value, SetAvailability(r, value)
        PROVE  UNCHANGED <<jobs, handler>>
    BY <1>9 DEF SetAvailability, queueVars
  <1>10. CASE UNCHANGED <<jobs, handler>>
    BY <1>10 DEF JobsOK, JobData
  <1>11. CASE UNCHANGED vars \/ PostDeadLetter
    BY <1>10, <1>11 DEF vars, queueVars, PostDeadLetter, PostLetter
  <1>12. QED
    BY <1>2, <1>3, <1>4, <1>5, <1>6, <1>7, <1>8, <1>9, <1>10, <1>11
       DEF Next, ProcStep, AssignStep, FaultStep

-----------------------------------------------------------------------------
(* Handlers and their calls. *)

\* A process that a step leaves alone is as it was.
LEMMA HandlerKept ==
  ASSUME HandlersOK, NEW p \in Procs, handler'[p] = handler[p], call'[p] = call[p]
  PROVE  HandlersOK!(p)'
  BY DEF HandlersOK

\* A process whose handler has ended has no call.
LEMMA HandlerEnded ==
  ASSUME NEW p \in Procs, handler'[p] = IdleHandler, call'[p].pc = "idle"
  PROVE  HandlersOK!(p)'
  BY DEF HandlersOK, IdleHandler

\* The handler that takes a step.
LEMMA HandlerStep ==
  ASSUME DispatchInv, NEW p \in Procs, ProcStep(p) \/ ClientStep(p) \/ FaultStep(p)
  PROVE  HandlersOK!(p)'
  <1> USE DEF DispatchInv, DispatchTypeOK, LifecycleTypeOK, lifecycleVars
  <1>0. HandlersOK!(p) /\ handler[p] \in Handlers /\ call[p] \in Calls
    BY DEF HandlersOK
  <1>1. ASSUME ReadOrder(p) \/ RefuseMove(p) \/ Announce(p) \/ WriteStatus(p) \/ LoseCall(p),
               UNCHANGED handler
        PROVE  HandlersOK!(p)'
    <2>1. /\ call[p].pc # "idle"
          /\ call'[p].order = call[p].order /\ call'[p].next = call[p].next
      BY <1>1 DEF ReadOrder, RefuseMove, Announce, WriteStatus, LoseCall, Calls
    <2>2. QED  BY <1>0, <1>1, <2>1
  <1>2. ASSUME Stop(p), Return(p) \/ (UNCHANGED call /\ call[p].pc = "idle")
        PROVE  HandlersOK!(p)'
    <2>1. handler'[p] = IdleHandler
      BY <1>2 DEF Stop
    <2>2. call'[p].pc = "idle"
      BY <1>2 DEF Return, IdleCall
    <2>3. QED  BY <2>1, <2>2, HandlerEnded
  <1>3. CASE CallStep(p) \/ FailInCall(p)
    BY <1>1, <1>3 DEF CallStep, FailInCall
  <1>4. CASE (\E j \in Jobs : EnqueueAssignment(p, j)) \/ AnswerMove(p) \/ HandlerThrows(p)
    BY <1>2, <1>4 DEF EnqueueAssignment, AnswerMove, HandlerThrows, Unwind
  <1>5. CASE RefuseAssignment(p) \/ NoAvailableRider(p) \/ FinishJob(p) \/ AcceptDelivery(p)
    <2>1. call[p].pc = "idle"
      BY <1>0, <1>5 DEF RefuseAssignment, NoAvailableRider, FinishJob, AcceptDelivery, At
    <2>2. QED
      BY <1>2, <1>5, <2>1 DEF RefuseAssignment, NoAvailableRider, FinishJob, AcceptDelivery, Unwind
  <1>6. CASE FailInHandler(p)
    BY <1>2, <1>6 DEF FailInHandler, Unwind
  <1>7. CASE FinishAssignment(p)
    <2>1. CASE p \in Api
      BY <1>2, <1>7, <2>1 DEF FinishAssignment
    <2>2. CASE p \notin Api
      <3>1. p \in DeliveryWorkers
        BY <2>2, DispatchAssumption
      <3>2. handler'[p].pc = "done" /\ handler'[p].order = handler[p].order
        BY <1>0, <1>7, <2>2 DEF FinishAssignment, Proceed, Handlers
      <3>3. call'[p].pc = "idle" /\ handler[p].pc # "idle"
        BY <1>7 DEF FinishAssignment, Return, IdleCall, At
      <3>4. QED  BY <1>0, <3>1, <3>2, <3>3
    <2>3. QED  BY <2>1, <2>2
  <1>8. ASSUME NEW r \in Riders, ChooseRider(p, r)
        PROVE  HandlersOK!(p)'
    <2>1. /\ handler'[p].pc = "upserting" /\ handler'[p].order = handler[p].order
          /\ handler'[p].rider = r /\ handler[p].pc = "choosing"
      BY <1>0, <1>8 DEF ChooseRider, Handlers, At
    <2>2. call'[p] = call[p]
      BY <1>8 DEF ChooseRider
    <2>3. QED  BY <1>0, <2>1, <2>2
  <1>9. ASSUME NEW pc, Proceed(p, pc), handler[p].pc # "idle"
        PROVE  /\ handler'[p].pc = pc /\ handler'[p].order = handler[p].order
               /\ handler'[p].rider = handler[p].rider /\ handler[p].order \in Orders
    BY <1>0, <1>9 DEF Proceed, Handlers
  <1>10. CASE LoadReadyOrder(p)
    BY <1>0, <1>9, <1>10 DEF LoadReadyOrder, At
  <1>11. CASE UpsertDelivery(p)
    <2>1. /\ handler[p].pc = "upserting" /\ handler'[p].pc = "occupying"
          /\ handler'[p].order = handler[p].order /\ handler'[p].rider = handler[p].rider
      BY <1>9, <1>11 DEF UpsertDelivery, At
    <2>2. call'[p] = call[p]
      BY <1>11 DEF UpsertDelivery
    <2>3. QED  BY <1>0, <2>1, <2>2
  <1>12. CASE Deliver(p)
    <2>1. /\ handler[p].pc = "delivering" /\ handler'[p].pc = "freeing"
          /\ handler'[p].order = handler[p].order /\ handler'[p].rider = handler[p].rider
      BY <1>9, <1>12 DEF Deliver, At
    <2>2. call'[p] = call[p]
      BY <1>12 DEF Deliver
    <2>3. QED  BY <1>0, <2>1, <2>2
  <1>13. ASSUME NEW next, Invoke(p, handler[p].order, next)
         PROVE  call'[p].order = handler[p].order /\ call'[p].next = next
    BY <1>13 DEF Invoke, NewCall
  <1>14. CASE OccupyRider(p)
    <2>1. /\ handler[p].pc = "occupying" /\ handler'[p].pc = "assigning"
          /\ handler'[p].order = handler[p].order /\ handler'[p].rider = handler[p].rider
          /\ call'[p].order = handler[p].order
      BY <1>9, <1>13, <1>14 DEF OccupyRider, At
    <2>2. QED  BY <1>0, <2>1
  <1>15. CASE PickUp(p) \/ LeaveForDelivery(p) \/ FreeRider(p)
    <2>1. /\ handler[p].pc # "idle" /\ handler'[p].pc = "answering"
          /\ handler'[p].order = handler[p].order
          /\ call'[p].order = handler[p].order /\ call'[p].next # "RIDER_ASSIGNED"
      BY <1>9, <1>13, <1>15 DEF PickUp, LeaveForDelivery, FreeRider, At
    <2>2. QED  BY <1>0, <2>1
  <1>16. ASSUME NEW pc, NEW o \in Orders, NEW r, NEW j, Start(p, pc, o, r, j)
         PROVE  /\ handler'[p].pc = pc /\ handler'[p].order = o /\ handler'[p].rider = r
                /\ call[p].pc = "idle"
    BY <1>0, <1>16 DEF Start, At
  <1>17. ASSUME NEW j \in Jobs, TakeAssignment(p, j)
         PROVE  HandlersOK!(p)'
    <2>1. jobs[j].data \in Orders
      BY <1>17 DEF TakeAssignment, TakeJob, Waiting, JobsOK, JobData
    <2>2. /\ handler'[p].pc = "loading" /\ handler'[p].order \in Orders /\ call[p].pc = "idle"
          /\ call'[p] = call[p]
      BY <1>16, <1>17, <2>1 DEF TakeAssignment
    <2>3. QED  BY <2>2
  <1>18. ASSUME NEW o \in Orders,
                \/ RequestPreparing(p, o) \/ RequestReady(p, o)
                \/ \E r \in Riders \cup {NoRider} : RequestAssignment(p, o, r)
         PROVE  HandlersOK!(p)'
    <2>1. CASE RequestPreparing(p, o) \/ RequestReady(p, o)
      <3>1. /\ handler'[p].pc \in {"answering", "readying"} /\ handler'[p].order = o
            /\ call'[p].order = o /\ call'[p].next # "RIDER_ASSIGNED"
        BY <1>16, <2>1 DEF RequestPreparing, RequestReady, Invoke, NewCall
      <3>2. QED  BY <3>1
    <2>2. ASSUME NEW r \in Riders \cup {NoRider}, RequestAssignment(p, o, r)
          PROVE  HandlersOK!(p)'
      <3>1. /\ handler'[p].pc = "loading" /\ handler'[p].order = o
            /\ call'[p] = call[p] /\ call[p].pc = "idle"
        BY <1>16, <2>2 DEF RequestAssignment
      <3>2. QED  BY <3>1
    <2>3. QED  BY <1>18, <2>1, <2>2
  <1>19. ASSUME NEW o \in Orders, NEW r \in Riders, RequestRiderStep(p, o, r)
         PROVE  HandlersOK!(p)'
    <2>1. /\ handler'[p].pc \in {"accepting", "pickingUp", "leaving", "delivering"}
          /\ handler'[p].order = o /\ handler'[p].rider = r
          /\ call'[p] = call[p] /\ call[p].pc = "idle"
      BY <1>16, <1>19 DEF RequestRiderStep, RiderRequest
    <2>2. QED  BY <2>1
  <1>20. CASE ClientStep(p)
    BY <1>18, <1>19, <1>20 DEF ClientStep
  <1>21. QED
    BY <1>3, <1>4, <1>5, <1>6, <1>7, <1>8, <1>10, <1>11, <1>12, <1>14, <1>15, <1>17, <1>20
       DEF ProcStep, AssignStep, RiderStep, FaultStep

\* Every step keeps handlers and calls matched.
LEMMA HandlersStep ==
  ASSUME DispatchInv, [Next]_vars
  PROVE  HandlersOK'
  <1> SUFFICES ASSUME NEW q \in Procs
               PROVE  HandlersOK!(q)'
    BY DEF HandlersOK
  <1>1. ASSUME handler'[q] = handler[q], call'[q] = call[q]
        PROVE  HandlersOK!(q)'
    BY <1>1, HandlerKept DEF DispatchInv
  <1>2. ASSUME NEW p \in Procs, ProcStep(p) \/ ClientStep(p) \/ FaultStep(p)
        PROVE  HandlersOK!(q)'
    BY <1>1, <1>2, HandlerStep, OthersStay DEF DispatchInv
  <1>3. ASSUME NEW r \in Riders, NEW value, SetAvailability(r, value)
        PROVE  HandlersOK!(q)'
    BY <1>1, <1>3 DEF SetAvailability, lifecycleVars
  <1>4. CASE Crash
    <2>1. handler'[q] = IdleHandler /\ call'[q] = IdleCall
      BY <1>4 DEF Crash, LoseAllCalls
    <2>2. QED  BY <2>1, HandlerEnded DEF IdleCall
  <1>5. CASE UNCHANGED vars \/ PostDeadLetter
    BY <1>1, <1>5 DEF vars, PostDeadLetter, lifecycleVars
  <1>6. QED  BY <1>2, <1>3, <1>4, <1>5 DEF Next

-----------------------------------------------------------------------------
(* The delivery row and what is known of it. *)

\* The steps that write the row: an assignment, or one of the rider's four.
LEMMA DeliveryMoves ==
  ASSUME [Next]_vars, delivery' # delivery
  PROVE  \E p \in Procs :
            UpsertDelivery(p) \/ AcceptDelivery(p) \/ PickUp(p) \/ LeaveForDelivery(p) \/ Deliver(p)
  <1>1. ASSUME NEW p \in Procs, ProcStep(p)
        PROVE  \/ UNCHANGED delivery
               \/ UpsertDelivery(p) \/ AcceptDelivery(p) \/ PickUp(p)
               \/ LeaveForDelivery(p) \/ Deliver(p)
    BY <1>1 DEF ProcStep, CallStep, EnqueueAssignment, AnswerMove, AssignStep, TakeAssignment,
       LoadReadyOrder, RefuseAssignment, ChooseRider, NoAvailableRider, OccupyRider,
       FinishAssignment, FinishJob, RiderStep, FreeRider, HandlerThrows, deliveryVars
  <1>2. ASSUME NEW p \in Procs, ClientStep(p) \/ FaultStep(p)
        PROVE  UNCHANGED delivery
    BY <1>2 DEF ClientStep, RequestPreparing, RequestReady, RequestAssignment, RequestRiderStep,
                RiderRequest, FaultStep, FailInCall, FailInHandler, deliveryVars
  <1>3. QED
    BY <1>1, <1>2 DEF Next, Crash, PostDeadLetter, SetAvailability, vars, deliveryVars

\* What one step makes of the rows: only that of the handler's order changes,
\* and the timestamps are kept, with one more for three of the rider's four.
LEMMA RowWritten ==
  ASSUME DispatchInv, NEW p \in Procs,
         UpsertDelivery(p) \/ AcceptDelivery(p) \/ PickUp(p) \/ LeaveForDelivery(p) \/ Deliver(p)
  PROVE  LET o == handler[p].order
             stamps == delivery[o].stamps IN
         /\ o \in Orders
         /\ \A r \in Orders : r # o => delivery'[r] = delivery[r]
         /\ \/ /\ UpsertDelivery(p)
               /\ delivery'[o].status = "ASSIGNED" /\ delivery'[o].stamps = stamps
               /\ delivery'[o].rider = handler[p].rider /\ handler[p].rider \in Riders
            \/ /\ delivery'[o].rider = delivery[o].rider
               /\ \/ /\ AcceptDelivery(p) /\ delivery'[o].status = "ACCEPTED"
                     /\ delivery'[o].stamps = stamps \cup {"acceptedAt"}
                  \/ /\ PickUp(p) /\ delivery'[o].status = "PICKED_UP"
                     /\ delivery'[o].stamps = stamps \cup {"pickedUpAt"}
                  \/ /\ LeaveForDelivery(p) /\ delivery'[o].status = "OUT_FOR_DELIVERY"
                     /\ delivery'[o].stamps = stamps
                  \/ /\ Deliver(p) /\ delivery'[o].status = "DELIVERED"
                     /\ delivery'[o].stamps = stamps \cup {"deliveredAt"}
  <1> DEFINE o == handler[p].order
  <1> USE DEF DispatchInv, DispatchTypeOK
  <1>1. o \in Orders /\ (UpsertDelivery(p) => handler[p].rider \in Riders)
    BY DEF HandlersOK, UpsertDelivery, AcceptDelivery, PickUp, LeaveForDelivery, Deliver, At
  <1>2. ASSUME NEW next, NEW stamps, UpdateDelivery(o, next, stamps)
        PROVE  /\ \A r \in Orders : r # o => delivery'[r] = delivery[r]
               /\ delivery'[o].rider = delivery[o].rider
               /\ delivery'[o].status = next
               /\ delivery'[o].stamps = delivery[o].stamps \cup stamps
    BY <1>1, <1>2 DEF UpdateDelivery, Deliveries
  <1>3. CASE UpsertDelivery(p)
    BY <1>1, <1>3 DEF UpsertDelivery, Deliveries
  <1>4. CASE AcceptDelivery(p)
    BY <1>1, <1>2, <1>4 DEF AcceptDelivery
  <1>5. CASE PickUp(p)
    BY <1>1, <1>2, <1>5 DEF PickUp
  <1>6. CASE LeaveForDelivery(p)
    <2>1. UpdateDelivery(o, "OUT_FOR_DELIVERY", {})
      BY <1>6 DEF LeaveForDelivery
    <2>2. delivery[o].stamps \cup {} = delivery[o].stamps
      BY <1>1 DEF Deliveries
    <2>3. QED  BY <1>1, <1>2, <1>6, <2>1, <2>2
  <1>7. CASE Deliver(p)
    BY <1>1, <1>2, <1>7 DEF Deliver
  <1>8. QED  BY <1>3, <1>4, <1>5, <1>6, <1>7

\* No timestamp is cleared, and a delivery that has a rider keeps one.
LEMMA DeliveryGrows ==
  ASSUME DispatchInv, [Next]_vars, NEW o \in Orders
  PROVE  /\ delivery[o].stamps \subseteq delivery'[o].stamps
         /\ delivery[o].rider \in Riders => delivery'[o].rider \in Riders
  <1>1. CASE delivery' = delivery
    BY <1>1
  <1>2. CASE delivery' # delivery
    <2>1. PICK p \in Procs :
            UpsertDelivery(p) \/ AcceptDelivery(p) \/ PickUp(p) \/ LeaveForDelivery(p) \/ Deliver(p)
      BY <1>2, DeliveryMoves
    <2>2. CASE handler[p].order = o
      BY <2>1, <2>2, RowWritten
    <2>3. CASE handler[p].order # o
      BY <2>1, <2>3, RowWritten
    <2>4. QED  BY <2>2, <2>3
  <1>3. QED  BY <1>1, <1>2

\* The stamps go with the status.
LEMMA StampsStep ==
  ASSUME DispatchInv, [Next]_vars
  PROVE  StampsOK'
  <1> USE DEF DispatchInv
  <1>1. CASE delivery' = delivery
    BY <1>1 DEF StampsOK
  <1>2. CASE delivery' # delivery
    <2>1. PICK p \in Procs :
            UpsertDelivery(p) \/ AcceptDelivery(p) \/ PickUp(p) \/ LeaveForDelivery(p) \/ Deliver(p)
      BY <1>2, DeliveryMoves
    <2> SUFFICES ASSUME NEW o \in Orders
                 PROVE  StampsOK!(o)'
      BY DEF StampsOK
    <2>2. CASE handler[p].order # o
      BY <2>1, <2>2, RowWritten DEF StampsOK
    <2>3. CASE handler[p].order = o
      <3>1. /\ PickUp(p) => handler[p].pc = "pickingUp"
            /\ LeaveForDelivery(p) => handler[p].pc = "leaving"
            /\ Deliver(p) => handler[p].pc = "delivering"
        BY DEF PickUp, LeaveForDelivery, Deliver, At
      <3>2. /\ PickUp(p) \/ LeaveForDelivery(p) \/ Deliver(p) => "acceptedAt" \in delivery[o].stamps
            /\ LeaveForDelivery(p) \/ Deliver(p) => "pickedUpAt" \in delivery[o].stamps
        BY <2>3, <3>1 DEF HandlersKnow
      <3>3. QED
        BY <2>1, <2>3, <3>2, RowWritten
    <2>4. QED  BY <2>2, <2>3
  <1>3. QED  BY <1>1, <1>2

\* What is known of an order's row stays known.
LEMMA KnowledgeKept ==
  ASSUME DispatchInv, [Next]_vars, NEW q \in Procs,
         handler'[q] = handler[q], call'[q] = call[q]
  PROVE  HandlersKnow!(q)' /\ CallsKnow!(q)'
  <1> USE DEF DispatchInv
  <1>1. handler[q].pc # "idle" => handler[q].order \in Orders
    BY DEF HandlersOK
  <1>2. call[q].pc # "idle" => call[q].order \in Orders
    BY DEF HandlersOK
  <1>3. HandlersKnow!(q)'
    BY <1>1, DeliveryGrows DEF HandlersKnow
  <1>4. CallsKnow!(q)'
    BY <1>2, DeliveryGrows DEF CallsKnow
  <1>5. QED  BY <1>3, <1>4

\* What a handler and its call go by.
LEMMA KnowledgeStep ==
  ASSUME DispatchInv, [Next]_vars, NEW p \in Procs, ProcStep(p) \/ ClientStep(p) \/ FaultStep(p)
  PROVE  HandlersKnow!(p)' /\ CallsKnow!(p)'
  <1> USE DEF DispatchInv, DispatchTypeOK, LifecycleTypeOK, lifecycleVars
  <1> DEFINE o == handler[p].order
  <1>0. /\ handler[p] \in Handlers /\ call[p] \in Calls
        /\ handler[p].pc # "idle" => o \in Orders
        /\ call[p].pc # "idle" => call[p].order = o /\ o \in Orders
    BY DEF HandlersOK
  \* A handler whose next await needs nothing of the row.
  <1>1. ASSUME handler'[p].pc \in {"idle", "answering", "readying", "loading", "choosing",
                                   "upserting", "accepting", "done"}
        PROVE  HandlersKnow!(p)'
    BY <1>1
  \* A call that needs nothing of it.
  <1>2. ASSUME call'[p].pc = "idle" \/ call'[p].next \notin {"PICKED_UP", "DELIVERED"}
        PROVE  CallsKnow!(p)'
    BY <1>2
  <1>3. ASSUME call'[p] = call[p]
        PROVE  CallsKnow!(p)'
    BY <1>0, <1>3, DeliveryGrows DEF CallsKnow
  <1>4. ASSUME handler'[p] = handler[p]
        PROVE  HandlersKnow!(p)'
    BY <1>0, <1>4, DeliveryGrows DEF HandlersKnow
  <1>5. ASSUME Stop(p), call'[p] = call[p] \/ Return(p)
        PROVE  HandlersKnow!(p)' /\ CallsKnow!(p)'
    <2>1. handler'[p].pc = "idle"
      BY <1>5 DEF Stop, IdleHandler
    <2>2. Return(p) => call'[p].pc = "idle"
      BY DEF Return, IdleCall
    <2>3. QED  BY <1>1, <1>2, <1>3, <1>5, <2>1, <2>2
  <1>6. CASE CallStep(p) \/ FailInCall(p)
    <2>1. UNCHANGED handler /\ UNCHANGED delivery
      BY <1>6 DEF CallStep, FailInCall, deliveryVars
    <2>2. /\ call[p].pc # "idle"
          /\ call'[p].order = call[p].order /\ call'[p].next = call[p].next
      BY <1>6 DEF CallStep, FailInCall, ReadOrder, RefuseMove, Announce, WriteStatus, LoseCall,
                  Calls
    <2>3. CallsKnow!(p)'
      BY <2>1, <2>2 DEF CallsKnow
    <2>4. QED  BY <1>4, <2>1, <2>3
  <1>7. CASE \/ (\E j \in Jobs : EnqueueAssignment(p, j)) \/ AnswerMove(p) \/ HandlerThrows(p)
             \/ RefuseAssignment(p) \/ NoAvailableRider(p) \/ FinishJob(p)
             \/ AcceptDelivery(p) \/ FailInHandler(p)
    BY <1>5, <1>7 DEF EnqueueAssignment, AnswerMove, HandlerThrows, RefuseAssignment,
                      NoAvailableRider, FinishJob, AcceptDelivery, FailInHandler, Unwind
  <1>8. CASE FinishAssignment(p)
    <2>1. handler'[p].pc \in {"idle", "done"}
      BY <1>0, <1>8 DEF FinishAssignment, Stop, IdleHandler, Proceed, Handlers
    <2>2. call'[p].pc = "idle"
      BY <1>8 DEF FinishAssignment, Return, IdleCall
    <2>3. QED  BY <1>1, <1>2, <2>1, <2>2
  <1>9. CASE \/ \E j \in Jobs : TakeAssignment(p, j)
             \/ LoadReadyOrder(p)
             \/ \E r \in Riders : ChooseRider(p, r)
    <2>1. handler'[p].pc \in {"loading", "choosing", "upserting"}
      <3>1. ASSUME NEW j \in Jobs, TakeAssignment(p, j) PROVE handler'[p].pc = "loading"
        BY <3>1 DEF TakeAssignment, Start
      <3>2. ASSUME LoadReadyOrder(p) PROVE handler'[p].pc = "choosing"
        BY <1>0, <3>2 DEF LoadReadyOrder, Proceed, Handlers
      <3>3. ASSUME NEW r \in Riders, ChooseRider(p, r) PROVE handler'[p].pc = "upserting"
        BY <1>0, <3>3 DEF ChooseRider, Handlers
      <3>4. QED  BY <1>9, <3>1, <3>2, <3>3
    <2>2. call'[p] = call[p]
      BY <1>9 DEF TakeAssignment, LoadReadyOrder, ChooseRider
    <2>3. QED  BY <1>1, <1>3, <2>1, <2>2
  <1>10. ASSUME NEW pc, Proceed(p, pc), handler[p].pc # "idle"
         PROVE  handler'[p].pc = pc /\ handler'[p].order = o
    BY <1>0, <1>10 DEF Proceed, Handlers
  <1>11. ASSUME NEW next, Invoke(p, o, next)
         PROVE  call'[p].order = o /\ call'[p].next = next
    BY <1>11 DEF Invoke, NewCall
  <1>12. CASE UpsertDelivery(p)
    <2>1. /\ handler'[p].pc = "occupying" /\ handler'[p].order = o
          /\ call'[p] = call[p] /\ delivery'[o].rider \in Riders
      <3>1. handler[p].pc = "upserting" /\ Proceed(p, "occupying") /\ call'[p] = call[p]
            /\ handler[p].rider \in Riders
        BY <1>12 DEF UpsertDelivery, At, HandlersOK
      <3>2. delivery'[o].rider \in Riders
        BY <1>12, <3>1, <1>0 DEF UpsertDelivery, Deliveries
      <3>3. QED  BY <1>10, <3>1, <3>2
    <2>2. QED  BY <1>3, <2>1
  <1>13. CASE OccupyRider(p)
    <2>1. /\ handler[p].pc = "occupying" /\ handler'[p].pc = "assigning"
          /\ handler'[p].order = o /\ call'[p].next = "RIDER_ASSIGNED" /\ UNCHANGED delivery
      BY <1>10, <1>11, <1>13 DEF OccupyRider, At
    <2>2. delivery[o].rider \in Riders
      BY <2>1 DEF HandlersKnow
    <2>3. QED  BY <1>2, <2>1, <2>2
  <1>14. CASE PickUp(p)
    <2>1. /\ handler[p].pc = "pickingUp" /\ handler'[p].pc = "answering"
          /\ call'[p].order = o /\ call'[p].next = "PICKED_UP"
      BY <1>10, <1>11, <1>14 DEF PickUp, At
    <2>2. "acceptedAt" \in delivery[o].stamps
      BY <2>1 DEF HandlersKnow
    <2>3. {"acceptedAt", "pickedUpAt"} \subseteq delivery'[o].stamps
      BY <1>0, <1>14, <2>2 DEF PickUp, UpdateDelivery, Deliveries, At
    <2>4. QED  BY <1>1, <2>1, <2>3
  <1>15. CASE LeaveForDelivery(p)
    <2>1. handler'[p].pc = "answering" /\ call'[p].next = "OUT_FOR_DELIVERY"
      BY <1>10, <1>11, <1>15 DEF LeaveForDelivery, At
    <2>2. QED  BY <1>1, <1>2, <2>1
  <1>16. CASE Deliver(p)
    <2>1. handler'[p].pc = "freeing" /\ handler'[p].order = o /\ call'[p] = call[p]
      BY <1>10, <1>16 DEF Deliver, At
    <2>2. "deliveredAt" \in delivery'[o].stamps
      BY <1>0, <1>16 DEF Deliver, UpdateDelivery, Deliveries, At
    <2>3. QED  BY <1>3, <2>1, <2>2
  <1>17. CASE FreeRider(p)
    <2>1. /\ handler[p].pc = "freeing" /\ handler'[p].pc = "answering"
          /\ call'[p].order = o /\ call'[p].next = "DELIVERED" /\ UNCHANGED delivery
      BY <1>10, <1>11, <1>17 DEF FreeRider, At
    <2>2. "deliveredAt" \in delivery[o].stamps
      BY <2>1 DEF HandlersKnow
    <2>3. QED  BY <1>1, <2>1, <2>2
  <1>18. ASSUME NEW r \in Orders, RequestPreparing(p, r) \/ RequestReady(p, r)
         PROVE  HandlersKnow!(p)' /\ CallsKnow!(p)'
    <2>1. /\ handler'[p].pc \in {"answering", "readying"}
          /\ call'[p].next \in {"PREPARING", "READY"}
      BY <1>18 DEF RequestPreparing, RequestReady, Start, Invoke, NewCall
    <2>2. QED  BY <1>1, <1>2, <2>1
  <1>19. ASSUME NEW r \in Orders, NEW s, RequestAssignment(p, r, s)
         PROVE  HandlersKnow!(p)' /\ CallsKnow!(p)'
    <2>1. handler'[p].pc = "loading" /\ call'[p] = call[p]
      BY <1>19 DEF RequestAssignment, Start
    <2>2. QED  BY <1>1, <1>3, <2>1
  <1>20. ASSUME NEW r \in Orders, NEW s \in Riders, RequestRiderStep(p, r, s)
         PROVE  HandlersKnow!(p)' /\ CallsKnow!(p)'
    <2>1. /\ handler'[p].order = r /\ call'[p] = call[p] /\ UNCHANGED delivery
          /\ \/ handler'[p].pc = "accepting"
             \/ handler'[p].pc = "pickingUp" /\ delivery[r].status = "ACCEPTED"
             \/ handler'[p].pc = "leaving" /\ delivery[r].status = "PICKED_UP"
             \/ handler'[p].pc = "delivering" /\ delivery[r].status = "OUT_FOR_DELIVERY"
      BY <1>20 DEF RequestRiderStep, RiderRequest, Start, deliveryVars
    <2>2. HandlersKnow!(p)'
      BY <2>1 DEF StampsOK
    <2>3. QED  BY <1>3, <2>1, <2>2
  <1>21. CASE ClientStep(p)
    BY <1>18, <1>19, <1>20, <1>21 DEF ClientStep
  <1>22. QED
    BY <1>6, <1>7, <1>8, <1>9, <1>12, <1>13, <1>14, <1>15, <1>16, <1>17, <1>21
       DEF ProcStep, AssignStep, RiderStep, FaultStep

\* Every step keeps what handlers and calls know.
LEMMA KnowledgeInv ==
  ASSUME DispatchInv, [Next]_vars
  PROVE  HandlersKnow' /\ CallsKnow'
  <1> SUFFICES ASSUME NEW q \in Procs
               PROVE  HandlersKnow!(q)' /\ CallsKnow!(q)'
    BY DEF HandlersKnow, CallsKnow
  <1>1. ASSUME NEW p \in Procs, ProcStep(p) \/ ClientStep(p) \/ FaultStep(p)
        PROVE  HandlersKnow!(q)' /\ CallsKnow!(q)'
    BY <1>1, KnowledgeStep, KnowledgeKept, OthersStay DEF DispatchInv
  <1>2. ASSUME NEW r \in Riders, NEW value, SetAvailability(r, value)
        PROVE  HandlersKnow!(q)' /\ CallsKnow!(q)'
    BY <1>2, KnowledgeKept DEF SetAvailability, lifecycleVars
  <1>3. CASE Crash
    <2>1. handler'[q].pc = "idle" /\ call'[q].pc = "idle"
      BY <1>3 DEF Crash, LoseAllCalls, IdleHandler, IdleCall
    <2>2. QED  BY <2>1
  <1>4. CASE UNCHANGED vars \/ PostDeadLetter
    BY <1>4, KnowledgeKept DEF vars, PostDeadLetter, lifecycleVars
  <1>5. QED  BY <1>1, <1>2, <1>3, <1>4 DEF Next

-----------------------------------------------------------------------------
(* The order trails its delivery. *)

\* A status that an order never had is written by its call, to the end that
\* the call was made for.
LEMMA NewStatusIsCalled ==
  ASSUME DispatchInv, [Next]_vars, NEW o \in Orders,
         NEW t \in Statuses \ {"PENDING"}, t \in visited'[o], t \notin visited[o]
  PROVE  \E p \in Procs : /\ CallStep(p) /\ WriteStatus(p)
                          /\ call[p].pc # "idle" /\ call[p].order = o /\ call[p].next = t
  <1> USE DEF DispatchInv, DispatchTypeOK, LifecycleTypeOK
  <1>1. visited' # visited
    OBVIOUS
  <1>2. PICK p \in Procs : WriteStatus(p) /\ call[p].order = o /\ call[p].next = t
    BY StepsCallTheLifecycle, NewStatusIsWritten
  <1>3. call[p].pc = "write" /\ call'[p] # call[p]
    BY <1>2 DEF WriteStatus, Calls
  <1>4. PICK q \in Procs : ProcStep(q) \/ ClientStep(q) \/ FaultStep(q)
    BY <1>1 DEF Next, Crash, PostDeadLetter, SetAvailability, vars, lifecycleVars,
                LoseAllCalls
  <1>5. p = q
    BY <1>3, <1>4, OthersStay
  <1>6. CallStep(q)
    BY <1>1, <1>4 DEF ProcStep, EnqueueAssignment, AnswerMove, AssignStep, TakeAssignment,
       LoadReadyOrder, RefuseAssignment, ChooseRider, NoAvailableRider, UpsertDelivery,
       OccupyRider, FinishAssignment, FinishJob, RiderStep, AcceptDelivery, PickUp,
       LeaveForDelivery, Deliver, FreeRider, HandlerThrows, ClientStep, RequestPreparing,
       RequestReady, RequestAssignment, RequestRiderStep, RiderRequest, FaultStep, FailInCall,
       FailInHandler, Invoke, Return, LoseCall, lifecycleVars
  <1>7. QED  BY <1>2, <1>3, <1>5, <1>6

\* The order's rider, once written, is written over by riders only.
LEMMA OrderRiderKept ==
  ASSUME DispatchInv, [Next]_vars, NEW o \in Orders
  PROVE  orderRider[o] \in Riders => orderRider'[o] \in Riders
  <1> USE DEF DispatchInv, DispatchTypeOK
  <1>1. ASSUME NEW p \in Procs, CallStep(p)
        PROVE  orderRider[o] \in Riders => orderRider'[o] \in Riders
    <2>1. At(p, "assigning") => handler[p].rider \in Riders /\ handler[p].order \in Orders
      BY DEF HandlersOK, At
    <2>2. QED  BY <1>1, <2>1 DEF CallStep
  <1>2. ASSUME NEW p \in Procs, ProcStep(p), ~CallStep(p)
        PROVE  UNCHANGED orderRider
    BY <1>2 DEF ProcStep, EnqueueAssignment, AnswerMove, AssignStep, TakeAssignment,
       LoadReadyOrder, RefuseAssignment, ChooseRider, NoAvailableRider, UpsertDelivery,
       OccupyRider, FinishAssignment, FinishJob, RiderStep, AcceptDelivery, PickUp,
       LeaveForDelivery, Deliver, FreeRider, HandlerThrows, deliveryVars
  <1>3. ASSUME NEW p \in Procs, ClientStep(p) \/ FaultStep(p)
        PROVE  UNCHANGED orderRider
    BY <1>3 DEF ClientStep, RequestPreparing, RequestReady, RequestAssignment, RequestRiderStep,
       RiderRequest, FaultStep, FailInCall, FailInHandler, deliveryVars
  <1>4. QED
    BY <1>1, <1>2, <1>3 DEF Next, Crash, PostDeadLetter, SetAvailability, vars,
                            deliveryVars

\* What OrderTrailsDelivery says, with the riders' type.
TrailOK ==
    \A o \in Orders :
        /\ "RIDER_ASSIGNED" \in visited[o] =>
              orderRider[o] \in Riders /\ delivery[o].rider \in Riders
        /\ "PICKED_UP" \in visited[o] =>
              {"acceptedAt", "pickedUpAt"} \subseteq delivery[o].stamps
        /\ "DELIVERED" \in visited[o] => "deliveredAt" \in delivery[o].stamps

LEMMA TrailIsOrderTrails ==
  ASSUME DispatchTypeOK
  PROVE  TrailOK <=> OrderTrailsDelivery
  <1>1. \A o \in Orders : /\ orderRider[o] # NoRider <=> orderRider[o] \in Riders
                          /\ delivery[o].rider # NoRider <=> delivery[o].rider \in Riders
    BY DispatchAssumption DEF DispatchTypeOK, Deliveries
  <1>2. QED  BY <1>1 DEF TrailOK, OrderTrailsDelivery

\* The order is moved only after its delivery.
LEMMA TrailStep ==
  ASSUME DispatchInv, [Next]_vars
  PROVE  TrailOK'
  <1> SUFFICES ASSUME NEW o \in Orders
               PROVE  TrailOK!(o)'
    BY DEF TrailOK
  <1> USE DEF DispatchInv
  <1>0. TrailOK!(o)
    BY TrailIsOrderTrails DEF TrailOK
  <1>1. {"RIDER_ASSIGNED", "PICKED_UP", "DELIVERED"} \subseteq Statuses \ {"PENDING"}
    BY DEF Statuses
  <1>2. ASSUME "RIDER_ASSIGNED" \in visited'[o]
        PROVE  orderRider'[o] \in Riders /\ delivery'[o].rider \in Riders
    <2>1. CASE "RIDER_ASSIGNED" \in visited[o]
      BY <1>0, <2>1, DeliveryGrows, OrderRiderKept
    <2>2. CASE "RIDER_ASSIGNED" \notin visited[o]
      <3>1. PICK p \in Procs : /\ CallStep(p) /\ WriteStatus(p) /\ call[p].pc # "idle"
                               /\ call[p].order = o /\ call[p].next = "RIDER_ASSIGNED"
        BY <1>1, <1>2, <2>2, NewStatusIsCalled
      <3>2. /\ handler[p].pc = "assigning" /\ handler[p].order = o /\ handler[p].rider \in Riders
        BY <3>1 DEF HandlersOK
      <3>3. delivery[o].rider \in Riders
        BY <3>2 DEF HandlersKnow
      <3>4. orderRider'[o] = handler[p].rider
        BY <3>1, <3>2 DEF CallStep, WriteStatus, ReadOrder, RefuseMove, Announce, At,
                          DispatchTypeOK
      <3>5. QED  BY <3>2, <3>3, <3>4, DeliveryGrows
    <2>3. QED  BY <2>1, <2>2
  <1>3. ASSUME "PICKED_UP" \in visited'[o]
        PROVE  {"acceptedAt", "pickedUpAt"} \subseteq delivery'[o].stamps
    <2>1. {"acceptedAt", "pickedUpAt"} \subseteq delivery[o].stamps
      BY <1>0, <1>1, <1>3, NewStatusIsCalled DEF CallsKnow
    <2>2. QED  BY <2>1, DeliveryGrows
  <1>4. ASSUME "DELIVERED" \in visited'[o]
        PROVE  "deliveredAt" \in delivery'[o].stamps
    <2>1. "deliveredAt" \in delivery[o].stamps
      BY <1>0, <1>1, <1>4, NewStatusIsCalled DEF CallsKnow
    <2>2. QED  BY <2>1, DeliveryGrows
  <1>5. QED  BY <1>2, <1>3, <1>4

-----------------------------------------------------------------------------
\* The orders begin as the payments left them.
LEMMA DispatchInitInv == Init => DispatchInv
  <1> SUFFICES ASSUME Init PROVE DispatchInv
    OBVIOUS
  <1> USE DEF Init
  <1>1. LifecycleTypeOK
    BY DEF LifecycleTypeOK, IdleCall, Calls, Statuses
  <1>2. HistoryStartsPending
    BY DEF HistoryStartsPending, NoRow
  <1>3. HistoryIsChained
    <2> SUFFICES ASSUME NEW o \in Orders, NEW s \in visited[o]
                 PROVE  s = "PENDING" \/ \E r \in visited[o] : Allowed(r, s)
      BY DEF HistoryIsChained
    <2>1. /\ Allowed("PENDING", "PAYMENT_PENDING") /\ Allowed("PAYMENT_PENDING", "PAID")
          /\ Allowed("PAID", "ACCEPTED")
      BY DEF Allowed, Transitions
    <2>2. QED  BY <2>1
  <1>4. WritesAreChecked
    BY DEF WritesAreChecked, IdleCall
  <1>5. LifecycleInv
    BY <1>1, <1>2, <1>3, <1>4 DEF LifecycleInv
  <1>6. QueueTypeOK(JobData)
    BY DEF QueueInit, QueueTypeOK, JobRecords, FreeJob, DeadLetterRecords
  <1>7. DispatchTypeOK
    <2>1. delivery \in [Orders -> Deliveries]
      BY DEF NoDelivery, Deliveries
    <2>2. handler \in [Procs -> Handlers]
      BY DEF IdleHandler, Handlers
    <2>3. orderRider \in [Orders -> Riders \cup {NoRider}]
      OBVIOUS
    <2>4. QED  BY <1>1, <1>6, <2>1, <2>2, <2>3 DEF DispatchTypeOK
  <1>8. HandlersOK /\ HandlersKnow /\ CallsKnow
    BY DEF HandlersOK, HandlersKnow, CallsKnow, IdleHandler, IdleCall
  <1>9. JobsOK
    BY DispatchAssumption DEF JobsOK, QueueInit, FreeJob, IdleHandler
  <1>10. StampsOK
    BY DEF StampsOK, NoDelivery, NoRow
  <1>11. OrderTrailsDelivery
    BY DEF OrderTrailsDelivery
  <1>12. QED
    BY <1>5, <1>7, <1>8, <1>9, <1>10, <1>11 DEF DispatchInv

\* Every step keeps the invariant.
LEMMA DispatchStepInv == DispatchInv /\ [Next]_vars => DispatchInv'
  <1> SUFFICES ASSUME DispatchInv, [Next]_vars PROVE DispatchInv'
    OBVIOUS
  <1>1. LifecycleInv'
    BY StepsCallTheLifecycle, LifecycleStepInv DEF DispatchInv
  <1>2. DispatchTypeOK'
    BY <1>1, StepTypes DEF LifecycleInv
  <1>3. OrderTrailsDelivery'
    BY <1>2, TrailStep, TrailIsOrderTrails, PTL
  <1>4. QED
    BY <1>1, <1>2, <1>3, HandlersStep, JobsStep, StampsStep, KnowledgeInv DEF DispatchInv

THEOREM DispatchInvariant == Spec => []DispatchInv
  BY DispatchInitInv, DispatchStepInv, PTL DEF Spec

\* The variables hold what they are declared for, always.
THEOREM DispatchTypes == Spec => []DispatchTypeOK
  <1>1. DispatchInv => DispatchTypeOK
    BY DEF DispatchInv
  <1>2. QED  BY <1>1, DispatchInvariant, PTL

(***************************************************************************)
(* Whatever overlaps, fails or dies: no order is shown further than its    *)
(* delivery has come.                                                      *)
(***************************************************************************)
THEOREM OrdersTrailDeliveries == Spec => []OrderTrailsDelivery
  <1>1. DispatchInv => OrderTrailsDelivery
    BY DEF DispatchInv
  <1>2. QED  BY <1>1, DispatchInvariant, PTL

(***************************************************************************)
(* Each step that the rider's page shows as complete has its timestamp.    *)
(***************************************************************************)
THEOREM DeliveryTimelineTellsHistory == Spec => []DeliveryTimelineIsHistory
  <1>1. DispatchInv => DeliveryTimelineIsHistory
    BY DeliveryStepsShown DEF DispatchInv, StampsOK, DeliveryTimelineIsHistory
  <1>2. QED  BY <1>1, DispatchInvariant, PTL

-----------------------------------------------------------------------------
(* One request at a time, and the delivery job is the only assigner. *)

\* Two assigners at work on one order, or two rider requests, can leave order
\* and delivery different for good (run dispatch_reassign): what dispatch_job
\* checks needs both of these.
SerialDispatch ==
    /\ \A p, q \in Api : p = q
    /\ "assign" \notin Requests

\* Requests and workers each stay in the code of their own handlers and ask
\* transitionOrder for what these ask for; a worker works on its job's order.
Roles ==
    \A p \in Procs :
        /\ p \in Api /\ "assign" \notin Requests => handler[p].pc \notin
              {"loading", "choosing", "upserting", "occupying", "assigning", "done"}
        /\ p \in DeliveryWorkers => handler[p].pc \in
              {"idle", "loading", "choosing", "upserting", "occupying", "assigning", "done"}
        /\ p \in DeliveryWorkers /\ handler[p].pc # "idle" =>
              jobs[handler[p].job].data = handler[p].order
        /\ At(p, "readying") => call[p].pc # "idle" /\ call[p].next = "READY"
        /\ At(p, "assigning") => call[p].pc # "idle" /\ call[p].next = "RIDER_ASSIGNED"
        /\ At(p, "answering") => call[p].pc # "idle" /\ call[p].next \in
              {"PREPARING", "PICKED_UP", "OUT_FOR_DELIVERY", "DELIVERED"}

\* The assignment job of an order.
JobFor(j, o) == jobs[j].state # "free" /\ jobs[j].data = o

OneJob == \A o \in Orders : \A i, j \in Jobs : JobFor(i, o) /\ JobFor(j, o) => i = j

\* From the read of assignReadyOrder to its write.
AssigningAt(p) ==
    \/ handler[p].pc \in {"choosing", "upserting", "occupying"}
    \/ At(p, "assigning") /\ call[p].pc \in {"read", "write"}

\* markReady has moved the order and not yet added the job.
ReadyingAt(p) == At(p, "readying") /\ call[p].pc \in {"announce", "returned"}

\* What a handler may rely on, although it read the rows some awaits ago.
HandlerRelies(p) ==
    /\ AssigningAt(p) => status[handler[p].order] = "READY"
    /\ handler[p].pc \in {"occupying", "assigning"} =>
          delivery[handler[p].order].rider = handler[p].rider
    /\ call[p].pc = "write" => Allowed(status[call[p].order], call[p].next)
    /\ ReadyingAt(p) =>
          /\ \A j \in Jobs : ~JobFor(j, handler[p].order)
          /\ status[handler[p].order] = "READY"

RowsKnown(o) ==
    /\ status[o] \in {"ACCEPTED", "PREPARING"} => \A j \in Jobs : ~JobFor(j, o)
    /\ "RIDER_ASSIGNED" \in visited[o] =>
          /\ status[o] \in {"RIDER_ASSIGNED", "PICKED_UP", "OUT_FOR_DELIVERY", "DELIVERED"}
          /\ orderRider[o] = delivery[o].rider

AssignmentInv ==
    /\ Roles
    /\ OneJob
    /\ \A p \in Procs : HandlerRelies(p)
    /\ \A o \in Orders : RowsKnown(o)

\* A step of one process, by the names of the actions.
StepOf(p) == ProcStep(p) \/ ClientStep(p) \/ FaultStep(p)

LEMMA StepCases ==
  ASSUME NEW p \in Procs, StepOf(p)
  PROVE  \/ CallStep(p)
         \/ \E j \in Jobs : EnqueueAssignment(p, j)
         \/ AnswerMove(p)
         \/ \E j \in Jobs : TakeAssignment(p, j)
         \/ LoadReadyOrder(p)
         \/ RefuseAssignment(p)
         \/ \E r \in Riders : ChooseRider(p, r)
         \/ NoAvailableRider(p)
         \/ UpsertDelivery(p)
         \/ OccupyRider(p)
         \/ FinishAssignment(p)
         \/ FinishJob(p)
         \/ AcceptDelivery(p)
         \/ PickUp(p)
         \/ LeaveForDelivery(p)
         \/ Deliver(p)
         \/ FreeRider(p)
         \/ HandlerThrows(p)
         \/ ClientStep(p)
         \/ FailInCall(p)
         \/ FailInHandler(p)
  BY DEF StepOf, ProcStep, AssignStep, RiderStep, FaultStep

-----------------------------------------------------------------------------
(* What a step does to the jobs. *)

\* The jobs that others have, and those that wait, keep their data, and one
\* that appears was added by markReady.
LEMMA WhatJobsDo ==
  ASSUME DispatchInv, NEW p \in Procs, StepOf(p), NEW j \in Jobs
  PROVE  \/ jobs'[j] = jobs[j]
         \/ jobs'[j].state = "free"
         \/ jobs[j].state # "free" /\ jobs'[j].data = jobs[j].data
         \/ /\ EnqueueAssignment(p, j)
            /\ jobs'[j].data = handler[p].order
            /\ \A i \in Jobs : i # j => jobs'[i] = jobs[i]
  <1> USE DEF DispatchInv, DispatchTypeOK, QueueTypeOK
  <1>1. ASSUME NEW i \in Jobs, EnqueueAssignment(p, i)
        PROVE  \/ jobs'[j] = jobs[j]
               \/ /\ EnqueueAssignment(p, j)
                  /\ jobs'[j].data = handler[p].order
                  /\ \A k \in Jobs : k # j => jobs'[k] = jobs[k]
    <2>1. jobs' = [jobs EXCEPT ![i] = [state |-> "waiting", queue |-> "delivery",
                                       data |-> handler[p].order, left |-> 3]]
      BY <1>1 DEF EnqueueAssignment, AddJob
    <2>2. CASE i = j
      BY <1>1, <2>1, <2>2
    <2>3. CASE i # j
      BY <2>1, <2>3
    <2>4. QED  BY <2>2, <2>3
  <1>2. ASSUME NEW i \in Jobs, TakeAssignment(p, i)
        PROVE  jobs'[j] = jobs[j] \/ (jobs[j].state # "free" /\ jobs'[j].data = jobs[j].data)
    BY <1>2 DEF TakeAssignment, TakeJob, Waiting, JobRecords
  <1>3. ASSUME NEW i \in Jobs, jobs[i].state # "free", CompleteJob(i) \/ FailJob(i)
        PROVE  \/ jobs'[j] = jobs[j]
               \/ jobs'[j].state = "free"
               \/ jobs[j].state # "free" /\ jobs'[j].data = jobs[j].data
    BY <1>3 DEF CompleteJob, FailJob, RetryJob, DeadLetterJob, FreeJob, JobRecords
  <1>4. CASE FinishJob(p)
    <2>1. p \in DeliveryWorkers /\ handler[p].pc # "idle"
      BY <1>4 DEF FinishJob, HandlersOK, At
    <2>2. handler[p].job \in Jobs /\ jobs[handler[p].job].state # "free"
      BY <2>1 DEF JobsOK
    <2>3. QED  BY <1>3, <1>4, <2>2 DEF FinishJob
  <1>5. CASE \/ RefuseAssignment(p) \/ NoAvailableRider(p)
             \/ HandlerThrows(p) \/ FailInHandler(p)
    <2>1. handler[p].pc # "idle" /\ Unwind(p)
      BY <1>5 DEF RefuseAssignment, NoAvailableRider, HandlerThrows, FailInHandler,
                  HandlersOK, At
    <2>2. CASE p \in DeliveryWorkers
      <3>1. handler[p].job \in Jobs /\ jobs[handler[p].job].state # "free"
        BY <2>1, <2>2 DEF JobsOK
      <3>2. QED  BY <1>3, <2>1, <2>2, <3>1 DEF Unwind
    <2>3. CASE p \notin DeliveryWorkers
      BY <2>1, <2>3 DEF Unwind, queueVars
    <2>4. QED  BY <2>2, <2>3
  <1>6. CASE \/ CallStep(p) \/ AnswerMove(p) \/ LoadReadyOrder(p)
             \/ (\E r \in Riders : ChooseRider(p, r))
             \/ UpsertDelivery(p) \/ OccupyRider(p) \/ FinishAssignment(p)
    BY <1>6 DEF CallStep, AnswerMove, LoadReadyOrder, ChooseRider, UpsertDelivery,
                OccupyRider, FinishAssignment, queueVars
  <1>7. CASE \/ AcceptDelivery(p) \/ PickUp(p) \/ LeaveForDelivery(p) \/ Deliver(p)
             \/ FreeRider(p) \/ ClientStep(p) \/ FailInCall(p)
    BY <1>7 DEF AcceptDelivery, PickUp, LeaveForDelivery, Deliver, FreeRider,
                ClientStep, RequestPreparing, RequestReady, RequestAssignment,
                RequestRiderStep, RiderRequest, FailInCall, queueVars
  <1>8. QED  BY <1>1, <1>2, <1>4, <1>5, <1>6, <1>7, StepCases

\* An order gets a job from markReady only.
LEMMA WhoAddsJobs ==
  ASSUME DispatchInv, NEW p \in Procs, StepOf(p), NEW o, NEW j \in Jobs,
         JobFor(j, o)', ~JobFor(j, o)
  PROVE  /\ ReadyingAt(p) /\ handler[p].order = o /\ UNCHANGED <<status, visited>>
         /\ \A i \in Jobs : i # j => jobs'[i] = jobs[i]
  <1>1. /\ EnqueueAssignment(p, j)
        /\ jobs'[j].data = handler[p].order
        /\ \A i \in Jobs : i # j => jobs'[i] = jobs[i]
    BY WhatJobsDo DEF JobFor
  <1>2. QED
    BY <1>1 DEF EnqueueAssignment, ReadyingAt, Moved, Return, At, JobFor

\* A worker that is at work keeps the data of its job.
LEMMA OwnJobData ==
  ASSUME DispatchInv, NEW p \in Procs, StepOf(p), NEW w \in DeliveryWorkers,
         handler[w].pc # "idle", JobsOK', handler'[w].pc # "idle",
         handler'[w].job = handler[w].job
  PROVE  jobs'[handler[w].job].data = jobs[handler[w].job].data
  <1>1. handler[w].job \in Jobs /\ jobs[handler[w].job].state = "active"
    BY DEF DispatchInv, JobsOK
  <1>2. jobs'[handler[w].job].state = "active"
    BY DEF JobsOK
  <1>3. ~EnqueueAssignment(p, handler[w].job)
    BY <1>1 DEF EnqueueAssignment, AddJob
  <1>4. QED  BY <1>1, <1>2, <1>3, WhatJobsDo

-----------------------------------------------------------------------------
(* What a step does to the orders. *)

\* Only the write of transitionOrder touches the order rows.
LEMMA WhoMovesOrders ==
  ASSUME DispatchInv, NEW p \in Procs, StepOf(p)
  PROVE  \/ UNCHANGED <<status, visited, orderRider>>
         \/ CallStep(p) /\ WriteStatus(p)
  <1>1. CASE CallStep(p)
    BY <1>1 DEF CallStep, ReadOrder, RefuseMove, Announce
  <1>2. CASE \/ (\E j \in Jobs : EnqueueAssignment(p, j)) \/ AnswerMove(p)
             \/ (\E j \in Jobs : TakeAssignment(p, j)) \/ LoadReadyOrder(p)
             \/ RefuseAssignment(p) \/ (\E r \in Riders : ChooseRider(p, r))
             \/ NoAvailableRider(p) \/ UpsertDelivery(p) \/ OccupyRider(p)
             \/ FinishAssignment(p) \/ FinishJob(p)
    BY <1>2 DEF EnqueueAssignment, AnswerMove, TakeAssignment, LoadReadyOrder,
                RefuseAssignment, ChooseRider, NoAvailableRider, UpsertDelivery,
                OccupyRider, FinishAssignment, FinishJob, Return, Invoke,
                lifecycleVars, deliveryVars
  <1>3. CASE \/ AcceptDelivery(p) \/ PickUp(p) \/ LeaveForDelivery(p) \/ Deliver(p)
             \/ FreeRider(p) \/ HandlerThrows(p) \/ ClientStep(p)
             \/ FailInCall(p) \/ FailInHandler(p)
    BY <1>3 DEF AcceptDelivery, PickUp, LeaveForDelivery, Deliver, FreeRider,
                HandlerThrows, ClientStep, RequestPreparing, RequestReady,
                RequestAssignment, RequestRiderStep, RiderRequest, FailInCall,
                FailInHandler, LoseCall, Return, Invoke, lifecycleVars, deliveryVars
  <1>4. QED  BY <1>1, <1>2, <1>3, StepCases

\* What that write does.
LEMMA WhatAWriteDoes ==
  ASSUME DispatchInv, NEW p \in Procs, CallStep(p), WriteStatus(p)
  PROVE  /\ handler[p].order \in Orders /\ call[p].order = handler[p].order
         /\ handler[p].pc \in {"answering", "readying", "assigning"}
         /\ call[p].pc = "write" /\ call'[p].pc = "announce"
         /\ UNCHANGED <<handler, delivery, jobs>>
         /\ status'[handler[p].order] = call[p].next
         /\ visited'[handler[p].order] = visited[handler[p].order] \cup {call[p].next}
         /\ orderRider'[handler[p].order] =
               IF At(p, "assigning") THEN handler[p].rider ELSE orderRider[handler[p].order]
         /\ \A o \in Orders : o # handler[p].order =>
               /\ status'[o] = status[o] /\ visited'[o] = visited[o]
               /\ orderRider'[o] = orderRider[o]
  <1> USE DEF DispatchInv, DispatchTypeOK, LifecycleTypeOK
  <1>1. /\ handler[p].order \in Orders /\ call[p].order = handler[p].order
        /\ handler[p].pc \in {"answering", "readying", "assigning"}
        /\ call[p].pc = "write"
    BY DEF HandlersOK, WriteStatus
  <1>2. call'[p].pc = "announce"
    BY DEF WriteStatus, Calls
  <1>3. UNCHANGED <<handler, delivery, jobs>>
    BY DEF CallStep, queueVars
  <1>4. orderRider' = IF At(p, "assigning")
                      THEN [orderRider EXCEPT ![handler[p].order] = handler[p].rider]
                      ELSE orderRider
    BY <1>1 DEF CallStep, ReadOrder, RefuseMove, Announce
  <1>5. /\ status' = [status EXCEPT ![handler[p].order] = call[p].next]
        /\ visited' = [visited EXCEPT ![handler[p].order] = @ \cup {call[p].next}]
    BY <1>1 DEF WriteStatus
  <1>6. QED  BY <1>1, <1>2, <1>3, <1>4, <1>5

-----------------------------------------------------------------------------
(* Each process stays in its own code. *)

\* A step keeps the roles, as it keeps jobs and workers matched.
LEMMA RolesStep ==
  ASSUME DispatchInv, DispatchInv', Roles, NEW p \in Procs, StepOf(p)
  PROVE  Roles'
  <1> SUFFICES ASSUME NEW q \in Procs
               PROVE  Roles!(q)'
    BY DEF Roles
  <1> USE DEF DispatchInv, DispatchTypeOK, LifecycleTypeOK
  <1>0. Roles!(q)
    BY DEF Roles
  <1>1. ASSUME handler'[q] = handler[q], call'[q].next = call[q].next,
               call[q].pc # "idle" => call'[q].pc # "idle"
        PROVE  Roles!(q)'
    <2>1. q \in DeliveryWorkers /\ handler[q].pc # "idle" =>
            jobs'[handler[q].job].data = jobs[handler[q].job].data
      BY <1>1, OwnJobData
    <2>2. QED  BY <1>0, <1>1, <2>1 DEF At
  <1>2. CASE q # p
    BY <1>1, <1>2, OthersStay DEF StepOf
  <1>3. CASE q = p
    <2>1. ASSUME handler'[p] = IdleHandler
          PROVE  Roles!(q)'
      BY <1>3, <2>1 DEF IdleHandler, At
    <2>2. CASE CallStep(p) \/ FailInCall(p)
      <3>1. /\ handler'[p] = handler[p] /\ call'[p].next = call[p].next
            /\ call'[p].pc # "idle"
        BY <2>2 DEF CallStep, FailInCall, ReadOrder, RefuseMove, WriteStatus, Announce,
                    LoseCall, Calls
      <3>2. QED  BY <1>1, <1>3, <3>1
    <2>3. CASE \/ (\E j \in Jobs : EnqueueAssignment(p, j)) \/ AnswerMove(p)
               \/ RefuseAssignment(p) \/ NoAvailableRider(p) \/ FinishJob(p)
               \/ AcceptDelivery(p) \/ HandlerThrows(p) \/ FailInHandler(p)
      BY <2>1, <2>3 DEF EnqueueAssignment, AnswerMove, RefuseAssignment,
         NoAvailableRider, FinishJob, AcceptDelivery, HandlerThrows, FailInHandler,
         Unwind, Stop
    <2>4. ASSUME NEW j \in Jobs, TakeAssignment(p, j)
          PROVE  Roles!(q)'
      <3>1. /\ handler'[p].pc = "loading" /\ handler'[p].job = j
            /\ handler'[p].order = jobs[j].data
        BY <2>4 DEF TakeAssignment, Start
      <3>2. jobs'[j].data = jobs[j].data /\ p \notin Api
        BY <2>4, DispatchAssumption DEF TakeAssignment, TakeJob, JobRecords, QueueTypeOK
      <3>3. QED  BY <1>3, <3>1, <3>2 DEF At
    <2>5. ASSUME NEW pc \in {"choosing", "upserting", "occupying", "assigning", "done"},
                 handler[p].pc \in {"loading", "choosing", "upserting", "occupying",
                                    "assigning"},
                 handler'[p].pc = pc, handler'[p].order = handler[p].order,
                 handler'[p].job = handler[p].job,
                 pc = "assigning" => call'[p].pc # "idle" /\ call'[p].next = "RIDER_ASSIGNED"
          PROVE  Roles!(q)'
      <3>1. "assign" \in Requests \/ p \in DeliveryWorkers
        BY <1>0, <1>3, <2>5, DispatchAssumption
      <3>2. p \in DeliveryWorkers => jobs'[handler[p].job].data = handler[p].order
        BY <1>0, <1>3, <2>5, OwnJobData
      <3>3. QED  BY <1>3, <2>5, <3>1, <3>2, DispatchAssumption DEF At
    <2>6. CASE LoadReadyOrder(p) \/ UpsertDelivery(p)
      <3>1. \E pc \in {"choosing", "occupying"} : Proceed(p, pc)
        BY <2>6 DEF LoadReadyOrder, UpsertDelivery
      <3>2. handler[p].pc \in {"loading", "upserting"}
        BY <2>6 DEF LoadReadyOrder, UpsertDelivery, At
      <3>3. QED  BY <2>5, <3>1, <3>2 DEF Proceed, Handlers
    <2>7. ASSUME NEW r \in Riders, ChooseRider(p, r)
          PROVE  Roles!(q)'
      BY <2>5, <2>7 DEF ChooseRider, At, Handlers
    <2>8. CASE OccupyRider(p)
      BY <2>5, <2>8 DEF OccupyRider, Proceed, Invoke, NewCall, At, Handlers
    <2>9. CASE FinishAssignment(p)
      <3>1. CASE p \in Api
        BY <2>1, <2>9, <3>1 DEF FinishAssignment, Stop
      <3>2. CASE p \notin Api
        BY <2>5, <2>9, <3>2 DEF FinishAssignment, Proceed, At, Handlers
      <3>3. QED  BY <3>1, <3>2
    <2>10. ASSUME handler[p].pc \in {"pickingUp", "leaving", "delivering", "freeing"},
                  handler'[p].pc \in {"answering", "freeing"},
                  handler'[p].pc = "answering" => call'[p].pc # "idle" /\ call'[p].next \in
                     {"PREPARING", "PICKED_UP", "OUT_FOR_DELIVERY", "DELIVERED"}
           PROVE  Roles!(q)'
      BY <1>0, <1>3, <2>10 DEF At
    <2>11. CASE PickUp(p) \/ LeaveForDelivery(p) \/ FreeRider(p)
      BY <2>10, <2>11 DEF PickUp, LeaveForDelivery, FreeRider, Proceed, Invoke, NewCall,
                          At, Handlers
    <2>12. CASE Deliver(p)
      BY <2>10, <2>12 DEF Deliver, Proceed, At, Handlers
    <2>13. CASE ClientStep(p)
      <3>1. p \in Api /\ p \notin DeliveryWorkers
        BY <2>13, DispatchAssumption
           DEF ClientStep, RequestPreparing, RequestReady, RequestAssignment,
               RequestRiderStep, RiderRequest
      <3>2. ASSUME NEW o \in Orders, RequestPreparing(p, o) \/ RequestReady(p, o)
            PROVE  Roles!(q)'
        BY <1>3, <3>1, <3>2 DEF RequestPreparing, RequestReady, Start, Invoke, NewCall, At
      <3>3. ASSUME NEW o \in Orders, NEW r, RequestAssignment(p, o, r)
            PROVE  Roles!(q)'
        BY <1>3, <3>1, <3>3 DEF RequestAssignment, AcceptRequest, Start, At
      <3>4. ASSUME NEW o \in Orders, NEW r \in Riders, RequestRiderStep(p, o, r)
            PROVE  Roles!(q)'
        <4>1. handler'[p].pc \in {"accepting", "pickingUp", "leaving", "delivering"}
          BY <3>4 DEF RequestRiderStep, RiderRequest, Start
        <4>2. QED  BY <1>3, <3>1, <4>1 DEF At
      <3>5. QED  BY <2>13, <3>2, <3>3, <3>4 DEF ClientStep
    <2>14. QED
      BY <2>2, <2>3, <2>4, <2>6, <2>7, <2>8, <2>9, <2>11, <2>12, <2>13, StepCases
  <1>4. QED  BY <1>2, <1>3

-----------------------------------------------------------------------------
(* One assigner at a time. *)

\* Everything that the steps below rest on.
AssignmentState == DispatchInv /\ AssignmentInv /\ SerialDispatch

\* A worker that is at work has a job for its order.
LEMMA WorkersHaveJobs ==
  ASSUME DispatchInv, Roles, NEW w \in DeliveryWorkers, handler[w].pc # "idle"
  PROVE  /\ w \in Procs /\ w \notin Api
         /\ handler[w].job \in Jobs /\ JobFor(handler[w].job, handler[w].order)
  <1>1. w \in Procs /\ w \notin Api
    BY DispatchAssumption
  <1>2. QED  BY <1>1 DEF DispatchInv, JobsOK, Roles, JobFor

\* Two workers are never at the same order.
LEMMA SoleWorker ==
  ASSUME AssignmentState, NEW v \in DeliveryWorkers, NEW w \in DeliveryWorkers,
         handler[v].pc # "idle", handler[w].pc # "idle",
         handler[v].order = handler[w].order
  PROVE  v = w
  <1>1. /\ v \in Procs /\ handler[v].job \in Jobs /\ handler[w].job \in Jobs
        /\ JobFor(handler[v].job, handler[v].order)
        /\ JobFor(handler[w].job, handler[v].order)
    BY WorkersHaveJobs DEF AssignmentState, AssignmentInv
  <1>2. handler[v].order \in Orders
    BY <1>1 DEF AssignmentState, DispatchInv, HandlersOK
  <1>3. handler[v].job = handler[w].job
    BY <1>1, <1>2 DEF AssignmentState, AssignmentInv, OneJob
  <1>4. QED  BY <1>3 DEF AssignmentState, DispatchInv, JobsOK

\* Who is where.
LEMMA WhoIsWhere ==
  ASSUME AssignmentState, NEW p \in Procs
  PROVE  /\ AssigningAt(p) \/ handler[p].pc \in {"occupying", "assigning"} =>
              p \in DeliveryWorkers /\ handler[p].pc # "idle"
         /\ handler[p].pc \in {"answering", "readying", "accepting", "pickingUp",
                               "leaving", "delivering", "freeing"} => p \in Api
  BY DispatchAssumption DEF AssignmentState, AssignmentInv, Roles,
                            SerialDispatch, AssigningAt, At

\* The write of a caller, and what the caller relies on.
LEMMA WritesAreAllowed ==
  ASSUME AssignmentState, NEW p \in Procs, CallStep(p), WriteStatus(p)
  PROVE  /\ Allowed(status[handler[p].order], call[p].next)
         /\ \/ /\ p \in DeliveryWorkers /\ handler[p].pc = "assigning"
               /\ status[handler[p].order] = "READY" /\ call[p].next = "RIDER_ASSIGNED"
            \/ /\ p \in Api /\ status[handler[p].order] # "READY"
               /\ call[p].next # "RIDER_ASSIGNED"
  <1> USE DEF AssignmentState, AssignmentInv
  <1>1. /\ call[p].order = handler[p].order /\ call[p].pc = "write"
        /\ handler[p].pc \in {"answering", "readying", "assigning"}
    BY WhatAWriteDoes
  <1>2. Allowed(status[handler[p].order], call[p].next)
    BY <1>1 DEF HandlerRelies
  <1>3. CASE handler[p].pc = "assigning"
    BY <1>1, <1>2, <1>3, WhoIsWhere DEF HandlerRelies, AssigningAt, Roles, At
  <1>4. CASE handler[p].pc \in {"answering", "readying"}
    <2>1. call[p].next \in {"PREPARING", "READY", "PICKED_UP", "OUT_FOR_DELIVERY",
                            "DELIVERED"}
      BY <1>4 DEF Roles, At
    <2>2. status[handler[p].order] # "READY"
      BY <1>2, <2>1 DEF Allowed, Transitions
    <2>3. QED  BY <1>2, <1>4, <2>1, <2>2, WhoIsWhere
  <1>5. QED  BY <1>1, <1>3, <1>4

\* What another process relies on stays true.
LEMMA OthersRely ==
  ASSUME AssignmentState, NEW p \in Procs, StepOf(p), NEW q \in Procs, q # p
  PROVE  HandlerRelies(q)'
  <1> USE DEF AssignmentState, AssignmentInv
  <1>0. handler'[q] = handler[q] /\ call'[q] = call[q] /\ HandlerRelies(q)
    BY OthersStay DEF DispatchInv, StepOf
  <1>1. call[q].pc # "idle" => call[q].order = handler[q].order
    BY DEF DispatchInv, HandlersOK
  <1>2. ASSUME \/ AssigningAt(q) \/ ReadyingAt(q) \/ call[q].pc = "write"
               \/ handler[q].pc \in {"occupying", "assigning"}
        PROVE  handler[q].order \in Orders /\ handler[q].pc # "idle"
    BY <1>2 DEF DispatchInv, HandlersOK, AssigningAt, ReadyingAt, At
  <1>3. ASSUME handler[q].order \in Orders, status'[handler[q].order] # status[handler[q].order],
               AssigningAt(q) \/ ReadyingAt(q) \/ call[q].pc = "write"
        PROVE  FALSE
    <2>1. CallStep(p) /\ WriteStatus(p) /\ handler[p].order = handler[q].order
      BY <1>3, WhoMovesOrders, WhatAWriteDoes
    <2>2. q \in Api \/ (q \in DeliveryWorkers /\ AssigningAt(q))
      <3>1. call[q].pc = "write" => handler[q].pc \in {"answering", "readying", "assigning"}
        BY DEF DispatchInv, HandlersOK
      <3>2. QED  BY <1>3, <3>1, WhoIsWhere DEF AssigningAt, ReadyingAt, At
    <2>3. CASE p \in DeliveryWorkers
      <3>1. handler[p].pc = "assigning" /\ status[handler[q].order] = "READY"
        BY <2>1, <2>3, WritesAreAllowed, DispatchAssumption
      <3>2. q \notin DeliveryWorkers
        BY <1>2, <1>3, <2>1, <2>3, <3>1, SoleWorker
      <3>3. q \in Api
        BY <2>2, <3>2
      <3>4. JobFor(handler[p].job, handler[q].order) /\ handler[p].job \in Jobs
        BY <2>1, <2>3, <3>1, WorkersHaveJobs
      <3>5. ~ReadyingAt(q)
        BY <1>0, <3>4 DEF HandlerRelies
      <3>6. call[q].pc = "write"
        BY <1>3, <3>3, <3>5, WhoIsWhere, DispatchAssumption
      <3>7. /\ Allowed("READY", call[q].next)
            /\ handler[q].pc \in {"answering", "readying"}
        BY <1>0, <1>1, <3>1, <3>3, <3>6, WhoIsWhere, DispatchAssumption
           DEF HandlerRelies, DispatchInv, HandlersOK
      <3>8. QED  BY <3>7 DEF Allowed, Transitions, Roles, At
    <2>4. CASE p \in Api
      <3>1. q \notin Api
        BY <2>4 DEF SerialDispatch
      <3>2. status[handler[q].order] = "READY"
        BY <1>0, <2>2, <3>1 DEF HandlerRelies
      <3>3. QED  BY <2>1, <2>4, <3>2, WritesAreAllowed, DispatchAssumption
    <2>5. QED  BY <2>3, <2>4, DispatchAssumption
  <1>4. ASSUME handler[q].pc \in {"occupying", "assigning"},
               delivery'[handler[q].order].rider # delivery[handler[q].order].rider
        PROVE  FALSE
    <2>1. q \in DeliveryWorkers /\ handler[q].order \in Orders /\ handler[q].pc # "idle"
      BY <1>2, <1>4, WhoIsWhere
    <2>2. delivery' # delivery
      BY <1>4
    <2>3. UpsertDelivery(p) /\ handler[p].order = handler[q].order
      <3>1. UpsertDelivery(p) \/ AcceptDelivery(p) \/ PickUp(p) \/ LeaveForDelivery(p)
            \/ Deliver(p)
        BY <2>2, StepCases
           DEF CallStep, EnqueueAssignment, AnswerMove, TakeAssignment, LoadReadyOrder,
               RefuseAssignment, ChooseRider, NoAvailableRider, OccupyRider,
               FinishAssignment, FinishJob, FreeRider, HandlerThrows, ClientStep,
               RequestPreparing, RequestReady, RequestAssignment, RequestRiderStep,
               RiderRequest, FailInCall, FailInHandler, deliveryVars
      <3>2. QED  BY <1>4, <2>1, <3>1, RowWritten
    <2>4. p \in DeliveryWorkers /\ handler[p].pc # "idle"
      BY <2>3, WhoIsWhere DEF UpsertDelivery, AssigningAt, At
    <2>5. QED  BY <2>1, <2>3, <2>4, SoleWorker
  <1>5. ASSUME ReadyingAt(q), NEW j \in Jobs, NEW o, o = handler[q].order, JobFor(j, o)'
        PROVE  FALSE
    <2>1. ~JobFor(j, o)
      BY <1>0, <1>5 DEF HandlerRelies
    <2>2. ReadyingAt(p)
      BY <1>5, <2>1, WhoAddsJobs
    <2>3. p \in Api /\ q \in Api
      BY <1>5, <2>2, WhoIsWhere DEF ReadyingAt, At
    <2>4. QED  BY <2>3 DEF SerialDispatch
  <1>6. /\ AssigningAt(q)' <=> AssigningAt(q)
        /\ ReadyingAt(q)' <=> ReadyingAt(q)
    BY <1>0 DEF AssigningAt, ReadyingAt, At
  <1>7. AssigningAt(q)' => status'[handler'[q].order] = "READY"
    BY <1>0, <1>2, <1>3, <1>6 DEF HandlerRelies
  <1>8. handler'[q].pc \in {"occupying", "assigning"} =>
          delivery'[handler'[q].order].rider = handler'[q].rider
    BY <1>0, <1>4 DEF HandlerRelies
  <1>9. call'[q].pc = "write" => Allowed(status'[call'[q].order], call'[q].next)
    BY <1>0, <1>1, <1>2, <1>3 DEF HandlerRelies
  <1>10. ReadyingAt(q)' => \A j \in Jobs :
            ~(jobs'[j].state # "free" /\ jobs'[j].data = handler'[q].order)
    BY <1>0, <1>5, <1>6 DEF JobFor
  <1>11. ReadyingAt(q)' => status'[handler'[q].order] = "READY"
    BY <1>0, <1>2, <1>3, <1>6 DEF HandlerRelies
  <1>12. QED  BY <1>0, <1>7, <1>8, <1>9, <1>10, <1>11 DEF HandlerRelies, JobFor

\* Where its own step takes a process.
LEMMA WhereAStepLeads ==
  ASSUME DispatchInv, NEW p \in Procs, StepOf(p)
  PROVE  \/ (CallStep(p) \/ FailInCall(p)) /\ handler'[p] = handler[p]
         \/ handler'[p] = IdleHandler /\ call'[p].pc = "idle"
         \/ /\ handler'[p].pc \in {"loading", "accepting", "pickingUp", "leaving",
                                   "delivering", "freeing", "done"}
            /\ call'[p].pc = "idle"
         \/ handler'[p].pc \in {"answering", "readying"} /\ call'[p].pc = "read"
         \/ /\ handler'[p].order = handler[p].order
            /\ \/ LoadReadyOrder(p) /\ handler'[p].pc = "choosing" /\ call'[p].pc = "idle"
               \/ /\ handler[p].pc = "choosing" /\ handler'[p].pc = "upserting"
                  /\ call'[p].pc = "idle"
               \/ /\ UpsertDelivery(p) /\ handler'[p].pc = "occupying"
                  /\ handler'[p].rider = handler[p].rider /\ call'[p].pc = "idle"
               \/ /\ OccupyRider(p) /\ handler'[p].pc = "assigning"
                  /\ handler'[p].rider = handler[p].rider /\ call'[p].pc = "read"
  <1> USE DEF DispatchInv, DispatchTypeOK, LifecycleTypeOK, Handlers, Calls
  <1>0. handler[p].pc \notin {"answering", "readying", "assigning"} => call[p].pc = "idle"
    BY DEF HandlersOK
  <1>1. CASE CallStep(p) \/ FailInCall(p)
    BY <1>1 DEF CallStep, FailInCall
  <1>2. CASE \/ (\E j \in Jobs : EnqueueAssignment(p, j)) \/ AnswerMove(p)
             \/ RefuseAssignment(p) \/ NoAvailableRider(p) \/ FinishJob(p)
             \/ AcceptDelivery(p) \/ HandlerThrows(p) \/ FailInHandler(p)
    <2>1. handler'[p] = IdleHandler
      BY <1>2 DEF EnqueueAssignment, AnswerMove, RefuseAssignment, NoAvailableRider,
                  FinishJob, AcceptDelivery, HandlerThrows, FailInHandler, Unwind, Stop
    <2>2. call'[p].pc = "idle"
      BY <1>0, <1>2 DEF EnqueueAssignment, AnswerMove, RefuseAssignment, NoAvailableRider,
         FinishJob, AcceptDelivery, HandlerThrows, FailInHandler, Return, IdleCall, At,
         lifecycleVars
    <2>3. QED  BY <2>1, <2>2
  <1>3. ASSUME NEW j \in Jobs, TakeAssignment(p, j)
        PROVE  handler'[p].pc = "loading" /\ call'[p].pc = "idle"
    BY <1>0, <1>3 DEF TakeAssignment, Start, At, lifecycleVars
  <1>4. CASE LoadReadyOrder(p)
    BY <1>0, <1>4 DEF LoadReadyOrder, Proceed, At, lifecycleVars
  <1>5. ASSUME NEW r \in Riders, ChooseRider(p, r)
        PROVE  /\ handler[p].pc = "choosing" /\ handler'[p].pc = "upserting"
               /\ handler'[p].order = handler[p].order /\ call'[p].pc = "idle"
    BY <1>0, <1>5 DEF ChooseRider, At, lifecycleVars
  <1>6. CASE UpsertDelivery(p)
    BY <1>0, <1>6 DEF UpsertDelivery, Proceed, At, lifecycleVars
  <1>7. CASE OccupyRider(p)
    BY <1>7 DEF OccupyRider, Proceed, Invoke, NewCall
  <1>8. CASE FinishAssignment(p)
    <2>1. call'[p].pc = "idle"
      BY <1>8 DEF FinishAssignment, Return, IdleCall
    <2>2. handler'[p] = IdleHandler \/ handler'[p].pc = "done"
      BY <1>8 DEF FinishAssignment, Stop, Proceed
    <2>3. QED  BY <2>1, <2>2
  <1>9. CASE PickUp(p) \/ LeaveForDelivery(p) \/ FreeRider(p)
    BY <1>9 DEF PickUp, LeaveForDelivery, FreeRider, Proceed, Invoke, NewCall
  <1>10. CASE Deliver(p)
    BY <1>0, <1>10 DEF Deliver, Proceed, At, lifecycleVars
  <1>11. CASE ClientStep(p)
    <2>1. ASSUME NEW o \in Orders, RequestPreparing(p, o) \/ RequestReady(p, o)
          PROVE  handler'[p].pc \in {"answering", "readying"} /\ call'[p].pc = "read"
      BY <2>1 DEF RequestPreparing, RequestReady, Start, Invoke, NewCall
    <2>2. ASSUME NEW o \in Orders, NEW r,
                 RequestAssignment(p, o, r) \/ RequestRiderStep(p, o, r)
          PROVE  /\ handler'[p].pc \in {"loading", "accepting", "pickingUp", "leaving",
                                        "delivering"}
                 /\ call'[p].pc = "idle"
      BY <1>0, <2>2 DEF RequestAssignment, RequestRiderStep, RiderRequest, Start, At,
                        lifecycleVars
    <2>3. QED  BY <1>11, <2>1, <2>2 DEF ClientStep
  <1>12. QED
    BY <1>1, <1>2, <1>3, <1>4, <1>5, <1>6, <1>7, <1>8, <1>9, <1>10, <1>11, StepCases

\* What a process relies on itself after its own step.
LEMMA OwnRelies ==
  ASSUME AssignmentState, NEW p \in Procs, StepOf(p)
  PROVE  HandlerRelies(p)'
  <1> USE DEF AssignmentState, AssignmentInv
  <1> DEFINE o == handler[p].order
  <1>0. HandlerRelies(p)
    OBVIOUS
  <1>1. CASE handler'[p] = IdleHandler /\ call'[p].pc = "idle"
    BY <1>1 DEF HandlerRelies, AssigningAt, ReadyingAt, At, IdleHandler
  <1>2. CASE /\ handler'[p].pc \in {"loading", "accepting", "pickingUp", "leaving",
                                    "delivering", "freeing", "done"}
             /\ call'[p].pc = "idle"
    BY <1>2 DEF HandlerRelies, AssigningAt, ReadyingAt, At
  <1>3. CASE handler'[p].pc \in {"answering", "readying"} /\ call'[p].pc = "read"
    BY <1>3 DEF HandlerRelies, AssigningAt, ReadyingAt, At
  <1>4. CASE /\ LoadReadyOrder(p) /\ handler'[p].pc = "choosing" /\ call'[p].pc = "idle"
             /\ handler'[p].order = handler[p].order
    BY <1>4 DEF HandlerRelies, AssigningAt, ReadyingAt, At, LoadReadyOrder, lifecycleVars
  <1>5. CASE /\ handler[p].pc \in {"choosing", "upserting", "occupying"}
             /\ handler'[p].pc \in {"upserting", "occupying", "assigning"}
             /\ call'[p].pc \in {"idle", "read"}
             /\ handler'[p].order = handler[p].order
             /\ handler'[p].pc \in {"occupying", "assigning"} =>
                  /\ delivery'[handler[p].order].rider = handler[p].rider
                  /\ handler'[p].rider = handler[p].rider
             /\ status'[handler[p].order] = status[handler[p].order]
    BY <1>0, <1>5 DEF HandlerRelies, AssigningAt, ReadyingAt, At
  <1>6. CASE handler[p].pc = "choosing" /\ handler'[p].pc = "upserting"
             /\ call'[p].pc = "idle" /\ handler'[p].order = handler[p].order
    <2>1. ~WriteStatus(p)
      BY <1>6 DEF WriteStatus, DispatchInv, HandlersOK
    <2>2. QED  BY <1>5, <1>6, <2>1, WhoMovesOrders
  <1>7. CASE UpsertDelivery(p) /\ handler'[p].pc = "occupying"
             /\ handler'[p].order = handler[p].order
             /\ handler'[p].rider = handler[p].rider /\ call'[p].pc = "idle"
    <2>1. status' = status /\ handler[p].pc = "upserting"
      BY <1>7 DEF UpsertDelivery, At, lifecycleVars
    <2>2. delivery'[handler[p].order].rider = handler[p].rider
      BY <1>7, RowWritten DEF UpsertDelivery, AcceptDelivery, PickUp, LeaveForDelivery,
                              Deliver, At
    <2>3. QED  BY <1>5, <1>7, <2>1, <2>2
  <1>8. CASE OccupyRider(p) /\ handler'[p].pc = "assigning"
             /\ handler'[p].order = handler[p].order
             /\ handler'[p].rider = handler[p].rider /\ call'[p].pc = "read"
    <2>1. status' = status /\ handler[p].pc = "occupying" /\ delivery' = delivery
      BY <1>8 DEF OccupyRider, Invoke, At
    <2>2. QED  BY <1>0, <1>5, <1>8, <2>1 DEF HandlerRelies
  <1>9. CASE (CallStep(p) \/ FailInCall(p)) /\ handler'[p] = handler[p]
    <2>1. UNCHANGED <<delivery, jobs>> /\ call[p].pc # "idle"
          /\ call[p].order = handler[p].order /\ handler[p].order \in Orders
      BY <1>9 DEF CallStep, FailInCall, queueVars, deliveryVars, ReadOrder, RefuseMove,
                  WriteStatus, Announce, LoseCall, DispatchInv, HandlersOK
    <2>2. CASE WriteStatus(p) /\ CallStep(p)
      <3>1. /\ call'[p].pc = "announce" /\ status'[o] = call[p].next
            /\ Allowed(status[o], call[p].next)
        BY <2>2, WhatAWriteDoes, WritesAreAllowed
      <3>2. ASSUME handler[p].pc = "readying"
            PROVE  /\ \A j \in Jobs : ~JobFor(j, o)
                   /\ status'[o] = "READY"
        <4>1. call[p].next = "READY"
          BY <3>2 DEF Roles, At
        <4>2. status[o] = "PREPARING"
          BY <3>1, <4>1 DEF Allowed, Transitions
        <4>3. QED  BY <2>1, <3>1, <4>1, <4>2 DEF RowsKnown
      <3>3. handler'[p] = handler[p] /\ jobs' = jobs
        BY <1>9, <2>1
      <3>4. ~AssigningAt(p)' /\ call'[p].pc # "write"
        BY <3>1, <3>3, <2>2, WhatAWriteDoes DEF AssigningAt, At
      <3>5. handler'[p].pc \in {"occupying", "assigning"} =>
              delivery'[handler'[p].order].rider = handler'[p].rider
        BY <1>0, <2>1, <3>3 DEF HandlerRelies
      <3>6. ReadyingAt(p)' => /\ \A j \in Jobs : ~(jobs'[j].state # "free"
                                                   /\ jobs'[j].data = handler'[p].order)
                              /\ status'[handler'[p].order] = "READY"
        BY <3>2, <3>3 DEF ReadyingAt, At, JobFor
      <3>7. QED  BY <3>4, <3>5, <3>6 DEF HandlerRelies, JobFor
    <2>3. CASE status' = status
      <3>1. CASE ReadOrder(p)
        <4>1. /\ call'[p].pc = "write" /\ call[p].pc = "read" /\ Allowed(status[o], call[p].next)
              /\ call'[p].next = call[p].next /\ call'[p].order = o
          BY <2>1, <3>1 DEF ReadOrder, DispatchInv, DispatchTypeOK, LifecycleTypeOK, Calls
        <4>2. QED
          BY <1>0, <1>9, <2>1, <2>3, <4>1 DEF HandlerRelies, AssigningAt, ReadyingAt, At
      <3>2. CASE RefuseMove(p) \/ LoseCall(p)
        <4>1. call'[p].pc = "threw"
          BY <3>2 DEF RefuseMove, LoseCall, DispatchInv, DispatchTypeOK, LifecycleTypeOK, Calls
        <4>2. QED
          BY <1>0, <1>9, <2>1, <2>3, <4>1 DEF HandlerRelies, AssigningAt, ReadyingAt, At
      <3>3. CASE Announce(p)
        <4>1. call'[p].pc = "returned" /\ call[p].pc = "announce"
          BY <3>3 DEF Announce, DispatchInv, DispatchTypeOK, LifecycleTypeOK, Calls
        <4>2. QED
          BY <1>0, <1>9, <2>1, <2>3, <4>1
             DEF HandlerRelies, AssigningAt, ReadyingAt, At, JobFor
      <3>4. CASE WriteStatus(p) /\ ~CallStep(p)
        BY <1>9, <3>4 DEF FailInCall, LoseCall, WriteStatus, DispatchInv, DispatchTypeOK,
                          LifecycleTypeOK, Calls
      <3>5. QED
        BY <1>9, <2>2, <3>1, <3>2, <3>3, <3>4 DEF CallStep, FailInCall
    <2>4. QED  BY <2>2, <2>3, WhoMovesOrders
  <1>10. QED
    BY <1>1, <1>2, <1>3, <1>4, <1>6, <1>7, <1>8, <1>9, WhereAStepLeads DEF AssignmentState

\* An order has one job at most: markReady adds one to an order that has none.
LEMMA OneJobStep ==
  ASSUME AssignmentState, NEW p \in Procs, StepOf(p)
  PROVE  OneJob'
  <1> USE DEF AssignmentState, AssignmentInv
  <1>1. ASSUME NEW o \in Orders, NEW i \in Jobs, NEW j \in Jobs,
               JobFor(i, o)', JobFor(j, o)', ~JobFor(i, o), i # j
        PROVE  FALSE
    <2>1. /\ ReadyingAt(p) /\ handler[p].order = o
          /\ \A k \in Jobs : k # i => jobs'[k] = jobs[k]
      BY <1>1, WhoAddsJobs
    <2>2. JobFor(j, o)
      BY <1>1, <2>1 DEF JobFor
    <2>3. QED  BY <2>1, <2>2 DEF HandlerRelies
  <1>2. ASSUME NEW o \in Orders, NEW i \in Jobs, NEW j \in Jobs,
               JobFor(i, o)', JobFor(j, o)'
        PROVE  i = j
    BY <1>1, <1>2 DEF OneJob
  <1>3. QED  BY <1>2 DEF OneJob

\* The rider of a delivery row changes under UpsertDelivery only.
LEMMA WhoNamesTheRider ==
  ASSUME DispatchInv, NEW p \in Procs, StepOf(p), NEW o \in Orders,
         delivery'[o].rider # delivery[o].rider
  PROVE  UpsertDelivery(p) /\ handler[p].order = o
  <1>1. delivery' # delivery
    OBVIOUS
  <1>2. UpsertDelivery(p) \/ AcceptDelivery(p) \/ PickUp(p) \/ LeaveForDelivery(p)
        \/ Deliver(p)
    BY <1>1, StepCases
       DEF CallStep, EnqueueAssignment, AnswerMove, TakeAssignment, LoadReadyOrder,
           RefuseAssignment, ChooseRider, NoAvailableRider, OccupyRider,
           FinishAssignment, FinishJob, FreeRider, HandlerThrows, ClientStep,
           RequestPreparing, RequestReady, RequestAssignment, RequestRiderStep,
           RiderRequest, FailInCall, FailInHandler, deliveryVars
  <1>3. QED  BY <1>2, RowWritten

\* What the two rows of an order have to do with each other and with its job.
LEMMA RowsKnownStep ==
  ASSUME AssignmentState, NEW p \in Procs, StepOf(p), NEW o \in Orders
  PROVE  RowsKnown(o)'
  <1> USE DEF AssignmentState, AssignmentInv
  <1>0. RowsKnown(o) /\ HandlerRelies(p)
    OBVIOUS
  <1>1. CASE CallStep(p) /\ WriteStatus(p) /\ handler[p].order = o
    <2>1. /\ UNCHANGED <<handler, delivery, jobs>>
          /\ status'[o] = call[p].next
          /\ visited'[o] = visited[o] \cup {call[p].next}
          /\ orderRider'[o] = IF At(p, "assigning") THEN handler[p].rider ELSE orderRider[o]
          /\ handler[p].pc \in {"answering", "readying", "assigning"}
      BY <1>1, WhatAWriteDoes
    <2>2. Allowed(status[o], call[p].next)
      BY <1>1, WritesAreAllowed
    <2>3. call[p].next # "ACCEPTED"
      BY <2>1 DEF Roles, At
    <2>4. status'[o] \in {"ACCEPTED", "PREPARING"} => \A j \in Jobs : ~JobFor(j, o)
      BY <1>0, <2>1, <2>2, <2>3 DEF Allowed, Transitions, RowsKnown
    <2>5. CASE /\ handler[p].pc = "assigning" /\ call[p].next = "RIDER_ASSIGNED"
      BY <1>0, <1>1, <2>1, <2>4, <2>5 DEF HandlerRelies, RowsKnown, JobFor, At
    <2>6. CASE p \in Api /\ call[p].next # "RIDER_ASSIGNED"
      <3>1. handler[p].pc # "assigning"
        BY <2>6 DEF Roles, SerialDispatch
      <3>2. orderRider'[o] = orderRider[o]
        BY <2>1, <3>1 DEF At
      <3>3. "RIDER_ASSIGNED" \in visited'[o] => "RIDER_ASSIGNED" \in visited[o]
        BY <2>1, <2>6
      <3>4. "RIDER_ASSIGNED" \in visited[o] =>
              call[p].next \in {"RIDER_ASSIGNED", "PICKED_UP", "OUT_FOR_DELIVERY", "DELIVERED"}
        BY <1>0, <2>2 DEF RowsKnown, Allowed, Transitions
      <3>5. QED
        BY <1>0, <2>1, <2>4, <3>2, <3>3, <3>4 DEF RowsKnown, JobFor
    <2>7. QED  BY <1>1, <2>5, <2>6, WritesAreAllowed
  <1>2. CASE /\ status'[o] = status[o] /\ visited'[o] = visited[o]
             /\ orderRider'[o] = orderRider[o]
    <2>1. ASSUME status[o] \in {"ACCEPTED", "PREPARING"}, NEW j \in Jobs, JobFor(j, o)'
          PROVE  FALSE
      <3>1. ~JobFor(j, o)
        BY <1>0, <2>1 DEF RowsKnown
      <3>2. ReadyingAt(p) /\ handler[p].order = o
        BY <2>1, <3>1, WhoAddsJobs
      <3>3. QED  BY <1>0, <2>1, <3>2 DEF HandlerRelies
    <2>2. ASSUME "RIDER_ASSIGNED" \in visited[o], delivery'[o].rider # delivery[o].rider
          PROVE  FALSE
      <3>1. UpsertDelivery(p) /\ handler[p].order = o
        BY <2>2, WhoNamesTheRider
      <3>2. status[o] = "READY"
        BY <1>0, <3>1 DEF UpsertDelivery, At, HandlerRelies, AssigningAt
      <3>3. QED  BY <1>0, <2>2, <3>2 DEF RowsKnown
    <2>3. QED  BY <1>0, <1>2, <2>1, <2>2 DEF RowsKnown
  <1>3. QED  BY <1>1, <1>2, WhoMovesOrders, WhatAWriteDoes

\* The crash leaves no handler, and every job with its data.
LEMMA CrashKeepsAssignments ==
  ASSUME AssignmentState, Crash
  PROVE  AssignmentInv'
  <1> USE DEF AssignmentState, AssignmentInv
  <1>1. \A p \in Procs : handler'[p] = IdleHandler /\ call'[p] = IdleCall
    BY DEF Crash, LoseAllCalls
  <1>2. /\ UNCHANGED <<status, visited, orderRider, delivery>>
    BY DEF Crash, LoseAllCalls, deliveryVars
  <1>3. \A j \in Jobs : jobs'[j].state # "free" =>
           jobs[j].state # "free" /\ jobs'[j].data = jobs[j].data
    BY DEF Crash, RedeliverActiveJobs, DispatchInv, DispatchTypeOK, QueueTypeOK, JobRecords
  <1>4. Roles' /\ (\A p \in Procs : HandlerRelies(p))'
    BY <1>1 DEF Roles, HandlerRelies, AssigningAt, ReadyingAt, At, IdleHandler, IdleCall
  <1>5. \A o \in Orders : \A j \in Jobs : JobFor(j, o)' => JobFor(j, o)
    BY <1>3 DEF JobFor
  <1>6. OneJob'
    BY <1>5 DEF OneJob
  <1>7. (\A o \in Orders : RowsKnown(o))'
    BY <1>2, <1>5 DEF RowsKnown
  <1>8. QED  BY <1>4, <1>6, <1>7

\* No order has a job at first.
LEMMA AssignmentInit == Init => AssignmentInv
  <1> SUFFICES ASSUME Init PROVE AssignmentInv
    OBVIOUS
  <1>1. \A p \in Procs : handler[p] = IdleHandler /\ call[p] = IdleCall
    BY DEF Init
  <1>2. \A j \in Jobs : jobs[j].state = "free"
    BY DEF Init, QueueInit, FreeJob
  <1>3. Roles /\ \A p \in Procs : HandlerRelies(p)
    BY <1>1 DEF Roles, HandlerRelies, AssigningAt, ReadyingAt, At, IdleHandler, IdleCall
  <1>4. OneJob
    BY <1>2 DEF OneJob, JobFor
  <1>5. \A o \in Orders : "RIDER_ASSIGNED" \notin visited[o]
    BY DEF Init
  <1>6. \A o \in Orders : RowsKnown(o)
    BY <1>2, <1>5 DEF RowsKnown, JobFor
  <1>7. QED  BY <1>3, <1>4, <1>6 DEF AssignmentInv

LEMMA AssignmentStep ==
  ASSUME AssignmentState, DispatchInv', [Next]_vars
  PROVE  AssignmentInv'
  <1> USE DEF AssignmentState
  <1>1. ASSUME NEW p \in Procs, StepOf(p)
        PROVE  AssignmentInv'
    <2>1. \A q \in Procs : HandlerRelies(q)'
      BY <1>1, OwnRelies, OthersRely
    <2>2. \A o \in Orders : RowsKnown(o)'
      BY <1>1, RowsKnownStep
    <2>3. Roles' /\ OneJob'
      BY <1>1, RolesStep, OneJobStep DEF AssignmentInv
    <2>4. QED  BY <2>1, <2>2, <2>3 DEF AssignmentInv
  <1>2. ASSUME UNCHANGED <<status, visited, call, jobs, orderRider, delivery, handler>>
        PROVE  AssignmentInv'
    BY <1>2 DEF AssignmentInv, Roles, OneJob, HandlerRelies, RowsKnown, AssigningAt,
                ReadyingAt, At, JobFor
  <1>3. ASSUME NEW r \in Riders, NEW value, SetAvailability(r, value)
        PROVE  AssignmentInv'
    BY <1>2, <1>3 DEF SetAvailability, lifecycleVars, queueVars
  <1>4. CASE UNCHANGED vars \/ PostDeadLetter
    BY <1>2, <1>4 DEF vars, PostDeadLetter, PostLetter, lifecycleVars, queueVars,
                      deliveryVars
  <1>5. QED
    BY <1>1, <1>3, <1>4, CrashKeepsAssignments DEF Next, StepOf

LEMMA AssignmentInvariant ==
  ASSUME SerialDispatch
  PROVE  Spec => [](DispatchInv /\ AssignmentInv)
  <1>1. DispatchInv /\ AssignmentInv /\ [Next]_vars => (DispatchInv /\ AssignmentInv)'
    BY DispatchStepInv, AssignmentStep DEF AssignmentState
  <1>2. QED  BY <1>1, DispatchInitInv, AssignmentInit, PTL DEF Spec

(***************************************************************************)
(* While the delivery job is the only assigner and requests come one at a  *)
(* time, the order and its delivery name the same rider, however many      *)
(* workers there are, whatever fails and however often the process dies.   *)
(***************************************************************************)
THEOREM OneAssignerRidersAgree ==
  ASSUME SerialDispatch
  PROVE  Spec => []RidersAgree
  <1>1. AssignmentInv => RidersAgree
    BY DEF AssignmentInv, RowsKnown, RidersAgree
  <1>2. QED  BY <1>1, AssignmentInvariant, PTL

-----------------------------------------------------------------------------
(* Nothing has failed yet: order and delivery move together. *)

NothingFailed == faults = 0 /\ crashes = 0

\* A rider's request has updated the delivery of o and is about to move o.
InHand(p, o) ==
    /\ handler[p].order = o
    /\ \/ At(p, "freeing")
       \/ /\ At(p, "answering") /\ call[p].pc \in {"read", "write"}
          /\ call[p].next = delivery[o].status

\* A delivery row is there only for an order that was READY and has no job
\* that waits; a picked-up order is level with it or about to be.
CalmRows(o) ==
    /\ status[o] \in {"ACCEPTED", "PREPARING"} => delivery[o].status = NoRow
    /\ \A j \in Jobs : jobs[j].state = "waiting" /\ jobs[j].data = o =>
          delivery[o].status = NoRow
    /\ "PICKED_UP" \in visited[o] =>
          \/ status[o] = delivery[o].status
          \/ Allowed(status[o], delivery[o].status) /\ \E p \in Api : InHand(p, o)

\* What a handler knows of the delivery row until it writes it itself.
CalmHandler(p) ==
    LET row == delivery[handler[p].order].status IN
    /\ handler[p].pc \in {"loading", "choosing", "upserting"} => row = NoRow
    /\ ReadyingAt(p) => row = NoRow
    /\ At(p, "assigning") => call[p].pc # "threw"
    /\ At(p, "accepting") => row = "ASSIGNED"
    /\ At(p, "pickingUp") => row = "ACCEPTED"
    /\ At(p, "leaving") => row = "PICKED_UP"
    /\ At(p, "delivering") => row = "OUT_FOR_DELIVERY"
    /\ At(p, "freeing") => row = "DELIVERED"
    /\ At(p, "answering") /\ call[p].next # "PREPARING" => row = call[p].next

CalmInv ==
    NothingFailed =>
        /\ \A o \in Orders : CalmRows(o)
        /\ \A p \in Procs : CalmHandler(p)

CalmState ==
    /\ AssignmentState
    /\ \A o \in Orders : CalmRows(o)
    /\ \A p \in Procs : CalmHandler(p)

\* Who writes the delivery row of an order, and what it found there.
LEMMA WhoWritesTheRow ==
  ASSUME CalmState, NEW p \in Procs, StepOf(p), NEW o \in Orders,
         delivery'[o] # delivery[o]
  PROVE  /\ handler[p].order = o /\ UNCHANGED <<status, visited, jobs>>
         /\ \/ /\ UpsertDelivery(p) /\ p \in DeliveryWorkers /\ handler[p].pc # "idle"
               /\ handler[p].pc = "upserting" /\ handler'[p].pc = "occupying"
               /\ status[o] = "READY" /\ delivery[o].status = NoRow
            \/ /\ p \in Api
               /\ \/ /\ AcceptDelivery(p) /\ delivery[o].status = "ASSIGNED"
                     /\ handler[p].pc = "accepting"
                  \/ /\ PickUp(p) /\ delivery[o].status = "ACCEPTED"
                     /\ handler[p].pc = "pickingUp" /\ delivery'[o].status = "PICKED_UP"
                  \/ /\ LeaveForDelivery(p) /\ delivery[o].status = "PICKED_UP"
                     /\ handler[p].pc = "leaving"
                     /\ delivery'[o].status = "OUT_FOR_DELIVERY"
                  \/ /\ Deliver(p) /\ delivery[o].status = "OUT_FOR_DELIVERY"
                     /\ handler[p].pc = "delivering" /\ delivery'[o].status = "DELIVERED"
  <1> USE DEF CalmState, AssignmentState
  <1>1. delivery' # delivery
    OBVIOUS
  <1>2. UpsertDelivery(p) \/ AcceptDelivery(p) \/ PickUp(p) \/ LeaveForDelivery(p)
        \/ Deliver(p)
    BY <1>1, StepCases
       DEF CallStep, EnqueueAssignment, AnswerMove, TakeAssignment, LoadReadyOrder,
           RefuseAssignment, ChooseRider, NoAvailableRider, OccupyRider,
           FinishAssignment, FinishJob, FreeRider, HandlerThrows, ClientStep,
           RequestPreparing, RequestReady, RequestAssignment, RequestRiderStep,
           RiderRequest, FailInCall, FailInHandler, deliveryVars
  <1>3. handler[p].order = o
    BY <1>2, RowWritten
  <1>4. UNCHANGED <<status, visited, jobs>>
    BY <1>2 DEF UpsertDelivery, AcceptDelivery, PickUp, LeaveForDelivery, Deliver,
                Invoke, lifecycleVars, queueVars
  <1>5. CASE UpsertDelivery(p)
    <2>1. handler[p].pc = "upserting" /\ handler'[p].pc = "occupying"
      BY <1>5 DEF UpsertDelivery, Proceed, At, DispatchInv, DispatchTypeOK, Handlers
    <2>2. p \in DeliveryWorkers /\ status[o] = "READY"
      BY <1>3, <2>1, WhoIsWhere DEF AssignmentInv, HandlerRelies, AssigningAt
    <2>3. QED  BY <1>3, <1>4, <1>5, <2>1, <2>2 DEF CalmHandler
  <1>6. CASE AcceptDelivery(p)
    BY <1>3, <1>4, <1>6, WhoIsWhere DEF AcceptDelivery, CalmHandler, At
  <1>7. CASE PickUp(p)
    <2>1. handler[p].pc = "pickingUp" /\ ~UpsertDelivery(p) /\ ~AcceptDelivery(p)
          /\ ~LeaveForDelivery(p) /\ ~Deliver(p)
      BY <1>7 DEF PickUp, UpsertDelivery, AcceptDelivery, LeaveForDelivery, Deliver, At
    <2>2. delivery'[o].status = "PICKED_UP"
      BY <1>3, <1>7, <2>1, RowWritten
    <2>3. QED  BY <1>3, <1>4, <1>7, <2>1, <2>2, WhoIsWhere DEF CalmHandler, At
  <1>8. CASE LeaveForDelivery(p)
    <2>1. handler[p].pc = "leaving" /\ ~UpsertDelivery(p) /\ ~AcceptDelivery(p)
          /\ ~PickUp(p) /\ ~Deliver(p)
      BY <1>8 DEF PickUp, UpsertDelivery, AcceptDelivery, LeaveForDelivery, Deliver, At
    <2>2. delivery'[o].status = "OUT_FOR_DELIVERY"
      BY <1>3, <1>8, <2>1, RowWritten
    <2>3. QED  BY <1>3, <1>4, <1>8, <2>1, <2>2, WhoIsWhere DEF CalmHandler, At
  <1>9. CASE Deliver(p)
    <2>1. handler[p].pc = "delivering" /\ ~UpsertDelivery(p) /\ ~AcceptDelivery(p)
          /\ ~PickUp(p) /\ ~LeaveForDelivery(p)
      BY <1>9 DEF PickUp, UpsertDelivery, AcceptDelivery, LeaveForDelivery, Deliver, At
    <2>2. delivery'[o].status = "DELIVERED"
      BY <1>3, <1>9, <2>1, RowWritten
    <2>3. QED  BY <1>3, <1>4, <1>9, <2>1, <2>2, WhoIsWhere DEF CalmHandler, At
  <1>10. QED  BY <1>2, <1>5, <1>6, <1>7, <1>8, <1>9

\* What another handler knows of the row stays true.
LEMMA OthersStayCalm ==
  ASSUME CalmState, NEW p \in Procs, StepOf(p), NEW q \in Procs, q # p
  PROVE  CalmHandler(q)'
  <1> USE DEF CalmState, AssignmentState
  <1>0. handler'[q] = handler[q] /\ call'[q] = call[q] /\ CalmHandler(q)
    BY OthersStay DEF DispatchInv, StepOf
  <1> DEFINE o == handler[q].order
             Knows == \/ handler[q].pc \in {"loading", "choosing", "upserting"}
                      \/ ReadyingAt(q)
                      \/ handler[q].pc \in {"accepting", "pickingUp", "leaving",
                                            "delivering", "freeing"}
                      \/ At(q, "answering") /\ call[q].next # "PREPARING"
  <1>1. ASSUME Knows, delivery'[o].status # delivery[o].status
        PROVE  FALSE
    <2>1. o \in Orders /\ handler[q].pc # "idle"
      BY <1>1 DEF DispatchInv, HandlersOK, ReadyingAt, At
    <2>2. CASE /\ p \in DeliveryWorkers /\ handler[p].pc # "idle"
               /\ handler[p].order = o /\ delivery[o].status = NoRow
      <3>1. q \notin DeliveryWorkers
        BY <2>1, <2>2, SoleWorker
      <3>2. JobFor(handler[p].job, o) /\ handler[p].job \in Jobs
        BY <2>2, WorkersHaveJobs DEF AssignmentInv
      <3>3. ~ReadyingAt(q)
        BY <3>2 DEF AssignmentInv, HandlerRelies
      <3>4. handler[q].pc \notin {"loading", "choosing", "upserting"}
        BY <3>1, DispatchAssumption DEF AssignmentInv, Roles, SerialDispatch
      <3>5. handler[q].pc \in {"accepting", "pickingUp", "leaving", "delivering", "freeing"} =>
              delivery[o].status # NoRow
        BY <1>0 DEF CalmHandler, At, NoRow
      <3>6. At(q, "answering") /\ call[q].next # "PREPARING" => delivery[o].status # NoRow
        BY <1>0 DEF CalmHandler, AssignmentInv, Roles, NoRow
      <3>7. QED  BY <1>1, <2>2, <3>3, <3>4, <3>5, <3>6
    <2>3. CASE /\ p \in Api /\ delivery[o].status # NoRow
      <3>1. q \notin Api
        BY <2>3 DEF SerialDispatch
      <3>2. handler[q].pc \in {"loading", "choosing", "upserting"} \/ ReadyingAt(q)
        BY <1>1, <3>1, WhoIsWhere DEF At
      <3>3. QED  BY <1>0, <2>3, <3>2 DEF CalmHandler
    <2>4. QED  BY <1>1, <2>1, <2>2, <2>3, WhoWritesTheRow DEF NoRow
  <1>2. ReadyingAt(q)' <=> ReadyingAt(q)
    BY <1>0 DEF ReadyingAt, At
  <1>3. handler[q].pc \in {"loading", "choosing", "upserting"} =>
          delivery'[handler'[q].order].status = NoRow
    BY <1>0, <1>1 DEF CalmHandler
  <1>4. ReadyingAt(q)' => delivery'[handler'[q].order].status = NoRow
    BY <1>0, <1>1, <1>2 DEF CalmHandler
  <1>5. handler[q].pc \in {"accepting", "pickingUp", "leaving", "delivering", "freeing"} =>
          delivery'[handler'[q].order].status = delivery[o].status
    BY <1>0, <1>1
  <1>6. At(q, "answering") /\ call[q].next # "PREPARING" =>
          delivery'[handler'[q].order].status = delivery[o].status
    BY <1>0, <1>1
  <1>7. QED  BY <1>0, <1>3, <1>4, <1>5, <1>6 DEF CalmHandler, At

\* What a handler knows of the row after its own step.
LEMMA OwnStaysCalm ==
  ASSUME CalmState, NEW p \in Procs, StepOf(p), ~FailInCall(p), ~FailInHandler(p)
  PROVE  CalmHandler(p)'
  <1> USE DEF CalmState, AssignmentState, AssignmentInv
  <1> DEFINE o == handler[p].order
  <1>0. CalmHandler(p) /\ HandlerRelies(p)
    OBVIOUS
  <1>1. ASSUME handler'[p].pc \in {"idle", "occupying", "done"}
        PROVE  CalmHandler(p)'
    BY <1>1 DEF CalmHandler, ReadyingAt, At
  <1>2. CASE CallStep(p)
    <2>1. /\ handler' = handler /\ delivery' = delivery
          /\ o \in Orders /\ call[p].order = o /\ call'[p].next = call[p].next
          /\ call[p].pc \in {"read", "write", "announce"}
          /\ handler[p].pc \in {"answering", "readying", "assigning"}
      BY <1>2 DEF CallStep, ReadOrder, RefuseMove, WriteStatus, Announce, DispatchInv,
                  DispatchTypeOK, LifecycleTypeOK, Calls, HandlersOK
    <2>2. CASE handler[p].pc = "answering"
      BY <1>0, <2>1, <2>2 DEF CalmHandler, ReadyingAt, At
    <2>3. CASE handler[p].pc = "assigning"
      <3>1. Allowed(status[o], call[p].next) \/ call[p].pc = "announce"
        BY <1>0, <2>1, <2>3 DEF HandlerRelies, AssigningAt, At, Roles, Allowed, Transitions
      <3>2. ~RefuseMove(p)
        BY <2>1, <3>1 DEF RefuseMove
      <3>3. call'[p].pc # "threw"
        BY <1>2, <3>2 DEF CallStep, ReadOrder, WriteStatus, Announce, DispatchInv,
                          DispatchTypeOK, LifecycleTypeOK, Calls
      <3>4. QED  BY <2>1, <2>3, <3>3 DEF CalmHandler, ReadyingAt, At
    <2>4. CASE handler[p].pc = "readying"
      <3>1. ASSUME ReadyingAt(p)'
            PROVE  delivery[o].status = NoRow
        <4>1. CASE WriteStatus(p)
          <5>1. call[p].next = "READY" /\ Allowed(status[o], call[p].next)
            BY <1>2, <2>4, <4>1, WritesAreAllowed DEF Roles, At
          <5>2. status[o] = "PREPARING"
            BY <5>1 DEF Allowed, Transitions
          <5>3. QED  BY <2>1, <5>2 DEF CalmRows
        <4>2. CASE ReadOrder(p) \/ RefuseMove(p)
          BY <3>1, <4>2 DEF ReadOrder, RefuseMove, ReadyingAt, DispatchInv, DispatchTypeOK,
                            LifecycleTypeOK, Calls
        <4>3. CASE Announce(p)
          BY <1>0, <2>4, <4>3 DEF Announce, CalmHandler, ReadyingAt, At
        <4>4. QED  BY <1>2, <4>1, <4>2, <4>3 DEF CallStep
      <3>2. QED  BY <2>1, <2>4, <3>1 DEF CalmHandler, At
    <2>5. QED  BY <2>1, <2>2, <2>3, <2>4
  <1>3. CASE \/ (\E j \in Jobs : EnqueueAssignment(p, j)) \/ AnswerMove(p)
             \/ RefuseAssignment(p) \/ NoAvailableRider(p) \/ FinishJob(p)
             \/ AcceptDelivery(p) \/ HandlerThrows(p) \/ FinishAssignment(p)
    <2>1. handler'[p] = IdleHandler \/ handler'[p].pc = "done"
      BY <1>3 DEF EnqueueAssignment, AnswerMove, RefuseAssignment, NoAvailableRider,
                  FinishJob, AcceptDelivery, HandlerThrows, FinishAssignment, Unwind, Stop,
                  Proceed, DispatchInv, DispatchTypeOK, Handlers
    <2>2. QED  BY <1>1, <2>1 DEF IdleHandler
  <1>4. ASSUME NEW j \in Jobs, TakeAssignment(p, j)
        PROVE  CalmHandler(p)'
    <2>1. /\ jobs[j].state = "waiting" /\ handler'[p].pc = "loading"
          /\ handler'[p].order = jobs[j].data /\ delivery' = delivery
      BY <1>4 DEF TakeAssignment, TakeJob, Waiting, Start, deliveryVars, DispatchInv,
                  DispatchTypeOK
    <2>2. jobs[j].data \in Orders
      BY <2>1 DEF DispatchInv, JobsOK, JobData
    <2>3. delivery'[handler'[p].order].status = NoRow
      BY <2>1, <2>2 DEF CalmRows
    <2>4. QED  BY <2>1, <2>3 DEF CalmHandler, ReadyingAt, At
  <1>5. CASE LoadReadyOrder(p) \/ (\E r \in Riders : ChooseRider(p, r))
    <2>1. /\ handler[p].pc \in {"loading", "choosing"}
          /\ handler'[p].pc \in {"choosing", "upserting"}
          /\ handler'[p].order = o /\ delivery' = delivery
      BY <1>5 DEF LoadReadyOrder, ChooseRider, Proceed, At, DispatchInv, DispatchTypeOK,
                  Handlers, deliveryVars
    <2>2. QED  BY <1>0, <2>1 DEF CalmHandler, ReadyingAt, At
  <1>6. CASE UpsertDelivery(p)
    <2>1. handler'[p].pc = "occupying"
      BY <1>6 DEF UpsertDelivery, Proceed, DispatchInv, DispatchTypeOK, Handlers
    <2>2. QED  BY <1>1, <2>1
  <1>7. CASE OccupyRider(p)
    <2>1. handler'[p].pc = "assigning" /\ call'[p].pc = "read"
      BY <1>7 DEF OccupyRider, Proceed, Invoke, NewCall, DispatchInv, DispatchTypeOK,
                  LifecycleTypeOK, Handlers
    <2>2. QED  BY <2>1 DEF CalmHandler, ReadyingAt, At
  <1>8. CASE PickUp(p) \/ LeaveForDelivery(p)
    <2>1. /\ handler'[p].pc = "answering" /\ handler'[p].order = o /\ o \in Orders
      BY <1>8 DEF PickUp, LeaveForDelivery, Proceed, DispatchInv, DispatchTypeOK, Handlers,
                  HandlersOK, At
    <2>2. delivery'[o].status = call'[p].next
      <3>1. CASE PickUp(p)
        BY <2>1, <3>1 DEF PickUp, UpdateDelivery, Invoke, NewCall, DispatchInv,
                          DispatchTypeOK, LifecycleTypeOK, Deliveries
      <3>2. CASE LeaveForDelivery(p)
        BY <2>1, <3>2 DEF LeaveForDelivery, UpdateDelivery, Invoke, NewCall, DispatchInv,
                          DispatchTypeOK, LifecycleTypeOK, Deliveries
      <3>3. QED  BY <1>8, <3>1, <3>2
    <2>3. QED  BY <2>1, <2>2 DEF CalmHandler, ReadyingAt, At
  <1>9. CASE Deliver(p)
    <2>1. /\ handler'[p].pc = "freeing" /\ handler'[p].order = o /\ o \in Orders
      BY <1>9 DEF Deliver, Proceed, DispatchInv, DispatchTypeOK, Handlers, HandlersOK, At
    <2>2. delivery'[o].status = "DELIVERED"
      BY <1>9, <2>1 DEF Deliver, UpdateDelivery, DispatchInv, DispatchTypeOK, Deliveries
    <2>3. QED  BY <2>1, <2>2 DEF CalmHandler, ReadyingAt, At
  <1>10. CASE FreeRider(p)
    <2>1. /\ handler'[p].pc = "answering" /\ handler'[p].order = o
          /\ call'[p].next = "DELIVERED" /\ delivery' = delivery /\ handler[p].pc = "freeing"
      BY <1>10 DEF FreeRider, Proceed, Invoke, NewCall, At, DispatchInv, DispatchTypeOK,
                   LifecycleTypeOK, Handlers
    <2>2. QED  BY <1>0, <2>1 DEF CalmHandler, ReadyingAt, At
  <1>11. CASE ClientStep(p)
    <2>1. ASSUME NEW r \in Orders, RequestPreparing(p, r) \/ RequestReady(p, r)
          PROVE  CalmHandler(p)'
      <3>1. \/ handler'[p].pc = "answering" /\ call'[p].next = "PREPARING"
            \/ handler'[p].pc = "readying" /\ call'[p].pc = "read"
        BY <2>1 DEF RequestPreparing, RequestReady, Start, Invoke, NewCall, DispatchInv,
                    DispatchTypeOK, LifecycleTypeOK, Handlers
      <3>2. QED  BY <3>1 DEF CalmHandler, ReadyingAt, At
    <2>2. ASSUME NEW r \in Orders, NEW d, RequestAssignment(p, r, d)
          PROVE  FALSE
      BY <2>2 DEF RequestAssignment, AcceptRequest, SerialDispatch
    <2>3. ASSUME NEW r \in Orders, NEW d \in Riders, RequestRiderStep(p, r, d)
          PROVE  CalmHandler(p)'
      <3>1. /\ handler'[p].order = r /\ delivery' = delivery
            /\ \/ handler'[p].pc = "accepting" /\ delivery[r].status = "ASSIGNED"
               \/ handler'[p].pc = "pickingUp" /\ delivery[r].status = "ACCEPTED"
               \/ handler'[p].pc = "leaving" /\ delivery[r].status = "PICKED_UP"
               \/ handler'[p].pc = "delivering" /\ delivery[r].status = "OUT_FOR_DELIVERY"
        BY <2>3 DEF RequestRiderStep, RiderRequest, Start, deliveryVars, DispatchInv,
                    DispatchTypeOK
      <3>2. QED  BY <3>1 DEF CalmHandler, ReadyingAt, At
    <2>4. QED  BY <1>11, <2>1, <2>2, <2>3 DEF ClientStep
  <1>12. QED
    BY <1>2, <1>3, <1>4, <1>5, <1>6, <1>7, <1>8, <1>9, <1>10, <1>11, StepCases

\* A job that waits was waiting before, was just added, or was given back by a
\* worker that did not find its order READY or found no rider.
LEMMA WhoMakesJobsWait ==
  ASSUME CalmState, NEW p \in Procs, StepOf(p), ~FailInHandler(p), NEW o \in Orders,
         NEW j \in Jobs, jobs'[j].state = "waiting", jobs'[j].data = o,
         ~(jobs[j].state = "waiting" /\ jobs[j].data = o)
  PROVE  delivery[o].status = NoRow /\ delivery'[o] = delivery[o]
  <1> USE DEF CalmState, AssignmentState, AssignmentInv
  <1>0. CalmHandler(p) /\ HandlerRelies(p)
    OBVIOUS
  <1>1. delivery'[o] = delivery[o]
    BY WhoWritesTheRow
  <1>2. CASE ~JobFor(j, o)
    <2>1. JobFor(j, o)'
      BY DEF JobFor
    <2>2. ReadyingAt(p) /\ handler[p].order = o
      BY <1>2, <2>1, WhoAddsJobs
    <2>3. QED  BY <1>0, <1>1, <2>2 DEF CalmHandler
  <1>3. CASE JobFor(j, o)
    <2>1. jobs[j].state = "active" /\ jobs[j].data = o
      BY <1>3 DEF JobFor, DispatchInv, DispatchTypeOK, QueueTypeOK, JobRecords
    <2>2. CASE \/ CallStep(p) \/ AnswerMove(p) \/ LoadReadyOrder(p)
               \/ (\E r \in Riders : ChooseRider(p, r))
               \/ UpsertDelivery(p) \/ OccupyRider(p) \/ FinishAssignment(p)
               \/ AcceptDelivery(p) \/ PickUp(p) \/ LeaveForDelivery(p) \/ Deliver(p)
               \/ FreeRider(p) \/ ClientStep(p) \/ FailInCall(p)
      BY <2>1, <2>2 DEF CallStep, AnswerMove, LoadReadyOrder, ChooseRider, UpsertDelivery,
         OccupyRider, FinishAssignment, AcceptDelivery, PickUp, LeaveForDelivery, Deliver,
         FreeRider, ClientStep, RequestPreparing, RequestReady, RequestAssignment,
         RequestRiderStep, RiderRequest, FailInCall, queueVars
    <2>3. ASSUME NEW i \in Jobs, EnqueueAssignment(p, i) \/ TakeAssignment(p, i)
          PROVE  FALSE
      BY <2>1, <2>3 DEF EnqueueAssignment, AddJob, TakeAssignment, TakeJob, Waiting,
                        DispatchInv, DispatchTypeOK, QueueTypeOK
    <2>4. CASE FinishJob(p)
      BY <2>1, <2>4 DEF FinishJob, CompleteJob, FreeJob, DispatchInv, DispatchTypeOK,
                        QueueTypeOK
    <2>5. CASE RefuseAssignment(p) \/ NoAvailableRider(p) \/ HandlerThrows(p)
      <3>1. Unwind(p) /\ handler[p].pc # "idle"
        BY <2>5 DEF RefuseAssignment, NoAvailableRider, HandlerThrows, At, DispatchInv,
                    HandlersOK
      <3>2. p \in DeliveryWorkers
        BY <2>1, <3>1 DEF Unwind, queueVars
      <3>3. handler[p].job = j
        BY <2>1, <3>1, <3>2 DEF Unwind, FailJob, RetryJob, DeadLetterJob, DispatchInv,
                                DispatchTypeOK, QueueTypeOK
      <3>4. handler[p].order = o
        BY <2>1, <3>1, <3>2, <3>3 DEF Roles
      <3>5. ~HandlerThrows(p)
        <4>1. handler[p].pc \notin {"answering", "readying"}
          BY <3>2 DEF Roles
        <4>2. call[p].pc = "threw" => handler[p].pc = "assigning"
          BY <4>1 DEF DispatchInv, HandlersOK
        <4>3. QED  BY <1>0, <4>2 DEF HandlerThrows, CalmHandler, At
      <3>6. handler[p].pc \in {"loading", "choosing"}
        BY <2>5, <3>5 DEF RefuseAssignment, NoAvailableRider, At
      <3>7. QED  BY <1>0, <1>1, <3>4, <3>6 DEF CalmHandler
    <2>6. QED  BY <2>2, <2>3, <2>4, <2>5, StepCases
  <1>4. QED  BY <1>2, <1>3

\* An order that was picked up had a rider assigned.
LEMMA PickedUpWasAssigned ==
  ASSUME DispatchInv, NEW o \in Orders, "PICKED_UP" \in visited[o]
  PROVE  "RIDER_ASSIGNED" \in visited[o]
  <1>1. \/ "PICKED_UP" = "PENDING"
        \/ \E r \in visited[o] : Allowed(r, "PICKED_UP")
    BY DEF DispatchInv, LifecycleInv, HistoryIsChained
  <1>2. QED  BY <1>1 DEF Allowed, Transitions

\* The rows of an order after a step under which nothing failed.
LEMMA CalmRowsStep ==
  ASSUME CalmState, NEW p \in Procs, StepOf(p), ~FailInCall(p), ~FailInHandler(p),
         NEW o \in Orders
  PROVE  CalmRows(o)'
  <1> USE DEF CalmState, AssignmentState, AssignmentInv
  <1>0. CalmRows(o) /\ RowsKnown(o) /\ CalmHandler(p) /\ HandlerRelies(p)
    OBVIOUS
  <1>1. status'[o] \in {"ACCEPTED", "PREPARING"} => delivery'[o].status = NoRow
    <2> SUFFICES ASSUME status'[o] \in {"ACCEPTED", "PREPARING"}
                 PROVE  delivery'[o].status = NoRow
      OBVIOUS
    <2>1. status[o] \in {"ACCEPTED", "PREPARING"}
      <3>1. CASE CallStep(p) /\ WriteStatus(p) /\ handler[p].order = o
        <4>1. status'[o] = call[p].next /\ Allowed(status[o], call[p].next)
              /\ handler[p].pc \in {"answering", "readying", "assigning"}
          BY <3>1, WhatAWriteDoes, WritesAreAllowed
        <4>2. call[p].next # "ACCEPTED"
          BY <4>1 DEF Roles, At
        <4>3. QED  BY <4>1, <4>2 DEF Allowed, Transitions
      <3>2. CASE status'[o] = status[o]
        BY <3>2
      <3>3. QED  BY <3>1, <3>2, WhoMovesOrders, WhatAWriteDoes
    <2>2. delivery[o].status = NoRow
      BY <1>0, <2>1 DEF CalmRows
    <2>3. delivery'[o] = delivery[o]
      BY <2>1, <2>2, WhoWritesTheRow DEF NoRow
    <2>4. QED  BY <2>2, <2>3
  <1>2. ASSUME NEW j \in Jobs, jobs'[j].state = "waiting", jobs'[j].data = o
        PROVE  delivery'[o].status = NoRow
    <2>1. CASE jobs[j].state = "waiting" /\ jobs[j].data = o
      <3>1. delivery[o].status = NoRow /\ JobFor(j, o)
        BY <1>0, <2>1 DEF CalmRows, JobFor
      <3>2. ASSUME delivery'[o] # delivery[o]
            PROVE  FALSE
        <4>1. p \in DeliveryWorkers /\ handler[p].pc # "idle" /\ handler[p].order = o
          BY <3>1, <3>2, WhoWritesTheRow DEF NoRow
        <4>2. JobFor(handler[p].job, o) /\ handler[p].job \in Jobs
          BY <4>1, WorkersHaveJobs
        <4>3. jobs[handler[p].job].state = "active"
          BY <4>1 DEF DispatchInv, JobsOK
        <4>4. QED  BY <2>1, <3>1, <4>2, <4>3 DEF OneJob
      <3>3. QED  BY <3>1, <3>2
    <2>2. QED  BY <1>2, <2>1, WhoMakesJobsWait
  <1>3. ASSUME "PICKED_UP" \in visited'[o]
        PROVE  \/ status'[o] = delivery'[o].status
               \/ /\ Allowed(status'[o], delivery'[o].status)
                  /\ \E q \in Api : InHand(q, o)'
    <2>1. CASE CallStep(p) /\ WriteStatus(p) /\ handler[p].order = o
      <3>1. /\ UNCHANGED <<handler, delivery>> /\ status'[o] = call[p].next
            /\ visited'[o] = visited[o] \cup {call[p].next}
            /\ handler[p].pc \in {"answering", "readying", "assigning"}
            /\ Allowed(status[o], call[p].next)
        BY <2>1, WhatAWriteDoes, WritesAreAllowed
      <3>2. call[p].next \in {"PICKED_UP", "OUT_FOR_DELIVERY", "DELIVERED"}
        <4>1. CASE call[p].next = "PICKED_UP"
          BY <4>1
        <4>2. CASE "PICKED_UP" \in visited[o]
          <5>1. status[o] \in {"RIDER_ASSIGNED", "PICKED_UP", "OUT_FOR_DELIVERY", "DELIVERED"}
            BY <1>0, <4>2, PickedUpWasAssigned DEF RowsKnown
          <5>2. QED  BY <3>1, <5>1 DEF Allowed, Transitions
        <4>3. QED  BY <1>3, <3>1, <4>1, <4>2
      <3>3. handler[p].pc = "answering"
        BY <3>1, <3>2 DEF Roles, At
      <3>4. QED  BY <1>0, <2>1, <3>1, <3>2, <3>3 DEF CalmHandler, At
    <2>2. CASE ~(CallStep(p) /\ WriteStatus(p) /\ handler[p].order = o)
      <3>1. status'[o] = status[o] /\ visited'[o] = visited[o]
        BY <2>2, WhoMovesOrders, WhatAWriteDoes
      <3>2. /\ status[o] \in {"RIDER_ASSIGNED", "PICKED_UP", "OUT_FOR_DELIVERY", "DELIVERED"}
            /\ \/ status[o] = delivery[o].status
               \/ Allowed(status[o], delivery[o].status) /\ \E q \in Api : InHand(q, o)
        BY <1>0, <1>3, <3>1, PickedUpWasAssigned DEF RowsKnown, CalmRows
      <3>3. CASE delivery'[o] = delivery[o]
        <4>1. CASE status[o] = delivery[o].status
          BY <3>1, <3>3, <4>1
        <4>2. ASSUME Allowed(status[o], delivery[o].status), NEW q \in Api, InHand(q, o)
              PROVE  InHand(q, o)'
          <5>0. q \in Procs
            BY DispatchAssumption
          <5>1. CASE q # p
            <6>1. handler'[q] = handler[q] /\ call'[q] = call[q]
              BY <5>0, <5>1, OthersStay DEF DispatchInv, StepOf
            <6>2. QED  BY <3>3, <4>2, <6>1 DEF InHand, At
          <5>2. CASE q = p /\ At(p, "freeing")
            <6>1. delivery[o].status = "DELIVERED" /\ handler[p].order = o
              BY <1>0, <4>2, <5>2 DEF CalmHandler, InHand
            <6>2. FreeRider(p)
              BY <5>2, StepCases
                 DEF At, CallStep, ReadOrder, RefuseMove, WriteStatus, Announce,
                     EnqueueAssignment, AnswerMove, TakeAssignment, LoadReadyOrder,
                     RefuseAssignment, ChooseRider, NoAvailableRider, UpsertDelivery,
                     OccupyRider, FinishAssignment, FinishJob, AcceptDelivery, PickUp,
                     LeaveForDelivery, Deliver, HandlerThrows, ClientStep,
                     RequestPreparing, RequestReady, RequestAssignment, RequestRiderStep,
                     RiderRequest, Start, DispatchInv, HandlersOK
            <6>3. /\ handler'[p].pc = "answering" /\ handler'[p].order = o
                  /\ call'[p].pc = "read" /\ call'[p].next = "DELIVERED"
              BY <6>1, <6>2 DEF FreeRider, Proceed, Invoke, NewCall, DispatchInv,
                                DispatchTypeOK, LifecycleTypeOK, Handlers
            <6>4. QED  BY <3>3, <5>2, <6>1, <6>3 DEF InHand, At
          <5>3. CASE /\ q = p /\ At(p, "answering") /\ call[p].pc \in {"read", "write"}
                     /\ call[p].next = delivery[o].status
            <6>1. handler[p].order = o /\ call[p].order = o
              BY <4>2, <5>3 DEF InHand, DispatchInv, HandlersOK
            <6>2. CallStep(p)
              BY <5>3, StepCases
                 DEF At, EnqueueAssignment, AnswerMove, Moved, TakeAssignment, LoadReadyOrder,
                     RefuseAssignment, ChooseRider, NoAvailableRider, UpsertDelivery,
                     OccupyRider, FinishAssignment, FinishJob, AcceptDelivery, PickUp,
                     LeaveForDelivery, Deliver, FreeRider, HandlerThrows, ClientStep,
                     RequestPreparing, RequestReady, RequestAssignment, RequestRiderStep,
                     RiderRequest, Start
            <6>3. ReadOrder(p)
              BY <2>2, <4>2, <5>3, <6>1, <6>2 DEF CallStep, RefuseMove, Announce
            <6>4. /\ handler'[p] = handler[p] /\ call'[p].pc = "write"
                  /\ call'[p].next = call[p].next
              BY <6>2, <6>3 DEF CallStep, ReadOrder, DispatchInv, DispatchTypeOK,
                                LifecycleTypeOK, Calls
            <6>5. QED  BY <3>3, <5>3, <6>1, <6>4 DEF InHand, At
          <5>4. QED  BY <4>2, <5>1, <5>2, <5>3 DEF InHand
        <4>3. QED  BY <3>1, <3>2, <3>3, <4>1, <4>2
      <3>4. CASE delivery'[o] # delivery[o]
        <4>1. handler[p].order = o /\ p \in Api
              /\ delivery[o].status \in {"ASSIGNED", "ACCEPTED", "PICKED_UP",
                                         "OUT_FOR_DELIVERY"}
          BY <3>2, <3>4, WhoWritesTheRow
        <4>2. delivery[o].status \notin {"ASSIGNED", "ACCEPTED"}
          BY <3>2 DEF Allowed, Transitions
        <4>3. \/ /\ LeaveForDelivery(p) /\ delivery[o].status = "PICKED_UP"
                 /\ handler[p].pc = "leaving" /\ delivery'[o].status = "OUT_FOR_DELIVERY"
              \/ /\ Deliver(p) /\ delivery[o].status = "OUT_FOR_DELIVERY"
                 /\ handler[p].pc = "delivering" /\ delivery'[o].status = "DELIVERED"
          BY <3>2, <3>4, <4>2, WhoWritesTheRow
        <4>4. \A q \in Api : ~InHand(q, o)
          BY <4>1, <4>3 DEF InHand, SerialDispatch, At
        <4>5. status[o] = delivery[o].status
          BY <3>2, <4>4
        <4>6. Allowed(status'[o], delivery'[o].status)
          BY <3>1, <4>3, <4>5 DEF Allowed, Transitions
        <4>7. InHand(p, o)'
          <5>1. CASE LeaveForDelivery(p)
            <6>1. /\ handler'[p].pc = "answering" /\ handler'[p].order = o
                  /\ call'[p].pc = "read" /\ call'[p].next = "OUT_FOR_DELIVERY"
              BY <4>1, <5>1 DEF LeaveForDelivery, Proceed, Invoke, NewCall, DispatchInv,
                                DispatchTypeOK, LifecycleTypeOK, Handlers
            <6>2. delivery'[o].status = "OUT_FOR_DELIVERY"
              BY <4>3, <5>1 DEF LeaveForDelivery, Deliver, At
            <6>3. QED  BY <6>1, <6>2 DEF InHand, At
          <5>2. CASE Deliver(p)
            BY <4>1, <5>2 DEF Deliver, Proceed, InHand, At, DispatchInv, DispatchTypeOK,
                              Handlers
          <5>3. QED  BY <4>3, <5>1, <5>2
        <4>8. QED  BY <4>1, <4>6, <4>7
      <3>5. QED  BY <3>3, <3>4
    <2>3. QED  BY <2>1, <2>2
  <1>4. QED  BY <1>1, <1>2, <1>3 DEF CalmRows

\* A step that keeps the counts of what failed at zero failed nowhere.
LEMMA CalmStep ==
  ASSUME AssignmentState, CalmInv, [Next]_vars
  PROVE  CalmInv'
  <1> SUFFICES ASSUME NothingFailed'
               PROVE  (\A o \in Orders : CalmRows(o))' /\ (\A p \in Procs : CalmHandler(p))'
    BY DEF CalmInv
  <1>0. faults \in Nat /\ crashes \in Nat
    BY DEF AssignmentState, DispatchInv, DispatchTypeOK
  <1>1. ASSUME NEW p \in Procs, StepOf(p)
        PROVE  (\A o \in Orders : CalmRows(o))' /\ (\A q \in Procs : CalmHandler(q))'
    <2>1. /\ ~FailInCall(p) /\ ~FailInHandler(p)
      BY <1>0 DEF FailInCall, FailInHandler, Fault, NothingFailed
    <2>2. faults' = faults /\ crashes' = crashes
      BY <1>1, <2>1, StepCases
         DEF CallStep, EnqueueAssignment, AnswerMove, TakeAssignment, LoadReadyOrder,
             RefuseAssignment, ChooseRider, NoAvailableRider, UpsertDelivery,
             OccupyRider, FinishAssignment, FinishJob, AcceptDelivery, PickUp,
             LeaveForDelivery, Deliver, FreeRider, HandlerThrows, ClientStep,
             RequestPreparing, RequestReady, RequestAssignment, RequestRiderStep,
             RiderRequest, AcceptRequest, bounds
    <2>3. CalmState
      BY <2>2 DEF CalmState, CalmInv, NothingFailed
    <2>4. \A o \in Orders : CalmRows(o)'
      BY <1>1, <2>1, <2>3, CalmRowsStep
    <2>5. \A q \in Procs : CalmHandler(q)'
      BY <1>1, <2>1, <2>3, OwnStaysCalm, OthersStayCalm
    <2>6. QED  BY <2>4, <2>5
  <1>2. ASSUME UNCHANGED <<status, visited, call, jobs, delivery, handler, faults, crashes>>
        PROVE  (\A o \in Orders : CalmRows(o))' /\ (\A p \in Procs : CalmHandler(p))'
    BY <1>2 DEF CalmInv, NothingFailed, CalmRows, CalmHandler, InHand, ReadyingAt, At
  <1>3. ASSUME NEW r \in Riders, NEW value, SetAvailability(r, value)
        PROVE  UNCHANGED <<status, visited, call, jobs, delivery, handler, faults, crashes>>
    BY <1>3 DEF SetAvailability, lifecycleVars, queueVars
  <1>4. ~Crash
    BY <1>0 DEF Crash, NothingFailed
  <1>5. CASE UNCHANGED vars \/ PostDeadLetter
    BY <1>2, <1>5 DEF vars, PostDeadLetter, PostLetter, lifecycleVars, queueVars,
                      deliveryVars, bounds
  <1>6. QED  BY <1>1, <1>2, <1>3, <1>4, <1>5 DEF Next, StepOf

\* No delivery row is there at first.
LEMMA CalmInit == Init => CalmInv
  <1> SUFFICES ASSUME Init PROVE CalmInv
    OBVIOUS
  <1>1. \A o \in Orders : delivery[o].status = NoRow /\ "PICKED_UP" \notin visited[o]
    BY DEF Init, NoDelivery
  <1>2. \A p \in Procs : handler[p].pc = "idle"
    BY DEF Init, IdleHandler
  <1>3. QED  BY <1>1, <1>2 DEF CalmInv, CalmRows, CalmHandler, ReadyingAt, At

(***************************************************************************)
(* While the delivery job is the only assigner, requests come one at a     *)
(* time and nothing has failed, an order that was picked up and that       *)
(* nobody is working on has the status of its delivery.                    *)
(***************************************************************************)
THEOREM OneAssignerOrderKeepsUp ==
  ASSUME SerialDispatch
  PROVE  Spec => []PickedUpOrderKeepsUp
  <1>1. DispatchInv /\ AssignmentInv /\ CalmInv /\ [Next]_vars
          => (DispatchInv /\ AssignmentInv /\ CalmInv)'
    BY DispatchStepInv, AssignmentStep, CalmStep DEF AssignmentState
  <1>2. CalmInv => PickedUpOrderKeepsUp
    BY DispatchAssumption DEF CalmInv, NothingFailed, CalmRows, InHand, Quiet, PickedUpOrderKeepsUp
  <1>3. QED
    BY <1>1, <1>2, DispatchInitInv, AssignmentInit, CalmInit, PTL DEF Spec

-----------------------------------------------------------------------------
(* An order that is READY is passed on, whoever assigns. *)

LEMMA RolesInvariant == Spec => [](DispatchInv /\ Roles)
  <1>1. Init => Roles
    BY DispatchAssumption DEF Init, IdleHandler, IdleCall, Roles, At
  <1>2. DispatchInv /\ Roles /\ [Next]_vars => (DispatchInv /\ Roles)'
    <2> SUFFICES ASSUME DispatchInv, Roles, [Next]_vars
                 PROVE  DispatchInv' /\ Roles'
      OBVIOUS
    <2>1. DispatchInv'
      BY DispatchStepInv
    <2>2. ASSUME NEW p \in Procs, StepOf(p)
          PROVE  Roles'
      BY <2>1, <2>2, RolesStep
    <2>3. CASE UNCHANGED <<call, jobs, handler>>
      BY <2>1, <2>3 DEF Roles, At
    <2>4. CASE Crash
      BY <2>1, <2>4 DEF Crash, LoseAllCalls, IdleHandler, IdleCall, Roles, At
    <2>5. ASSUME NEW r \in Riders, NEW value, SetAvailability(r, value)
          PROVE  UNCHANGED <<call, jobs, handler>>
      BY <2>5 DEF SetAvailability, lifecycleVars, queueVars
    <2>6. CASE UNCHANGED vars \/ PostDeadLetter
      BY <2>3, <2>6 DEF vars, PostDeadLetter, PostLetter, lifecycleVars, queueVars
    <2>7. QED
      BY <2>1, <2>2, <2>3, <2>4, <2>5, <2>6 DEF Next, StepOf
  <1>3. QED  BY <1>1, <1>2, DispatchInitInv, PTL DEF Spec

\* What a worker has in hand is the order of its job.
LEMMA WorkersJob ==
  ASSUME DispatchInv, Roles, NEW w \in DeliveryWorkers, handler[w].pc # "idle"
  PROVE  /\ handler[w].job \in Jobs
         /\ jobs[handler[w].job].state = "active"
         /\ jobs[handler[w].job].data = handler[w].order
  <1>1. w \in Procs
    BY DispatchAssumption
  <1>2. QED  BY <1>1 DEF DispatchInv, JobsOK, Roles

\* A job that failed waits for its next attempt or leaves a dead letter.
LEMMA FailedJobIsKept ==
  ASSUME DispatchInv, Roles, NEW w \in DeliveryWorkers, handler[w].pc # "idle",
         FailJob(handler[w].job), NEW o \in Orders, handler[w].order = o
  PROVE  Attended(o)'
  <1> DEFINE j == handler[w].job
  <1> USE DEF DispatchInv, DispatchTypeOK, QueueTypeOK
  <1>1. j \in Jobs /\ jobs[j].data = o
    BY WorkersJob
  <1>2. CASE RetryJob(j)
    <2>1. jobs'[j].state = "waiting" /\ jobs'[j].data = o
      BY <1>1, <1>2 DEF RetryJob, JobRecords
    <2>2. QED  BY <1>1, <2>1 DEF Attended, Queued
  <1>3. CASE DeadLetterJob(j)
    <2>1. [queue |-> jobs[j].queue, data |-> o] \in letters'
      BY <1>1, <1>3 DEF DeadLetterJob
    <2>2. QED  BY <2>1 DEF Attended
  <1>4. QED  BY <1>2, <1>3 DEF FailJob

\* A job that waits keeps waiting, until a worker takes it and turns to its order.
LEMMA QueuedGoesOn ==
  ASSUME DispatchInv, NEW p \in Procs, StepOf(p), NEW o \in Orders, NEW j \in Jobs,
         Queued(j, o)
  PROVE  Attended(o)'
  <1> USE DEF DispatchInv, DispatchTypeOK, QueueTypeOK
  <1>0. jobs[j].state = "waiting" /\ jobs[j].data = o
    BY DEF Queued
  <1>1. CASE jobs'[j] = jobs[j]
    BY <1>0, <1>1 DEF Attended, Queued
  <1>2. CASE TakeAssignment(p, j)
    <2>1. Assigning(p, o)'
      BY <1>0, <1>2 DEF TakeAssignment, Start, Assigning
    <2>2. QED  BY <2>1 DEF Attended
  <1>3. ASSUME NEW i \in Jobs, i # j, EnqueueAssignment(p, i) \/ TakeAssignment(p, i)
        PROVE  jobs'[j] = jobs[j]
    BY <1>3 DEF EnqueueAssignment, TakeAssignment, AddJob, TakeJob
  <1>4. ~EnqueueAssignment(p, j)
    BY <1>0 DEF EnqueueAssignment, AddJob
  <1>5. ASSUME p \in DeliveryWorkers, handler[p].pc # "idle",
               CompleteJob(handler[p].job) \/ FailJob(handler[p].job)
        PROVE  jobs'[j] = jobs[j]
    <2>1. handler[p].job \in Jobs /\ handler[p].job # j
      BY <1>0, <1>5 DEF JobsOK
    <2>2. QED  BY <1>5, <2>1 DEF CompleteJob, FailJob, RetryJob, DeadLetterJob
  <1>6. CASE FinishJob(p)
    BY <1>1, <1>5, <1>6 DEF FinishJob, HandlersOK, At
  <1>7. CASE \/ RefuseAssignment(p) \/ NoAvailableRider(p)
             \/ HandlerThrows(p) \/ FailInHandler(p)
    <2>1. handler[p].pc # "idle" /\ Unwind(p)
      BY <1>7 DEF RefuseAssignment, NoAvailableRider, HandlerThrows, FailInHandler,
                  HandlersOK, At
    <2>2. QED  BY <1>1, <1>5, <2>1 DEF Unwind, queueVars
  <1>8. CASE \/ CallStep(p) \/ AnswerMove(p) \/ LoadReadyOrder(p)
             \/ (\E r \in Riders : ChooseRider(p, r))
             \/ UpsertDelivery(p) \/ OccupyRider(p) \/ FinishAssignment(p)
    BY <1>1, <1>8 DEF CallStep, AnswerMove, LoadReadyOrder, ChooseRider, UpsertDelivery,
                OccupyRider, FinishAssignment, queueVars
  <1>9. CASE \/ AcceptDelivery(p) \/ PickUp(p) \/ LeaveForDelivery(p) \/ Deliver(p)
             \/ FreeRider(p) \/ ClientStep(p) \/ FailInCall(p)
    BY <1>1, <1>9 DEF AcceptDelivery, PickUp, LeaveForDelivery, Deliver, FreeRider,
                ClientStep, RequestPreparing, RequestReady, RequestAssignment,
                RequestRiderStep, RiderRequest, FailInCall, queueVars
  <1>10. QED
    BY <1>1, <1>2, <1>3, <1>4, <1>6, <1>7, <1>8, <1>9, StepCases

\* No handler touches the dead letters, on their way or in the queue.
LEMMA LettersGrow ==
  ASSUME NEW p \in Procs, StepOf(p)
  PROVE  letters \subseteq letters' /\ deadLetters \subseteq deadLetters'
  <1>1. CASE \E j \in Jobs : EnqueueAssignment(p, j) \/ TakeAssignment(p, j)
    BY <1>1 DEF EnqueueAssignment, TakeAssignment, AddJob, TakeJob
  <1>2. CASE FinishJob(p)
    BY <1>2 DEF FinishJob, CompleteJob
  <1>3. CASE Unwind(p)
    BY <1>3 DEF Unwind, FailJob, RetryJob, DeadLetterJob, queueVars
  <1>4. CASE \/ RefuseAssignment(p) \/ NoAvailableRider(p)
             \/ HandlerThrows(p) \/ FailInHandler(p)
    BY <1>3, <1>4 DEF RefuseAssignment, NoAvailableRider, HandlerThrows, FailInHandler
  <1>5. CASE \/ CallStep(p) \/ AnswerMove(p) \/ LoadReadyOrder(p)
             \/ (\E r \in Riders : ChooseRider(p, r))
             \/ UpsertDelivery(p) \/ OccupyRider(p) \/ FinishAssignment(p)
    BY <1>5 DEF CallStep, AnswerMove, LoadReadyOrder, ChooseRider, UpsertDelivery,
                OccupyRider, FinishAssignment, queueVars
  <1>6. CASE \/ AcceptDelivery(p) \/ PickUp(p) \/ LeaveForDelivery(p) \/ Deliver(p)
             \/ FreeRider(p) \/ ClientStep(p) \/ FailInCall(p)
    BY <1>6 DEF AcceptDelivery, PickUp, LeaveForDelivery, Deliver, FreeRider,
                ClientStep, RequestPreparing, RequestReady, RequestAssignment,
                RequestRiderStep, RiderRequest, FailInCall, queueVars
  <1>7. QED  BY <1>1, <1>2, <1>4, <1>5, <1>6, StepCases

\* markReady goes on, adds its job, or fails and loses the order.
LEMMA ReadyingGoesOn ==
  ASSUME DispatchInv, Roles, NEW p \in Procs, StepOf(p), NEW o \in Orders,
         Readying(p, o)
  PROVE  Attended(o)' \/ LosesOrder(o)
  <1> USE DEF DispatchInv, DispatchTypeOK, QueueTypeOK
  <1>1. handler[p].pc = "readying" /\ handler[p].order = o
    BY DEF Readying, At
  <1>2. p \in Api
    BY <1>1, DispatchAssumption DEF Roles
  <1>3. CASE CallStep(p) \/ FailInCall(p)
    <2>1. Readying(p, o)'
      BY <1>1, <1>3 DEF CallStep, FailInCall, Readying, At
    <2>2. QED  BY <2>1 DEF Attended
  <1>4. ASSUME NEW j \in Jobs, EnqueueAssignment(p, j)
        PROVE  Attended(o)'
    <2>1. jobs'[j].state = "waiting" /\ jobs'[j].data = o
      BY <1>1, <1>4 DEF EnqueueAssignment, AddJob
    <2>2. QED  BY <2>1 DEF Attended, Queued
  <1>5. CASE HandlerThrows(p) \/ FailInHandler(p)
    BY <1>2, <1>5 DEF Readying, LosesOrder
  <1>6. CASE \/ AnswerMove(p) \/ (\E j \in Jobs : TakeAssignment(p, j))
             \/ LoadReadyOrder(p) \/ RefuseAssignment(p)
             \/ (\E r \in Riders : ChooseRider(p, r)) \/ NoAvailableRider(p)
             \/ UpsertDelivery(p) \/ OccupyRider(p) \/ FinishAssignment(p)
             \/ FinishJob(p)
    BY <1>1, <1>6 DEF AnswerMove, TakeAssignment, LoadReadyOrder, RefuseAssignment,
       ChooseRider, NoAvailableRider, UpsertDelivery, OccupyRider, FinishAssignment,
       FinishJob, Start, At
  <1>7. CASE \/ AcceptDelivery(p) \/ PickUp(p) \/ LeaveForDelivery(p) \/ Deliver(p)
             \/ FreeRider(p) \/ ClientStep(p)
    BY <1>1, <1>7 DEF AcceptDelivery, PickUp, LeaveForDelivery, Deliver, FreeRider,
       ClientStep, RequestPreparing, RequestReady, RequestAssignment,
       RequestRiderStep, RiderRequest, Start, At
  <1>8. QED  BY <1>3, <1>4, <1>5, <1>6, <1>7, StepCases

\* A worker goes on, hands the order back to the queue, or moves it.
LEMMA AssigningGoesOn ==
  ASSUME DispatchInv, Roles, NEW p \in Procs, StepOf(p), NEW o \in Orders,
         Assigning(p, o), status'[o] = "READY"
  PROVE  Attended(o)'
  <1> USE DEF DispatchInv, DispatchTypeOK, LifecycleTypeOK
  <1>1. /\ p \in DeliveryWorkers /\ p \notin Api /\ handler[p].order = o
        /\ handler[p].pc \in {"loading", "choosing", "upserting", "occupying",
                              "assigning"}
        /\ handler[p].pc = "assigning" => call[p].pc \in {"read", "write", "threw"}
    BY DispatchAssumption DEF Assigning, At
  <1>2. ASSUME Unwind(p)
        PROVE  Attended(o)'
    BY <1>1, <1>2, FailedJobIsKept DEF Unwind
  <1>3. CASE \/ RefuseAssignment(p) \/ NoAvailableRider(p)
             \/ HandlerThrows(p) \/ FailInHandler(p)
    BY <1>2, <1>3 DEF RefuseAssignment, NoAvailableRider, HandlerThrows, FailInHandler
  <1>4. CASE LoadReadyOrder(p) \/ UpsertDelivery(p)
    <2>1. \E pc \in {"choosing", "occupying"} : Proceed(p, pc)
      BY <1>4 DEF LoadReadyOrder, UpsertDelivery
    <2>2. Assigning(p, o)'
      BY <1>1, <2>1 DEF Proceed, Assigning, Handlers
    <2>3. QED  BY <2>2 DEF Attended
  <1>5. ASSUME NEW r \in Riders, ChooseRider(p, r)
        PROVE  Attended(o)'
    <2>1. Assigning(p, o)'
      BY <1>1, <1>5 DEF ChooseRider, Assigning, Handlers
    <2>2. QED  BY <2>1 DEF Attended
  <1>6. CASE OccupyRider(p)
    <2>1. Assigning(p, o)'
      BY <1>1, <1>6 DEF OccupyRider, Proceed, Invoke, NewCall, Assigning, At, Handlers
    <2>2. QED  BY <2>1 DEF Attended
  <1>7. CASE CallStep(p) \/ FailInCall(p)
    <2>1. handler'[p] = handler[p]
      BY <1>7 DEF CallStep, FailInCall
    <2>2. CASE handler[p].pc # "assigning"
      BY <1>1, <2>1, <2>2 DEF Assigning, Attended
    <2>3. CASE handler[p].pc = "assigning"
      <3>1. call[p].next = "RIDER_ASSIGNED" /\ call[p].order = o
        BY <1>1, <2>3 DEF Roles, HandlersOK, At
      <3>2. ~WriteStatus(p)
        BY <3>1 DEF WriteStatus
      <3>3. call'[p].pc \in {"write", "threw"}
        BY <1>1, <1>7, <2>3, <3>2
           DEF CallStep, FailInCall, ReadOrder, RefuseMove, Announce, LoseCall, Calls
      <3>4. QED  BY <1>1, <2>1, <2>3, <3>3 DEF Assigning, At, Attended
    <2>4. QED  BY <2>2, <2>3
  <1>8. CASE \/ AnswerMove(p) \/ FinishAssignment(p) \/ FinishJob(p)
             \/ \E j \in Jobs : EnqueueAssignment(p, j) \/ TakeAssignment(p, j)
    BY <1>1, <1>8 DEF AnswerMove, FinishAssignment, FinishJob, EnqueueAssignment,
                      TakeAssignment, Start, At, Moved
  <1>9. CASE \/ AcceptDelivery(p) \/ PickUp(p) \/ LeaveForDelivery(p) \/ Deliver(p)
             \/ FreeRider(p) \/ ClientStep(p)
    BY <1>1, <1>9 DEF AcceptDelivery, PickUp, LeaveForDelivery, Deliver, FreeRider,
       ClientStep, RequestPreparing, RequestReady, RequestAssignment,
       RequestRiderStep, RiderRequest, Start, At
  <1>10. QED  BY <1>3, <1>4, <1>5, <1>6, <1>7, <1>8, <1>9, StepCases

\* The death of the process: what a worker had goes back to the queue.
LEMMA CrashPassesOn ==
  ASSUME DispatchInv, Roles, Crash, NEW o \in Orders, Attended(o)
  PROVE  Attended(o)' \/ LosesOrder(o)
  <1> USE DEF DispatchInv, DispatchTypeOK, QueueTypeOK
  <1>1. ASSUME NEW p \in Procs, Readying(p, o)
        PROVE  LosesOrder(o)
    <2>1. p \in Api
      BY <1>1, DispatchAssumption DEF Readying, Roles, At
    <2>2. QED  BY <1>1, <2>1 DEF LosesOrder
  <1>2. ASSUME NEW p \in Procs, Assigning(p, o)
        PROVE  Attended(o)'
    <2>1. p \in DeliveryWorkers /\ handler[p].pc # "idle" /\ handler[p].order = o
      BY <1>2 DEF Assigning, At
    <2>2. PICK j \in Jobs : jobs[j].state = "active" /\ jobs[j].data = o
      BY <2>1, WorkersJob
    <2>3. Queued(j, o)'
      BY <2>2 DEF Crash, RedeliverActiveJobs, JobRecords, Queued
    <2>4. QED  BY <2>3 DEF Attended
  <1>3. ASSUME NEW j \in Jobs, Queued(j, o)
        PROVE  Attended(o)'
    <2>1. Queued(j, o)'
      BY <1>3 DEF Crash, RedeliverActiveJobs, Queued
    <2>2. QED  BY <2>1 DEF Attended
  <1>4. ASSUME NEW letter \in letters, letter.data = o
        PROVE  LosesOrder(o)
    BY <1>4 DEF LosesOrder
  <1>5. CASE DeadLettered(o)
    BY <1>5 DEF Crash, RedeliverActiveJobs, DeadLettered, Attended
  <1>6. QED  BY <1>1, <1>2, <1>3, <1>4, <1>5 DEF Attended

\* Every step passes the order on or is one of the two losses.
LEMMA ReadyOrderStep ==
  ASSUME DispatchInv, Roles, [Next]_vars, NEW o \in Orders, status'[o] = "READY",
         status[o] = "READY" => Attended(o)
  PROVE  Attended(o)' \/ LosesOrder(o)
  <1> USE DEF DispatchInv, DispatchTypeOK
  <1>1. CASE UNCHANGED <<status, call, jobs, letters, deadLetters, handler>>
    BY <1>1 DEF Attended, Readying, Assigning, Queued, DeadLettered, At
  <1>2. CASE UNCHANGED vars
    BY <1>1, <1>2 DEF vars, lifecycleVars, queueVars
  <1>3. ASSUME NEW r \in Riders, NEW value, SetAvailability(r, value)
        PROVE  Attended(o)' \/ LosesOrder(o)
    BY <1>1, <1>3 DEF SetAvailability, lifecycleVars, queueVars
  <1>4. CASE PostDeadLetter
    BY <1>4 DEF PostDeadLetter, PostLetter, lifecycleVars, Attended, Readying,
                Assigning, Queued, DeadLettered, At
  <1>5. CASE Crash
    BY <1>5, CrashPassesOn DEF Crash, LoseAllCalls
  <1>6. ASSUME NEW p \in Procs, StepOf(p), status[o] = "READY"
        PROVE  Attended(o)' \/ LosesOrder(o)
    <2>1. ASSUME NEW q \in Procs, Readying(q, o) \/ Assigning(q, o), q # p
          PROVE  Attended(o)'
      <3>1. handler'[q] = handler[q] /\ call'[q] = call[q]
        BY <1>6, <2>1, OthersStay DEF StepOf
      <3>2. QED  BY <2>1, <3>1 DEF Attended, Readying, Assigning, At
    <2>2. CASE Readying(p, o) \/ Assigning(p, o)
      BY <1>6, <2>2, ReadyingGoesOn, AssigningGoesOn
    <2>3. ASSUME NEW j \in Jobs, Queued(j, o)
          PROVE  Attended(o)'
      BY <1>6, <2>3, QueuedGoesOn
    <2>4. ASSUME NEW letter \in letters \cup deadLetters, letter.data = o
          PROVE  Attended(o)'
      BY <1>6, <2>4, LettersGrow DEF Attended, DeadLettered
    <2>5. QED  BY <1>6, <2>1, <2>2, <2>3, <2>4 DEF Attended, DeadLettered
  <1>7. ASSUME NEW p \in Procs, StepOf(p), status[o] # "READY"
        PROVE  Attended(o)'
    <2>1. CallStep(p) /\ WriteStatus(p) /\ handler[p].order = o /\ call[p].next = "READY"
      BY <1>7, WhoMovesOrders, WhatAWriteDoes
    <2>2. handler[p].pc = "readying" /\ handler'[p] = handler[p]
      BY <2>1, WhatAWriteDoes DEF Roles, At
    <2>3. QED  BY <2>1, <2>2 DEF Attended, Readying, At
  <1>8. QED  BY <1>2, <1>3, <1>4, <1>5, <1>6, <1>7 DEF Next, StepOf

(***************************************************************************)
(* An order that is READY is never dropped by a worker, however many       *)
(* workers, requests and assigners there are, whatever fails and however   *)
(* often the process dies: it is lost only with a markReady that fails     *)
(* before its job is added, or with a dead letter that nobody awaits.      *)
(***************************************************************************)
THEOREM ReadyOrdersArePassedOn == Spec => ReadyIsNotForgotten
  <1>1. DispatchInv /\ Roles /\ [Next]_vars =>
          [\A o \in Orders :
              status'[o] = "READY" /\ (status[o] = "READY" => Attended(o)) =>
                  Attended(o)' \/ LosesOrder(o)]_vars
    BY ReadyOrderStep
  <1>2. QED  BY <1>1, RolesInvariant, PTL DEF Spec, ReadyIsNotForgotten
=============================================================================
