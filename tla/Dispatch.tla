------------------------------ MODULE Dispatch ------------------------------
(***************************************************************************)
(* An order from the kitchen to the door: RestaurantsService.markPreparing *)
(* and markReady, the delivery queue, RidersService.assignReadyOrder for   *)
(* the worker and for POST /riders/assignments, and the rider's accept,    *)
(* pick-up, out-for-delivery, deliver and availability.                    *)
(*                                                                         *)
(* The delivery row and the order row say the same thing twice.  Every     *)
(* rider operation reads the delivery, updates it, and then moves the      *)
(* order, in separate awaits and without a transaction; every await is a   *)
(* step here, under which the database or Redis may fail and the process   *)
(* may die.  The model begins with orders the restaurant has accepted.     *)
(***************************************************************************)
EXTENDS OrderLifecycle, JobQueue

CONSTANTS Api, DeliveryWorkers,   \* the processes
          Riders,        \* rider profiles
          NoRider,       \* a riderId column that is null
          Requests,      \* the operations clients use
          FaultyProcs,   \* the processes whose awaits may fail
          MaxRequests,   \* bound on the requests of all clients together
          MaxToggles,    \* bound on the changes of availability by riders
          MaxFaults,     \* bound on the awaits that fail
          MaxCrashes     \* bound on the deaths of the API process

AllRequests == {"preparing", "ready", "assign", "accept", "pick_up",
                "out_for_delivery", "deliver"}
DispatchTargets == {"PREPARING", "READY", "RIDER_ASSIGNED", "PICKED_UP",
                    "OUT_FOR_DELIVERY", "DELIVERED"}

ASSUME DispatchAssumption ==
    /\ Api \cup DeliveryWorkers = Procs
    /\ Api \cap DeliveryWorkers = {}
    /\ NoRider \notin Riders
    /\ Requests \subseteq AllRequests
    /\ DispatchTargets \subseteq Targets
    /\ MaxRequests \in Nat /\ MaxToggles \in Nat
    /\ MaxFaults \in Nat /\ MaxCrashes \in Nat

VARIABLES orderRider,    \* orderRider[o]: the riderId column of the order
          delivery,      \* delivery[o]: status, rider and timestamps of the row
          availability,  \* availability[r]: of the rider profile
          handler,       \* handler[p]: the frame of the handler that p runs
          requests, toggles, faults, crashes   \* how much of each bound is used

deliveryVars == <<orderRider, delivery, availability>>
bounds == <<requests, toggles, faults, crashes>>
vars == <<lifecycleVars, queueVars, deliveryVars, handler, bounds>>

-----------------------------------------------------------------------------
DeliveryStatuses == {"ASSIGNED", "ACCEPTED", "PICKED_UP", "OUT_FOR_DELIVERY",
                     "DELIVERED"}
Stamps == {"acceptedAt", "pickedUpAt", "deliveredAt"}

\* DeliveryAssignmentJobData is the order id.
JobData == Orders

NoDelivery == [status |-> NoRow, rider |-> NoRider, stamps |-> {}]

Deliveries == [status : DeliveryStatuses \cup {NoRow},
               rider : Riders \cup {NoRider},
               stamps : SUBSET Stamps]

IdleHandler == [pc |-> "idle", order |-> NoOrder, rider |-> NoRider, job |-> NoJob]

Handlers == [pc : {"idle", "answering", "readying", "loading", "choosing",
                   "upserting", "occupying", "assigning", "accepting",
                   "pickingUp", "leaving", "delivering", "freeing", "done"},
             order : Orders \cup {NoOrder},
             rider : Riders \cup {NoRider},
             job : Jobs \cup {NoJob}]

At(p, pc) == handler[p].pc = pc
Moved(p) == call[p].pc = "returned"

Start(p, pc, o, r, j) ==
    /\ At(p, "idle")
    /\ handler' = [handler EXCEPT ![p] = [pc |-> pc, order |-> o, rider |-> r,
                                          job |-> j]]
Proceed(p, pc) == handler' = [handler EXCEPT ![p].pc = pc]
Stop(p) == handler' = [handler EXCEPT ![p] = IdleHandler]

AcceptRequest(request) ==
    /\ request \in Requests
    /\ requests < MaxRequests
    /\ requests' = requests + 1
    /\ UNCHANGED <<toggles, faults, crashes>>

\* The orders have come as far as OrderPayment takes them.
Init ==
    /\ status = [o \in Orders |-> "ACCEPTED"]
    /\ visited = [o \in Orders |-> {"PENDING", "PAYMENT_PENDING", "PAID", "ACCEPTED"}]
    /\ call = [p \in Procs |-> IdleCall]
    /\ QueueInit
    /\ orderRider = [o \in Orders |-> NoRider]
    /\ delivery = [o \in Orders |-> NoDelivery]
    /\ availability \in [Riders -> {"OFFLINE", "AVAILABLE"}]
    /\ handler = [p \in Procs |-> IdleHandler]
    /\ requests = 0 /\ toggles = 0 /\ faults = 0 /\ crashes = 0

-----------------------------------------------------------------------------
(* The restaurant. *)

\* PATCH .../preparing: one transitionOrder.
RequestPreparing(p, o) ==
    /\ p \in Api
    /\ AcceptRequest("preparing")
    /\ Invoke(p, o, "PREPARING")
    /\ Start(p, "answering", o, NoRider, NoJob)
    /\ UNCHANGED <<queueVars, deliveryVars>>

\* PATCH .../ready: transitionOrder ...
RequestReady(p, o) ==
    /\ p \in Api
    /\ AcceptRequest("ready")
    /\ Invoke(p, o, "READY")
    /\ Start(p, "readying", o, NoRider, NoJob)
    /\ UNCHANGED <<queueVars, deliveryVars>>

\* ... and then the assignment job, three attempts.
EnqueueAssignment(p, j) ==
    /\ At(p, "readying") /\ Moved(p)
    /\ Return(p)
    /\ AddJob(j, "delivery", handler[p].order, 3)
    /\ Stop(p)
    /\ UNCHANGED <<deliveryVars, bounds>>

\* A request whose last await was transitionOrder is answered.
AnswerMove(p) ==
    /\ At(p, "answering") /\ Moved(p)
    /\ Return(p)
    /\ Stop(p)
    /\ UNCHANGED <<queueVars, deliveryVars, bounds>>

-----------------------------------------------------------------------------
(* assignReadyOrder, for the delivery worker and for POST /riders/assignments. *)

TakeAssignment(w, j) ==
    /\ w \in DeliveryWorkers
    /\ TakeJob(j, "delivery")
    /\ Start(w, "loading", jobs[j].data, NoRider, j)
    /\ UNCHANGED <<lifecycleVars, deliveryVars, bounds>>

\* The owner or an administrator names a rider, or leaves the choice open.
RequestAssignment(p, o, r) ==
    /\ p \in Api
    /\ AcceptRequest("assign")
    /\ Start(p, "loading", o, r, NoJob)
    /\ UNCHANGED <<lifecycleVars, queueVars, deliveryVars>>

\* Mutant: any order that exists is assigned.
LoadReadyOrderUnchecked(p) ==
    /\ At(p, "loading")
    /\ Proceed(p, "choosing")
    /\ UNCHANGED <<lifecycleVars, queueVars, deliveryVars, bounds>>

\* The order that is read is READY.
LoadReadyOrder(p) ==
    /\ At(p, "loading")
    /\ status[handler[p].order] = "READY"
    /\ Proceed(p, "choosing")
    /\ UNCHANGED <<lifecycleVars, queueVars, deliveryVars, bounds>>

\* The rider is the one named, whatever its availability, or an AVAILABLE one
\* (the code takes the one whose profile was updated longest ago).
ChooseRider(p, r) ==
    /\ At(p, "choosing")
    /\ \/ r = handler[p].rider
       \/ handler[p].rider = NoRider /\ availability[r] = "AVAILABLE"
    /\ handler' = [handler EXCEPT ![p] = [@ EXCEPT !.pc = "upserting", !.rider = r]]
    /\ UNCHANGED <<lifecycleVars, queueVars, deliveryVars, bounds>>

\* Mutant: a new assignment starts the row afresh.
UpsertDeliveryAfresh(p) ==
    LET h == handler[p] IN
    /\ At(p, "upserting")
    /\ delivery' = [delivery EXCEPT ![h.order] =
                       [status |-> "ASSIGNED", rider |-> h.rider, stamps |-> {}]]
    /\ Proceed(p, "occupying")
    /\ UNCHANGED <<lifecycleVars, queueVars, orderRider, availability, bounds>>

\* The delivery row is created or overwritten; timestamps stay.
UpsertDelivery(p) ==
    LET h == handler[p] IN
    /\ At(p, "upserting")
    /\ delivery' = [delivery EXCEPT ![h.order].status = "ASSIGNED",
                                    ![h.order].rider = h.rider]
    /\ Proceed(p, "occupying")
    /\ UNCHANGED <<lifecycleVars, queueVars, orderRider, availability, bounds>>

\* The rider is BUSY, and the order is moved.
OccupyRider(p) ==
    /\ At(p, "occupying")
    /\ availability' = [availability EXCEPT ![handler[p].rider] = "BUSY"]
    /\ Invoke(p, handler[p].order, "RIDER_ASSIGNED")
    /\ Proceed(p, "assigning")
    /\ UNCHANGED <<queueVars, orderRider, delivery, bounds>>

\* Back from transitionOrder: the request is answered, the job is done.
FinishAssignment(p) ==
    /\ At(p, "assigning") /\ Moved(p)
    /\ Return(p)
    /\ IF p \in Api THEN Stop(p) ELSE Proceed(p, "done")
    /\ UNCHANGED <<queueVars, deliveryVars, bounds>>

FinishJob(w) ==
    /\ At(w, "done")
    /\ CompleteJob(handler[w].job)
    /\ Stop(w)
    /\ UNCHANGED <<lifecycleVars, deliveryVars, bounds>>

-----------------------------------------------------------------------------
(* The rider.  findOwnedDelivery and the check of the delivery's status come *)
(* first; the handler then acts on what it read.                             *)

RiderRequest(p, o, r, request, required, pc) ==
    /\ p \in Api
    /\ delivery[o].rider = r /\ delivery[o].status = required
    /\ AcceptRequest(request)
    /\ Start(p, pc, o, r, NoJob)
    /\ UNCHANGED <<lifecycleVars, queueVars, deliveryVars>>

RequestRiderStep(p, o, r) ==
    \/ RiderRequest(p, o, r, "accept", "ASSIGNED", "accepting")
    \/ RiderRequest(p, o, r, "pick_up", "ACCEPTED", "pickingUp")
    \/ RiderRequest(p, o, r, "out_for_delivery", "PICKED_UP", "leaving")
    \/ RiderRequest(p, o, r, "deliver", "OUT_FOR_DELIVERY", "delivering")

\* Mutant: the stamp is named after the status.
UpdateDeliveryMisnamed(o, next, stamps) ==
    delivery' = [delivery EXCEPT ![o].status = next, ![o].stamps = @ \cup {next}]

\* updateDeliveryStatus: update by id, no condition on the status.
UpdateDelivery(o, next, stamps) ==
    delivery' = [delivery EXCEPT ![o].status = next,
                                 ![o].stamps = @ \cup stamps]

AcceptDelivery(p) ==
    /\ At(p, "accepting")
    /\ UpdateDelivery(handler[p].order, "ACCEPTED", {"acceptedAt"})
    /\ Stop(p)
    /\ UNCHANGED <<lifecycleVars, queueVars, orderRider, availability, bounds>>

PickUp(p) ==
    /\ At(p, "pickingUp")
    /\ UpdateDelivery(handler[p].order, "PICKED_UP", {"pickedUpAt"})
    /\ Invoke(p, handler[p].order, "PICKED_UP")
    /\ Proceed(p, "answering")
    /\ UNCHANGED <<queueVars, orderRider, availability, bounds>>

\* Mutant: only the delivery is updated.
LeaveForDeliveryAlone(p) ==
    /\ At(p, "leaving")
    /\ UpdateDelivery(handler[p].order, "OUT_FOR_DELIVERY", {})
    /\ Stop(p)
    /\ UNCHANGED <<lifecycleVars, queueVars, orderRider, availability, bounds>>

LeaveForDelivery(p) ==
    /\ At(p, "leaving")
    /\ UpdateDelivery(handler[p].order, "OUT_FOR_DELIVERY", {})
    /\ Invoke(p, handler[p].order, "OUT_FOR_DELIVERY")
    /\ Proceed(p, "answering")
    /\ UNCHANGED <<queueVars, orderRider, availability, bounds>>

Deliver(p) ==
    /\ At(p, "delivering")
    /\ UpdateDelivery(handler[p].order, "DELIVERED", {"deliveredAt"})
    /\ Proceed(p, "freeing")
    /\ UNCHANGED <<lifecycleVars, queueVars, orderRider, availability, bounds>>

FreeRider(p) ==
    /\ At(p, "freeing")
    /\ availability' = [availability EXCEPT ![handler[p].rider] = "AVAILABLE"]
    /\ Invoke(p, handler[p].order, "DELIVERED")
    /\ Proceed(p, "answering")
    /\ UNCHANGED <<queueVars, orderRider, delivery, bounds>>

\* PATCH /riders/me/availability: any value, at any time.
SetAvailability(r, value) ==
    /\ toggles < MaxToggles
    /\ toggles' = toggles + 1
    /\ availability' = [availability EXCEPT ![r] = value]
    /\ UNCHANGED <<lifecycleVars, queueVars, orderRider, delivery, handler,
                   requests, faults, crashes>>

-----------------------------------------------------------------------------
(* What goes wrong. *)

\* An exception leaves the handler.
Unwind(p) ==
    /\ IF p \in DeliveryWorkers THEN FailJob(handler[p].job) ELSE UNCHANGED queueVars
    /\ Stop(p)

\* The order that assignReadyOrder read is not READY (400).
RefuseAssignment(p) ==
    /\ At(p, "loading")
    /\ status[handler[p].order] # "READY"
    /\ Unwind(p)
    /\ UNCHANGED <<lifecycleVars, deliveryVars, bounds>>

\* No rider was named and none is AVAILABLE (400).
NoAvailableRider(p) ==
    /\ At(p, "choosing")
    /\ handler[p].rider = NoRider
    /\ \A r \in Riders : availability[r] # "AVAILABLE"
    /\ Unwind(p)
    /\ UNCHANGED <<lifecycleVars, deliveryVars, bounds>>

\* transitionOrder threw: it refused the move or lost the database.
HandlerThrows(p) ==
    /\ call[p].pc = "threw"
    /\ Return(p)
    /\ Unwind(p)
    /\ UNCHANGED <<deliveryVars, bounds>>

Fault(p) ==
    /\ p \in FaultyProcs
    /\ faults < MaxFaults
    /\ faults' = faults + 1
    /\ UNCHANGED <<requests, toggles, crashes>>

\* An await of transitionOrder fails.
FailInCall(p) ==
    /\ Fault(p)
    /\ LoseCall(p)
    /\ UNCHANGED <<queueVars, deliveryVars, handler>>

\* An await of the handler itself fails.
FailInHandler(p) ==
    /\ Fault(p)
    /\ handler[p].pc \notin {"idle", "answering", "assigning", "done"}
    /\ \/ call[p].pc = "idle" /\ UNCHANGED lifecycleVars
       \/ Moved(p) /\ Return(p)
    /\ Unwind(p)
    /\ UNCHANGED deliveryVars

\* The API process, which also runs the workers, dies and is started again.
Crash ==
    /\ crashes < MaxCrashes
    /\ crashes' = crashes + 1
    /\ LoseAllCalls
    /\ RedeliverActiveJobs
    /\ handler' = [p \in Procs |-> IdleHandler]
    /\ UNCHANGED <<deliveryVars, requests, toggles, faults>>

-----------------------------------------------------------------------------
\* transitionOrder under a handler; the assignment writes the order's riderId
\* together with its status.
CallStep(p) ==
    /\ \/ (ReadOrder(p) \/ RefuseMove(p) \/ Announce(p)) /\ UNCHANGED orderRider
       \/ /\ WriteStatus(p)
          /\ orderRider' = IF At(p, "assigning")
                           THEN [orderRider EXCEPT ![handler[p].order] = handler[p].rider]
                           ELSE orderRider
    /\ UNCHANGED <<queueVars, delivery, availability, handler, bounds>>

AssignStep(p) ==
    \/ \E j \in Jobs : TakeAssignment(p, j)
    \/ LoadReadyOrder(p) \/ RefuseAssignment(p)
    \/ (\E r \in Riders : ChooseRider(p, r)) \/ NoAvailableRider(p)
    \/ UpsertDelivery(p)
    \/ OccupyRider(p)
    \/ FinishAssignment(p)
    \/ FinishJob(p)

RiderStep(p) ==
    AcceptDelivery(p) \/ PickUp(p) \/ LeaveForDelivery(p) \/ Deliver(p) \/ FreeRider(p)

\* What a process does of itself once it has something to do.
ProcStep(p) ==
    \/ CallStep(p)
    \/ \E j \in Jobs : EnqueueAssignment(p, j)
    \/ AnswerMove(p)
    \/ AssignStep(p)
    \/ RiderStep(p)
    \/ HandlerThrows(p)

ClientStep(p) ==
    \E o \in Orders :
        \/ RequestPreparing(p, o)
        \/ RequestReady(p, o)
        \/ \E r \in Riders \cup {NoRider} : RequestAssignment(p, o, r)
        \/ \E r \in Riders : RequestRiderStep(p, o, r)

FaultStep(p) == FailInCall(p) \/ FailInHandler(p)

\* A dead letter that a failed job left behind gets to Redis.
PostDeadLetter ==
    /\ \E letter \in letters : PostLetter(letter)
    /\ UNCHANGED <<lifecycleVars, deliveryVars, handler, bounds>>

Next ==
    \/ \E p \in Procs : ProcStep(p) \/ ClientStep(p) \/ FaultStep(p)
    \/ PostDeadLetter
    \/ \E r \in Riders, value \in {"OFFLINE", "AVAILABLE", "BUSY"} : SetAvailability(r, value)
    \/ Crash

Spec == Init /\ [][Next]_vars

\* Promises settle and workers poll; clients, faults and crashes owe nothing.
\* An add to a queue waits as long as Redis is away: what is said under this
\* fairness is said of a Redis that comes back.
FairSpec ==
    /\ Spec
    /\ \A p \in Procs : WF_vars(ProcStep(p))
    /\ WF_vars(PostDeadLetter)

-----------------------------------------------------------------------------
\* The values the variables can take.
DispatchTypeOK ==
    /\ LifecycleTypeOK
    /\ QueueTypeOK(JobData)
    /\ orderRider \in [Orders -> Riders \cup {NoRider}]
    /\ delivery \in [Orders -> Deliveries]
    /\ availability \in [Riders -> {"OFFLINE", "AVAILABLE", "BUSY"}]
    /\ handler \in [Procs -> Handlers]
    /\ requests \in Nat /\ toggles \in Nat /\ faults \in Nat /\ crashes \in Nat

(***************************************************************************)
(* The order never claims more than the delivery has shown: an order that  *)
(* was ever RIDER_ASSIGNED has a rider, one that was picked up has a       *)
(* delivery that was accepted and picked up, and one that was DELIVERED    *)
(* has a delivery that was.  Holds for any overlap of assignments, rider   *)
(* requests, failures and crashes, because every handler writes the        *)
(* delivery before it moves the order and no timestamp is ever cleared.    *)
(***************************************************************************)
OrderTrailsDelivery ==
    \A o \in Orders :
        /\ "RIDER_ASSIGNED" \in visited[o] =>
              orderRider[o] # NoRider /\ delivery[o].rider # NoRider
        /\ "PICKED_UP" \in visited[o] =>
              {"acceptedAt", "pickedUpAt"} \subseteq delivery[o].stamps
        /\ "DELIVERED" \in visited[o] => "deliveredAt" \in delivery[o].stamps

(***************************************************************************)
(* The rider's timeline tells the delivery's history: each step it shows   *)
(* as complete has its timestamp, also when an assignment put the delivery *)
(* back to ASSIGNED while a request that had read an earlier status was    *)
(* still on its way.                                                       *)
(***************************************************************************)
DeliveryTimelineIsHistory ==
    \A o \in Orders :
        LET shown == CompleteDeliverySteps(delivery[o].status) IN
        /\ "ACCEPTED" \in shown => "acceptedAt" \in delivery[o].stamps
        /\ "PICKED_UP" \in shown => "pickedUpAt" \in delivery[o].stamps
        /\ "DELIVERED" \in shown => "deliveredAt" \in delivery[o].stamps

(***************************************************************************)
(* The order and its delivery name the same rider once the order is        *)
(* RIDER_ASSIGNED.  Holds when the delivery job is the only assigner,      *)
(* through its attempts, failures under any of its awaits and a restart.   *)
(***************************************************************************)
RidersAgree ==
    \A o \in Orders :
        "RIDER_ASSIGNED" \in visited[o] => orderRider[o] = delivery[o].rider

\* Nobody is working on order o.
Quiet(o) == \A p \in Procs : handler[p].order # o

(***************************************************************************)
(* Once picked up, the order keeps up with its delivery: when nobody works *)
(* on it, both rows have the same status.  Holds while requests come one   *)
(* at a time, the delivery job is the only assigner and nothing fails.     *)
(* Before the pick-up it does not hold: the delivery row is there before   *)
(* the order is RIDER_ASSIGNED, and a rider who picks up in between leaves *)
(* the order behind for good.                                              *)
(***************************************************************************)
PickedUpOrderKeepsUp ==
    faults = 0 /\ crashes = 0 =>
        \A o \in Orders :
            Quiet(o) /\ "PICKED_UP" \in visited[o] =>
                status[o] = delivery[o].status

\* markReady, which has moved the order or is about to, and then adds its job.
Readying(p, o) == At(p, "readying") /\ handler[p].order = o

\* A worker that has not yet given the order to a rider.
Assigning(w, o) ==
    /\ w \in DeliveryWorkers
    /\ handler[w].order = o
    /\ \/ handler[w].pc \in {"loading", "choosing", "upserting", "occupying"}
       \/ At(w, "assigning") /\ call[w].pc \in {"read", "write", "threw"}

\* A job about the order that waits for a worker.
Queued(j, o) == jobs[j].state = "waiting" /\ jobs[j].data = o

DeadLettered(o) == \E letter \in deadLetters : letter.data = o

\* Everybody who sees to it that the order gets a rider.
Attended(o) ==
    \/ \E p \in Procs : Readying(p, o) \/ Assigning(p, o)
    \/ \E j \in Jobs : Queued(j, o)
    \/ \E letter \in letters : letter.data = o
    \/ DeadLettered(o)

\* The two ways to lose the order: markReady fails between its move and its job,
\* or the process dies with markReady or the dead letter.
LosesOrder(o) ==
    \/ \E p \in Api : Readying(p, o) /\ (HandlerThrows(p) \/ FailInHandler(p) \/ Crash)
    \/ Crash /\ \E letter \in letters : letter.data = o

(***************************************************************************)
(* An order that is READY is forgotten in no other way.  No worker ever    *)
(* drops it: whatever fails, however often no rider is available, and over *)
(* a restart, its job is run again or leaves a dead letter.                *)
(***************************************************************************)
ReadyIsNotForgotten ==
    [][\A o \in Orders :
          status'[o] = "READY" /\ (status[o] = "READY" => Attended(o)) =>
              Attended(o)' \/ LosesOrder(o)]_vars

(***************************************************************************)
(* ... and it does not wait for ever: it is assigned, or its job fails for *)
(* good and the dead letter arrives, or it is lost as said above.          *)
(***************************************************************************)
ReadyIsHandled ==
    \A o \in Orders :
        status[o] = "READY" /\ Attended(o) ~>
            status[o] # "READY" \/ DeadLettered(o) \/ ~Attended(o)

(***************************************************************************)
(* assignReadyOrder: "Only ready orders can be assigned".  An order that a *)
(* rider has picked up is not READY, and its delivery is not ASSIGNED.     *)
(***************************************************************************)
OnlyReadyOrdersAreAssigned ==
    \A o \in Orders :
        "PICKED_UP" \in visited[o] => delivery[o].status # "ASSIGNED"
=============================================================================
