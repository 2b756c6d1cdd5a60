------------------------ MODULE OrderLifecycleProofs ------------------------
(***************************************************************************)
(* Proofs about OrderLifecycle for any orders and any number of callers.   *)
(***************************************************************************)
EXTENDS OrderLifecycle, TLAPS

-----------------------------------------------------------------------------
(* The strengthening of NoStageSkipped. *)

\* The status column holds something that was written, and the first thing
\* that was written is PENDING.
HistoryStartsPending ==
    \A o \in Orders :
        /\ status[o] = NoRow => visited[o] = {}
        /\ status[o] # NoRow => status[o] \in visited[o]
        /\ visited[o] # {} => "PENDING" \in visited[o]

\* Every status that was written was entered from one that was written.
HistoryIsChained ==
    \A o \in Orders : \A s \in visited[o] :
        s = "PENDING" \/ \E r \in visited[o] : Allowed(r, s)

\* A caller about to write has seen a status the order really had, stale or
\* not, and checked the table against it.
WritesAreChecked ==
    \A p \in Procs :
        /\ call[p].pc # "idle" => call[p].order \in Orders /\ call[p].next \in Statuses
        /\ call[p].pc = "write" =>
              /\ call[p].seen \in visited[call[p].order]
              /\ Allowed(call[p].seen, call[p].next)

LifecycleInv ==
    /\ LifecycleTypeOK
    /\ HistoryStartsPending
    /\ HistoryIsChained
    /\ WritesAreChecked

-----------------------------------------------------------------------------
\* The initial states have no rows and no calls.
LEMMA LifecycleInitInv == LifecycleInit => LifecycleInv
  BY DEF LifecycleInit, LifecycleInv, LifecycleTypeOK, HistoryStartsPending,
         HistoryIsChained, WritesAreChecked, IdleCall, Calls, NoRow, Statuses

\* A row is inserted PENDING, with its history.
LEMMA InsertInv ==
  ASSUME LifecycleInv, NEW p \in Procs, NEW o \in Orders, Insert(p, o)
  PROVE  LifecycleInv'
  <1> USE DEF Insert, LifecycleInv, LifecycleTypeOK
  <1>1. LifecycleTypeOK'
    BY DEF NewCall, Calls, Statuses
  <1>2. HistoryStartsPending'
    BY DEF HistoryStartsPending, NoRow
  <1>3. HistoryIsChained'
    BY DEF HistoryIsChained
  <1>4. WritesAreChecked'
    <2> SUFFICES ASSUME NEW q \in Procs
                 PROVE  WritesAreChecked!(q)'
      BY DEF WritesAreChecked
    <2>1. CASE q = p
      BY <2>1 DEF NewCall, Statuses, Calls
    <2>2. CASE q # p
      BY <2>2 DEF WritesAreChecked, HistoryStartsPending
    <2>3. QED  BY <2>1, <2>2
  <1>5. QED  BY <1>1, <1>2, <1>3, <1>4

\* A step that moves one call within its frame, and no order.
LEMMA FrameInv ==
  ASSUME LifecycleInv, NEW p \in Procs,
         \/ \E o \in Orders, next \in Statuses : Invoke(p, o, next)
         \/ RefuseMove(p)
         \/ Announce(p)
         \/ LoseCall(p)
         \/ Return(p)
  PROVE  LifecycleInv'
  <1> USE DEF LifecycleInv, LifecycleTypeOK
  <1>1. UNCHANGED <<status, visited>>
    BY DEF Invoke, RefuseMove, Announce, LoseCall, Return
  <1>2. LifecycleTypeOK'
    BY <1>1 DEF Invoke, RefuseMove, Announce, LoseCall, Return, NewCall,
                IdleCall, Calls
  <1>3. HistoryStartsPending' /\ HistoryIsChained'
    BY <1>1 DEF HistoryStartsPending, HistoryIsChained
  <1>4. WritesAreChecked'
    BY <1>1 DEF WritesAreChecked, Invoke, RefuseMove, Announce, LoseCall,
                Return, NewCall, IdleCall, Calls
  <1>5. QED  BY <1>2, <1>3, <1>4

\* The status that is read was written at some time, and the table allows the
\* move from it.
LEMMA ReadInv ==
  ASSUME LifecycleInv, NEW p \in Procs, ReadOrder(p)
  PROVE  LifecycleInv'
  <1> USE DEF LifecycleInv, LifecycleTypeOK, ReadOrder
  <1>1. call[p].order \in Orders
    BY DEF WritesAreChecked
  <1>2. status[call[p].order] # NoRow
    BY DEF Allowed, Transitions, NoRow
  <1>3. LifecycleTypeOK'
    BY <1>1 DEF Calls
  <1>4. HistoryStartsPending' /\ HistoryIsChained'
    BY DEF HistoryStartsPending, HistoryIsChained
  <1>5. WritesAreChecked'
    BY <1>1, <1>2 DEF WritesAreChecked, HistoryStartsPending, Calls
  <1>6. QED  BY <1>3, <1>4, <1>5

\* The status that is written has the status that was seen behind it.
LEMMA WriteInv ==
  ASSUME LifecycleInv, NEW p \in Procs, WriteStatus(p)
  PROVE  LifecycleInv'
  <1> USE DEF LifecycleInv, LifecycleTypeOK, WriteStatus
  <1>1. /\ call[p].order \in Orders
        /\ call[p].next \in Statuses
        /\ call[p].seen \in visited[call[p].order]
        /\ Allowed(call[p].seen, call[p].next)
    BY DEF WritesAreChecked
  <1>2. \A o \in Orders : visited[o] \subseteq visited'[o]
    BY <1>1
  <1>3. LifecycleTypeOK'
    BY <1>1 DEF Calls
  <1>4. HistoryStartsPending'
    BY <1>1 DEF HistoryStartsPending, NoRow, Statuses
  <1>5. HistoryIsChained'
    BY <1>1, <1>2 DEF HistoryIsChained
  <1>6. WritesAreChecked'
    BY <1>1, <1>2 DEF WritesAreChecked, Calls
  <1>7. QED  BY <1>3, <1>4, <1>5, <1>6

\* Without calls nothing is about to be written.
LEMMA CrashInv == LifecycleInv /\ LoseAllCalls => LifecycleInv'
  BY DEF LifecycleInv, LifecycleTypeOK, LoseAllCalls, HistoryStartsPending,
         HistoryIsChained, WritesAreChecked, IdleCall, Calls

\* Every step of every caller keeps the invariant.
LEMMA LifecycleStepInv ==
  LifecycleInv /\ [LifecycleNext]_lifecycleVars => LifecycleInv'
  <1> SUFFICES ASSUME LifecycleInv, [LifecycleNext]_lifecycleVars
               PROVE  LifecycleInv'
    OBVIOUS
  <1>1. ASSUME NEW p \in Procs, CallerStep(p)
        PROVE  LifecycleInv'
    <2>1. CASE \E o \in Orders : Insert(p, o)
      BY <2>1, InsertInv
    <2>2. CASE \E o \in Orders, next \in Targets : Invoke(p, o, next)
      BY <2>2, FrameInv, LifecycleAssumption
    <2>3. CASE ReadOrder(p)
      BY <2>3, ReadInv
    <2>4. CASE WriteStatus(p)
      BY <2>4, WriteInv
    <2>5. CASE RefuseMove(p) \/ Announce(p) \/ LoseCall(p) \/ Return(p)
      BY <2>5, FrameInv
    <2>6. QED  BY <1>1, <2>1, <2>2, <2>3, <2>4, <2>5 DEF CallerStep
  <1>2. CASE LoseAllCalls
    BY <1>2, CrashInv
  <1>3. CASE UNCHANGED lifecycleVars
    BY <1>3 DEF LifecycleInv, LifecycleTypeOK, HistoryStartsPending,
                HistoryIsChained, WritesAreChecked, lifecycleVars
  <1>4. QED  BY <1>1, <1>2, <1>3 DEF LifecycleNext

\* The invariant holds in every reachable state.
THEOREM LifecycleInvariant == LifecycleSpec => []LifecycleInv
  BY LifecycleInitInv, LifecycleStepInv, PTL DEF LifecycleSpec

-----------------------------------------------------------------------------
\* A history that is chained back to PENDING skips no stage.
LEMMA ChainedSkipsNothing == LifecycleInv => NoStageSkipped
  <1> SUFFICES ASSUME LifecycleInv, NEW o \in Orders
               PROVE  NoStageSkipped!(o)
    BY DEF NoStageSkipped
  <1>1. \A s \in visited[o] : s = "PENDING" \/ \E r \in visited[o] : Allowed(r, s)
    BY DEF LifecycleInv, HistoryIsChained
  <1>2. visited[o] # {} => "PENDING" \in visited[o]
    BY DEF LifecycleInv, HistoryStartsPending
  <1>3. ASSUME NEW i \in 2 .. Len(MainLine), MainLine[i] \in visited[o]
        PROVE  MainLine[i - 1] \in visited[o]
    <2>1. i = 2 \/ i = 3 \/ i = 4 \/ i = 5 \/ i = 6 \/ i = 7 \/ i = 8 \/ i = 9 \/ i = 10
      BY DEF MainLine
    <2>2. i = 2 => MainLine[i - 1] \in visited[o]
      BY <1>2, <1>3 DEF MainLine
    <2>3. i # 2 => MainLine[i - 1] \in visited[o]
      BY <1>1, <1>3, <2>1 DEF MainLine, Allowed, Transitions
    <2>4. QED  BY <2>2, <2>3
  <1>4. "REJECTED" \in visited[o] => "PAID" \in visited[o]
    BY <1>1 DEF Allowed, Transitions
  <1>5. "PAYMENT_FAILED" \in visited[o] => "PAYMENT_PENDING" \in visited[o]
    BY <1>1 DEF Allowed, Transitions
  <1>6. QED  BY <1>3, <1>4, <1>5

\* No interleaving of any number of callers, no failed await and no crash lets
\* an order skip a stage of its lifecycle.
THEOREM StagesAreNotSkipped == LifecycleSpec => []NoStageSkipped
  BY LifecycleInvariant, ChainedSkipsNothing, PTL

\* The three variables hold what they are declared for, always.
THEOREM LifecycleTypes == LifecycleSpec => []LifecycleTypeOK
  <1>1. LifecycleInv => LifecycleTypeOK
    BY DEF LifecycleInv
  <1>2. QED  BY <1>1, LifecycleInvariant, PTL

-----------------------------------------------------------------------------
(* What the web shows of an order. *)

\* Whoever reached a step of the timeline has been through those before it.
LEMMA StepsAreNotSkipped ==
  ASSUME LifecycleInv, NEW o \in Orders, NEW j \in 1 .. 9, OrderSteps[j] \in visited[o],
         NEW i \in 1 .. j
  PROVE  OrderSteps[i] \in visited[o]
  <1>1. NoStageSkipped!(o)
    BY ChainedSkipsNothing DEF NoStageSkipped
  <1>2. \A k \in 2 .. 9 : OrderSteps[k] \in visited[o] => OrderSteps[k - 1] \in visited[o]
    <2> SUFFICES ASSUME NEW k \in 2 .. 9, OrderSteps[k] \in visited[o]
                 PROVE  OrderSteps[k - 1] \in visited[o]
      OBVIOUS
    <2>1. OrderSteps[k] = MainLine[k + 1] /\ OrderSteps[k - 1] = MainLine[k]
      BY DEF OrderSteps, MainLine
    <2>2. k + 1 \in 2 .. Len(MainLine)
      BY DEF MainLine
    <2>3. QED  BY <1>1, <2>1, <2>2
  <1>3. QED
    <2> DEFINE Had(k) == OrderSteps[k] \in visited[o]
    <2>1. Had(j) /\ (\A k \in 2 .. 9 : Had(k) => Had(k - 1))
      BY <1>2
    <2> HIDE DEF Had
    <2>2. Had(i)
      BY <2>1
    <2>3. QED  BY <2>2 DEF Had

\* What the timeline shows as complete is history, if the invariant holds.
LEMMA ChainedTimeline == LifecycleInv => TimelineIsHistory
  <1> SUFFICES ASSUME LifecycleInv, NEW o \in Orders, NEW step \in CompleteSteps(status[o])
               PROVE  \/ step \in visited[o]
                      \/ step = "PAYMENT_PENDING" /\ status[o] \in {"CANCELLED", "EXPIRED"}
    BY DEF TimelineIsHistory
  <1>1. CASE status[o] \in DOMAIN TerminalOrderSteps
    <2>1. status[o] \in {"CANCELLED", "PAYMENT_FAILED", "REJECTED", "EXPIRED"}
      BY <1>1 DEF TerminalOrderSteps
    <2>2. status[o] \in visited[o]
      BY <2>1 DEF LifecycleInv, HistoryStartsPending, NoRow
    <2>3. NoStageSkipped!(o)
      BY ChainedSkipsNothing DEF NoStageSkipped
    <2>4. "PAID" \in visited[o] => "PAYMENT_PENDING" \in visited[o]
      <3>1. 3 \in 2 .. Len(MainLine) /\ MainLine[3] = "PAID" /\ MainLine[2] = "PAYMENT_PENDING"
        BY DEF MainLine
      <3>2. MainLine[3] \in visited[o] => MainLine[3 - 1] \in visited[o]
        BY <2>3, <3>1
      <3>3. QED  BY <3>1, <3>2
    <2>5. step \in Before(TerminalOrderSteps[status[o]], status[o])
      BY <1>1 DEF CompleteSteps
    <2>6. CASE status[o] \in {"CANCELLED", "EXPIRED"}
      <3>1. step \in Before(<<"PAYMENT_PENDING", status[o]>>, status[o])
        BY <2>5, <2>6 DEF TerminalOrderSteps
      <3>2. step = "PAYMENT_PENDING"
        BY <3>1 DEF Before, UpTo
      <3>3. QED  BY <2>6, <3>2
    <2>7. CASE status[o] = "PAYMENT_FAILED"
      BY <2>2, <2>3, <2>5, <2>7 DEF Before, UpTo, TerminalOrderSteps
    <2>8. CASE status[o] = "REJECTED"
      BY <2>2, <2>3, <2>4, <2>5, <2>8 DEF Before, UpTo, TerminalOrderSteps
    <2>9. QED  BY <2>1, <2>6, <2>7, <2>8
  <1>2. CASE status[o] \notin DOMAIN TerminalOrderSteps
    <2>1. step \in UpTo(OrderSteps, status[o])
      BY <1>2 DEF CompleteSteps, Before
    <2>2. PICK i \in 1 .. 9, j \in 1 .. 9 : i <= j /\ step = OrderSteps[i] /\ OrderSteps[j] = status[o]
      BY <2>1 DEF UpTo, OrderSteps
    <2>3. status[o] \in visited[o]
      BY <2>2 DEF LifecycleInv, HistoryStartsPending, NoRow, OrderSteps
    <2>4. QED  BY <2>2, <2>3, StepsAreNotSkipped
  <1>3. QED  BY <1>1, <1>2

\* However many callers interleave on an order, and whatever fails, the
\* customer's timeline shows nothing as complete that the order skipped.
THEOREM TimelineTellsHistory == LifecycleSpec => []TimelineIsHistory
  BY LifecycleInvariant, ChainedTimeline, PTL

\* The statuses that a restaurant moves an order to, and a rider.
KitchenStatuses == {"ACCEPTED", "REJECTED", "PREPARING", "READY"}
RoadStatuses == {"OUT_FOR_DELIVERY", "DELIVERED"}

(***************************************************************************)
(* The buttons of the web are those of the API's table: Cancel order, the  *)
(* restaurant's four and, once the delivery is picked up and the order has *)
(* kept up with it, the rider's.  None is offered that the table refuses,  *)
(* and none is missing.                                                    *)
(***************************************************************************)
THEOREM ButtonsFollowTheTable ==
  /\ \A s \in Statuses : CanCustomerCancelOrder(s) <=> Allowed(s, "CANCELLED")
  /\ \A s \in Statuses, t \in KitchenStatuses : <<s, t>> \in RestaurantActions <=> Allowed(s, t)
  /\ \A s \in {"PICKED_UP", "OUT_FOR_DELIVERY"}, t \in RoadStatuses :
        <<s, t>> \in DeliveryActions <=> Allowed(s, t)
  BY DEF CanCustomerCancelOrder, RestaurantActions, DeliveryActions, KitchenStatuses,
         RoadStatuses, Allowed, Statuses, Transitions

-----------------------------------------------------------------------------
\* A status that an order never had comes from its insert or from a write.
LEMMA NewStatusIsWritten ==
  ASSUME LifecycleInv, [LifecycleNext]_lifecycleVars, NEW o \in Orders,
         NEW t \in Statuses \ {"PENDING"}, t \in visited'[o], t \notin visited[o]
  PROVE  \E p \in Procs : WriteStatus(p) /\ call[p].order = o /\ call[p].next = t
  <1> USE DEF LifecycleInv, LifecycleTypeOK
  <1>1. visited' # visited
    OBVIOUS
  <1>2. PICK p \in Procs : CallerStep(p)
    BY <1>1 DEF LifecycleNext, lifecycleVars, LoseAllCalls
  <1>3. ASSUME NEW r \in Orders, Insert(p, r)
        PROVE  FALSE
    BY <1>3 DEF Insert
  <1>4. WriteStatus(p)
    BY <1>1, <1>2, <1>3 DEF CallerStep, Invoke, ReadOrder, RefuseMove, Announce,
                            LoseCall, Return
  <1>5. call[p].order = o /\ call[p].next = t
    BY <1>4 DEF WriteStatus
  <1>6. QED  BY <1>4, <1>5

-----------------------------------------------------------------------------
(* One caller at a time. *)

\* With a single caller the status that is written over is the one that was
\* seen.
NothingIsStale ==
    \A p \in Procs :
        call[p].pc = "write" => status[call[p].order] = call[p].seen

\* When callers do not overlap, transitionOrder implements the abstract order
\* machine: every status change is a move of the table.
THEOREM SerialCallersFollowTheTable ==
  ASSUME \A p, q \in Procs : p = q
  PROVE  LifecycleSpec => FollowsTheTable
  <1>1. LifecycleInit => Machine!Init /\ NothingIsStale
    BY DEF LifecycleInit, Machine!Init, NothingIsStale, IdleCall, NoRow,
           Machine!NoRow
  <1>2. LifecycleInv /\ NothingIsStale /\ [LifecycleNext]_lifecycleVars
          => NothingIsStale' /\ [Machine!Next]_status
    <2> SUFFICES ASSUME LifecycleInv, NothingIsStale, [LifecycleNext]_lifecycleVars
                 PROVE  NothingIsStale' /\ [Machine!Next]_status
      OBVIOUS
    <2> USE DEF LifecycleInv, LifecycleTypeOK, NothingIsStale
    <2>1. ASSUME NEW p \in Procs, CallerStep(p)
          PROVE  NothingIsStale' /\ [Machine!Next]_status
      <3>1. ASSUME NEW o \in Orders, Insert(p, o)
            PROVE  NothingIsStale' /\ [Machine!Next]_status
        <4>1. NothingIsStale'
          BY <3>1 DEF Insert, NewCall
        <4>2. Machine!Place(o)
          BY <3>1 DEF Insert, Machine!Place, NoRow, Machine!NoRow
        <4>3. QED  BY <4>1, <4>2 DEF Machine!Next
      <3>2. CASE WriteStatus(p)
        <4>1. NothingIsStale'
          BY <3>2 DEF WriteStatus
        <4>2. /\ call[p].order \in Orders
              /\ call[p].next \in Statuses
              /\ Allowed(status[call[p].order], call[p].next)
          BY <3>2 DEF WriteStatus, WritesAreChecked
        <4>3. Machine!Move(call[p].order, call[p].next)
          BY <3>2, <4>2 DEF WriteStatus, Machine!Move, Allowed, Machine!Allowed,
                            Transitions, Machine!Transitions
        <4>4. Machine!Next
          BY <4>2, <4>3 DEF Machine!Next, Statuses, Machine!Statuses
        <4>5. QED  BY <4>1, <4>4
      <3>3. CASE \E o \in Orders, next \in Targets : Invoke(p, o, next)
        BY <3>3 DEF Invoke, NewCall
      <3>4. CASE ReadOrder(p)
        BY <3>4 DEF ReadOrder, WritesAreChecked, Calls
      <3>5. CASE RefuseMove(p) \/ Announce(p) \/ LoseCall(p) \/ Return(p)
        BY <3>5 DEF RefuseMove, Announce, LoseCall, Return, IdleCall, Calls
      <3>6. QED  BY <2>1, <3>1, <3>2, <3>3, <3>4, <3>5 DEF CallerStep
    <2>2. CASE LoseAllCalls
      BY <2>2 DEF LoseAllCalls, IdleCall
    <2>3. CASE UNCHANGED lifecycleVars
      BY <2>3 DEF lifecycleVars
    <2>4. QED  BY <2>1, <2>2, <2>3 DEF LifecycleNext
  <1>3. QED
    BY <1>1, <1>2, LifecycleInvariant, PTL
       DEF LifecycleSpec, FollowsTheTable, Machine!Spec
=============================================================================
