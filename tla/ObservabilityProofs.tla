------------------------ MODULE ObservabilityProofs ------------------------
(***************************************************************************)
(* Proofs about Observability, and the HttpPipeline in it, for any number  *)
(* of requests, any calls, and any number of outages, mishaps and          *)
(* restarts; and what the ownership checks of Access have to do with each  *)
(* other.                                                                  *)
(***************************************************************************)
EXTENDS Observability, WebCalls, FiniteSetTheorems, TLAPS

USE PipelineAssumption, ObservabilityAssumption

-----------------------------------------------------------------------------
(* Ownership. *)

(* Whoever may act on an order - cancel, pay, answer, assign, deliver: five *)
(* checks in three services - may also read it: OrdersService.findOne does *)
(* not refuse the page of an order to a user who works on it. *)
THEOREM ActorsMayView ==
  ASSUME NEW e \in Endpoints, NEW user, NEW order, MayAct(e, user, order)
  PROVE  MayView(user, order)
  <1>1. \A f : Passes(f, user.role) /\ f \notin OpenEndpoints => RoleSuffices(f, user.role)
    BY DEF Passes, GuardStatus
  <1>2. CASE e = "orders.cancel" /\ MayCancel(user, order)
    BY <1>2 DEF MayCancel, MayView
  <1>3. CASE e \in PaymentsEndpoints /\ MayPay(user, order)
    BY <1>3 DEF MayPay, MayView
  <1>4. CASE e \in OrderAnswers /\ MayAnswer(user, order)
    <2>1. e \notin OpenEndpoints /\ e \in RestaurantsManaged
      BY <1>4 DEF OrderAnswers, OpenEndpoints, AuthOpen, PublicOpen, RestaurantsOpen,
                  RidersOpen, RestaurantsManaged
    <2>2. AllowedRoles(e) = OwnerRoles
      BY <1>4 DEF AllowedRoles, RestaurantsManaged, OrderAnswers, CustomersEndpoints,
                  OrdersOfCustomer, PaymentsEndpoints, RidersOwn, DeliveryMoves
    <2>3. user.role \in OwnerRoles
      BY <1>1, <2>1, <2>2 DEF MayAct, RoleSuffices
    <2>4. QED  BY <1>4, <2>3 DEF OwnerRoles, MayAnswer, MayView
  <1>5. CASE e = "riders.assign" /\ MayAssign(user, order)
    BY <1>5 DEF MayAssign, MayView
  <1>6. CASE e \in DeliveryMoves /\ MayDeliver(user, order)
    <2>1. e \notin OpenEndpoints
      BY <1>6 DEF DeliveryMoves, OpenEndpoints, AuthOpen, PublicOpen, RestaurantsOpen, RidersOpen
    <2>2. AllowedRoles(e) = {"RIDER"}
      BY <1>6 DEF AllowedRoles, RestaurantsManaged, OrderAnswers, CustomersEndpoints,
                  OrdersOfCustomer, PaymentsEndpoints, RidersOwn, DeliveryMoves
    <2>3. user.role = "RIDER"
      BY <1>1, <2>1, <2>2 DEF MayAct, RoleSuffices
    <2>4. QED  BY <1>6, <2>3 DEF MayDeliver, MayView
  <1>7. QED  BY <1>2, <1>3, <1>4, <1>5, <1>6 DEF MayAct
(* The endpoints by the roles they let through. *)
LEMMA GuardedEndpoints ==
  /\ \A e \in CustomersEndpoints \cup OrdersOfCustomer :
        e \notin OpenEndpoints /\ AllowedRoles(e) = {"CUSTOMER"}
  /\ \A e \in PaymentsEndpoints :
        e \notin OpenEndpoints /\ AllowedRoles(e) = {"CUSTOMER", "ADMINISTRATOR"}
  /\ \A e \in RestaurantsManaged : e \notin OpenEndpoints /\ AllowedRoles(e) = OwnerRoles
  /\ \A e \in RidersOwn : e \notin OpenEndpoints /\ AllowedRoles(e) = {"RIDER"}
  /\ "orders.findOne" \notin OpenEndpoints /\ AllowedRoles("orders.findOne") = Roles
  <1> USE DEF OpenEndpoints, AuthOpen, PublicOpen, RestaurantsOpen, RidersOpen,
              CustomersEndpoints, OrdersOfCustomer, PaymentsEndpoints, OrderAnswers,
              RestaurantsManaged, DeliveryMoves, RidersOwn
  <1>1. \A e \in CustomersEndpoints \cup OrdersOfCustomer :
           e \notin OpenEndpoints /\ AllowedRoles(e) = {"CUSTOMER"}
    BY DEF AllowedRoles
  <1>2. \A e \in PaymentsEndpoints :
           e \notin OpenEndpoints /\ AllowedRoles(e) = {"CUSTOMER", "ADMINISTRATOR"}
    BY DEF AllowedRoles
  <1>3. \A e \in RestaurantsManaged : e \notin OpenEndpoints /\ AllowedRoles(e) = OwnerRoles
    BY DEF AllowedRoles
  <1>4. \A e \in RidersOwn : e \notin OpenEndpoints /\ AllowedRoles(e) = {"RIDER"}
    BY DEF AllowedRoles
  <1>5. "orders.findOne" \notin OpenEndpoints /\ AllowedRoles("orders.findOne") = Roles
    BY DEF AllowedRoles
  <1>6. QED  BY <1>1, <1>2, <1>3, <1>4, <1>5

(* The roles that the hooks of the web name are those the controllers ask  *)
(* for: no call of the web is refused by a guard while its token is valid. *)
THEOREM WebIsServed == WebCallsAreServed
  <1>1. OpenCalls \subseteq OpenEndpoints
    BY DEF OpenCalls, CatalogueCalls, SessionCalls, HealthCalls, OpenEndpoints, AuthOpen,
           PublicOpen, RestaurantsOpen, RidersOpen
  <1>2. \A c \in RoleCalls : c[2] \in Endpoints
    BY DEF RoleCalls, ProfileCalls, OrderDetailCalls, OrderCalls, PortalCalls, RiderCalls,
           Endpoints, CustomersEndpoints, OrdersOfCustomer, PaymentsEndpoints, OrderAnswers,
           RestaurantsManaged, DeliveryMoves, RidersOwn
  <1>3. \A c \in ProfileCalls \cup OrderCalls : Passes(c[2], c[1])
    <2>1. \A c \in ProfileCalls \cup OrderCalls :
             c[1] = "CUSTOMER" /\ c[2] \in CustomersEndpoints \cup OrdersOfCustomer
                                                \cup PaymentsEndpoints
      BY DEF ProfileCalls, OrderCalls, CustomersEndpoints, OrdersOfCustomer, PaymentsEndpoints
    <2>2. QED  BY <2>1, GuardedEndpoints DEF Passes, GuardStatus, Authenticated, RoleSuffices, Roles
  <1>4. \A c \in OrderDetailCalls : Passes(c[2], c[1])
    <2>1. \A c \in OrderDetailCalls : c[1] \in Roles /\ c[2] = "orders.findOne"
      BY DEF OrderDetailCalls, WebRoles, Roles
    <2>2. QED  BY <2>1, GuardedEndpoints DEF Passes, GuardStatus, Authenticated, RoleSuffices
  <1>5. \A c \in PortalCalls : Passes(c[2], c[1])
    <2>1. \A c \in PortalCalls : c[1] = "RESTAURANT_OWNER" /\ c[2] \in RestaurantsManaged
      BY DEF PortalCalls, RestaurantsManaged, OrderAnswers
    <2>2. QED  BY <2>1, GuardedEndpoints
               DEF Passes, GuardStatus, Authenticated, RoleSuffices, Roles, OwnerRoles
  <1>6. \A c \in RiderCalls : Passes(c[2], c[1])
    <2>1. \A c \in RiderCalls : c[1] = "RIDER" /\ c[2] \in RidersOwn
      BY DEF RiderCalls, RidersOwn, DeliveryMoves
    <2>2. QED  BY <2>1, GuardedEndpoints DEF Passes, GuardStatus, Authenticated, RoleSuffices, Roles
  <1>7. QED  BY <1>1, <1>2, <1>3, <1>4, <1>5, <1>6 DEF WebCallsAreServed, RoleCalls

(* A button of the web is never refused for who presses it: whoever a page *)
(* shows an order to may make every call that the page's buttons make, by  *)
(* the guards and by the ownership check of the service behind each call,  *)
(* whatever users own the order. *)
THEOREM ButtonsAreGranted ==
  ASSUME NEW user, NEW order, Shows(user, order), NEW e \in ButtonCalls(user.role)
  PROVE  MayAct(e, user, order)
  <1>1. CASE user.role = "CUSTOMER"
    <2>1. e \in {"orders.cancel", "payments.retry"} /\ order.customer = user.id
      BY <1>1 DEF ButtonCalls, Shows, MayView
    <2>2. Passes(e, user.role)
      BY <1>1, <2>1, GuardedEndpoints
      DEF Passes, GuardStatus, Authenticated, RoleSuffices, Roles, OrdersOfCustomer, PaymentsEndpoints
    <2>3. QED  BY <1>1, <2>1, <2>2 DEF MayAct, MayCancel, MayPay, PaymentsEndpoints
  <1>2. CASE user.role = "RESTAURANT_OWNER"
    <2>1. e \in OrderAnswers /\ order.owner = user.id
      BY <1>2 DEF ButtonCalls, Shows
    <2>2. e \in RestaurantsManaged
      BY <2>1 DEF RestaurantsManaged
    <2>3. Passes(e, user.role)
      BY <1>2, <2>2, GuardedEndpoints
      DEF Passes, GuardStatus, Authenticated, RoleSuffices, Roles, OwnerRoles
    <2>4. QED  BY <2>1, <2>3 DEF MayAct, MayAnswer
  <1>3. CASE user.role = "RIDER"
    <2>1. e \in DeliveryMoves /\ order.rider = user.id
      BY <1>3 DEF ButtonCalls, Shows
    <2>2. e \in RidersOwn
      BY <2>1 DEF RidersOwn
    <2>3. Passes(e, user.role)
      BY <1>3, <2>2, GuardedEndpoints
      DEF Passes, GuardStatus, Authenticated, RoleSuffices, Roles
    <2>4. QED  BY <2>1, <2>3 DEF MayAct, MayDeliver
  <1>4. QED  BY <1>1, <1>2, <1>3 DEF Shows

-----------------------------------------------------------------------------
(* The inductive invariant. *)

\* What has been counted of a request, stage by stage.
CountedSoFar ==
    \A r \in Requests :
        LET q == request[r] IN
        /\ q.stage = "routed" => ~q.entered /\ counted[r] = <<>>
        /\ q.stage = "inside" => counted[r] = <<>>
        /\ q.stage = "replying" => counted[r] = <<200>>
        /\ q.stage = "thrown" =>
              /\ q.thrown \in Exceptions
              /\ q.entered => counted[r] = <<CountedStatus(q.thrown)>>

PipelineInv ==
    /\ PipelineTypeOK
    /\ CountedSoFar
    /\ CountedAsAnswered
    /\ ActiveCountsInside

\* retryStrategy gives up in time.
AttemptsBounded == client.state = "reconnecting" => client.attempt <= MaxAttempts

\* The results that a fresh check holds are still true.
ChecksKnow ==
    \A r \in Requests :
        /\ ~IsHealth(r) => check[r] = NoCheck
        /\ check[r].fresh =>
              /\ check[r].postgres # "pending" => (check[r].postgres = "ok" <=> databaseUp)
              /\ check[r].redis # "pending" => (check[r].redis = "ok" <=> RedisAnswers)

ObservabilityInv ==
    /\ ObservabilityTypeOK
    /\ PipelineInv
    /\ AttemptsBounded
    /\ ChecksKnow
    /\ RefreshedGauges

-----------------------------------------------------------------------------
(* The pipeline. *)

\* The requests inside at a route.
InsideAt(e) == {r \in Inside : request[r].endpoint = e}

LEMMA InsideAtFinite ==
  ASSUME NEW e
  PROVE  IsFiniteSet(InsideAt(e)) /\ Cardinality(InsideAt(e)) \in Nat
  <1>1. InsideAt(e) \subseteq Requests
    BY DEF InsideAt, Inside
  <1>2. IsFiniteSet(InsideAt(e))
    BY <1>1, FS_Subset
  <1>3. QED  BY <1>2, FS_CardinalityType

LEMMA ActiveByRoute ==
  ActiveCountsInside <=> \A e \in Routes : active[e] = Cardinality(InsideAt(e))
  BY DEF ActiveCountsInside, InsideAt

\* The statuses that the interceptor and the filter work out.
LEMMA SameStatus ==
  ASSUME NEW exception \in Exceptions
  PROVE  /\ CountedStatus(exception) = FilterStatus(exception)
         /\ CountedStatus(exception) \in HttpStatuses
  BY DEF Exceptions, HttpExceptions, PlainError, CountedStatus, FilterStatus, HttpStatuses

LEMMA PipelineInitInv ==
  ASSUME PipelineInit
  PROVE  PipelineInv
  <1> USE DEF PipelineInit
  <1>1. NoRequest \in RequestRecords
    BY DEF NoRequest, RequestRecords, Stages, Routes
  <1>2. PipelineTypeOK
    BY <1>1 DEF PipelineTypeOK
  <1>3. CountedSoFar /\ CountedAsAnswered
    BY DEF CountedSoFar, CountedAsAnswered, NoRequest
  <1>4. ActiveCountsInside
    <2>1. \A e \in Routes : InsideAt(e) = {}
      BY DEF InsideAt, Inside, NoRequest
    <2>2. QED  BY <2>1, FS_EmptySet, ActiveByRoute
  <1>5. QED  BY <1>2, <1>3, <1>4 DEF PipelineInv

\* A step of one request that stays out of the handler.
LEMMA StaysOutside ==
  ASSUME PipelineInv, NEW r \in Requests, NEW q,
         request' = [request EXCEPT ![r] = q],
         request[r].stage # "inside", q.stage # "inside", active' = active
  PROVE  ActiveCountsInside'
  <1>1. \A e \in Routes : InsideAt(e)' = InsideAt(e)
    BY DEF PipelineInv, PipelineTypeOK, InsideAt, Inside
  <1>2. \A e \in Routes : active[e] = Cardinality(InsideAt(e))
    BY ActiveByRoute DEF PipelineInv
  <1>3. \A e \in Routes : active'[e] = Cardinality(InsideAt(e)')
    BY <1>1, <1>2
  <1>4. QED  BY <1>3 DEF ActiveCountsInside, InsideAt

LEMMA NoRequestType == NoRequest \in RequestRecords /\ ~NoRequest.entered
  BY DEF NoRequest, RequestRecords, Stages, Routes

LEMMA BeginInv ==
  ASSUME PipelineInv, NEW r \in Requests, NEW q \in RequestRecords, Begin(r, q), ~q.entered,
         \/ q.stage = "routed"
         \/ q.stage = "thrown" /\ q.thrown \in Exceptions
  PROVE  PipelineInv'
  <1>1. /\ request' = [request EXCEPT ![r] = q]
        /\ counted' = [counted EXCEPT ![r] = <<>>]
        /\ UNCHANGED <<active, restarts>>
        /\ request[r].stage # "inside"
    BY DEF Begin
  <1>2. PipelineTypeOK'
    <2>1. <<>> \in Seq(HttpStatuses)
      OBVIOUS
    <2>2. QED  BY <1>1, <2>1 DEF PipelineInv, PipelineTypeOK
  <1>3. CountedSoFar' /\ CountedAsAnswered'
    BY <1>1 DEF PipelineInv, PipelineTypeOK, CountedSoFar, CountedAsAnswered
  <1>4. ActiveCountsInside'
    BY <1>1, StaysOutside
  <1>5. QED  BY <1>2, <1>3, <1>4 DEF PipelineInv

LEMMA ReceiveInv ==
  ASSUME PipelineInv, NEW r \in Requests, Receive(r)
  PROVE  PipelineInv'
  <1>1. CASE ArriveUnreadable(r)
    <2>1. PICK exception \in {400, PlainError} :
             Begin(r, [NoRequest EXCEPT !.stage = "thrown", !.thrown = exception])
      BY <1>1 DEF ArriveUnreadable
    <2> DEFINE q == [NoRequest EXCEPT !.stage = "thrown", !.thrown = exception]
    <2>2. q \in RequestRecords /\ q.stage = "thrown" /\ q.thrown \in Exceptions /\ ~q.entered
      <3>1. exception \in Exceptions /\ "thrown" \in Stages
        BY DEF Exceptions, HttpExceptions, Stages
      <3>2. QED  BY <3>1, NoRequestType DEF RequestRecords
    <2>3. Begin(r, q)
      BY <2>1
    <2> HIDE DEF q
    <2>4. QED  BY <2>2, <2>3, BeginInv
  <1>2. ASSUME NEW c \in Calls, Arrive(r, c)
        PROVE  PipelineInv'
    <2> DEFINE q == [NoRequest EXCEPT !.stage = "routed", !.endpoint = c.endpoint,
                                      !.bearer = c.bearer]
    <2>1. q \in RequestRecords /\ q.stage = "routed" /\ ~q.entered
      <3>1. c.endpoint \in Routes /\ c.bearer \in Roles \cup {NoToken} /\ "routed" \in Stages
        BY DEF Routes, Stages
      <3>2. QED  BY <3>1, NoRequestType DEF RequestRecords
    <2>2. Begin(r, q)
      BY <1>2 DEF Arrive
    <2> HIDE DEF q
    <2>3. QED  BY <2>1, <2>2, BeginInv
  <1>3. QED  BY <1>1, <1>2 DEF Receive

LEMMA RefuseInv ==
  ASSUME PipelineInv, NEW r \in Requests, Refuse(r)
  PROVE  PipelineInv'
  <1> DEFINE refusal == IF request[r].endpoint = NoRoute THEN 404
                        ELSE GuardStatus(request[r].endpoint, request[r].bearer)
             q == [request[r] EXCEPT !.stage = "thrown", !.thrown = refusal]
  <1>1. /\ request[r].stage = "routed"
        /\ refusal # 200
        /\ UNCHANGED <<active, counted, restarts>>
    BY DEF Refuse
  <1>2. request' = [request EXCEPT ![r] = q]
    BY DEF Refuse, PipelineInv, PipelineTypeOK
  <1>3. refusal \in {401, 403, 404}
    BY <1>1 DEF GuardStatus
  <1> HIDE DEF refusal
  <1>5. /\ q \in RequestRecords
        /\ q.stage = "thrown"
        /\ q.thrown = refusal
        /\ ~q.entered
    <2>0. ~request[r].entered
      BY <1>1 DEF PipelineInv, CountedSoFar
    <2>1. request[r] \in RequestRecords
      BY DEF PipelineInv, PipelineTypeOK
    <2>2. refusal \in Exceptions
      BY <1>3 DEF Exceptions, HttpExceptions
    <2>3. QED  BY <2>0, <2>1, <2>2 DEF RequestRecords, Stages
  <1>6. refusal \in Exceptions
    BY <1>3 DEF Exceptions, HttpExceptions
  <1> HIDE DEF q
  <1>7. PipelineTypeOK'
    BY <1>1, <1>2, <1>5 DEF PipelineInv, PipelineTypeOK
  <1>9. CountedSoFar' /\ CountedAsAnswered'
    <2>1. request'[r] = q /\ \A t \in Requests : t # r => request'[t] = request[t]
      BY <1>2 DEF PipelineInv, PipelineTypeOK
    <2>2. QED
      BY <1>1, <1>5, <1>6, <2>1 DEF PipelineInv, CountedSoFar, CountedAsAnswered
  <1>10. ActiveCountsInside'
    BY <1>1, <1>2, <1>5, StaysOutside
  <1>11. QED  BY <1>7, <1>9, <1>10 DEF PipelineInv

LEMMA EnterInv ==
  ASSUME PipelineInv, NEW r \in Requests, Enter(r)
  PROVE  PipelineInv'
  <1> DEFINE q == [request[r] EXCEPT !.stage = "inside", !.entered = TRUE]
  <1>0. PICK route \in Routes : route = request[r].endpoint
    BY DEF PipelineInv, PipelineTypeOK, RequestRecords
  <1>1. /\ request[r].stage = "routed"
        /\ active' = [active EXCEPT ![route] = @ + 1]
        /\ UNCHANGED <<counted, restarts>>
    BY <1>0 DEF Enter
  <1>2. request' = [request EXCEPT ![r] = q]
    BY DEF Enter, PipelineInv, PipelineTypeOK
  <1>3. request[r] \in RequestRecords
    BY DEF PipelineInv, PipelineTypeOK
  <1>4. /\ q \in RequestRecords
        /\ q.stage = "inside"
        /\ q.endpoint = route
    BY <1>0, <1>3 DEF RequestRecords, Stages
  <1>5. PipelineTypeOK'
    <2>1. active' \in [Routes -> Nat]
      BY <1>1, <1>4 DEF PipelineInv, PipelineTypeOK
    <2>2. QED  BY <1>1, <1>2, <1>4, <2>1 DEF PipelineInv, PipelineTypeOK
  <1> HIDE DEF q
  <1>6. request'[r] = q /\ \A t \in Requests : t # r => request'[t] = request[t]
    BY <1>2 DEF PipelineInv, PipelineTypeOK
  <1>7. CountedSoFar' /\ CountedAsAnswered'
    <2>1. counted[r] = <<>>
      BY <1>1 DEF PipelineInv, CountedSoFar
    <2>2. QED
      BY <1>1, <1>4, <1>6, <2>1 DEF PipelineInv, CountedSoFar, CountedAsAnswered
  <1>8. ActiveCountsInside'
    <2>1. InsideAt(route)' = InsideAt(route) \cup {r} /\ r \notin InsideAt(route)
      BY <1>0, <1>1, <1>4, <1>6 DEF InsideAt, Inside
    <2>2. \A e \in Routes : e # route => InsideAt(e)' = InsideAt(e)
      BY <1>0, <1>1, <1>4, <1>6 DEF InsideAt, Inside
    <2>3. Cardinality(InsideAt(route) \cup {r}) = Cardinality(InsideAt(route)) + 1
      BY <2>1, InsideAtFinite, FS_AddElement
    <2>4. \A e \in Routes : active[e] = Cardinality(InsideAt(e))
      BY ActiveByRoute DEF PipelineInv
    <2>5. ASSUME NEW e \in Routes
          PROVE  active'[e] = Cardinality(InsideAt(e)')
      <3>1. active'[route] = active[route] + 1
        BY <1>1, <1>4 DEF PipelineInv, PipelineTypeOK
      <3>2. CASE e = route
        BY <1>4, <2>1, <2>3, <2>4, <3>1, <3>2
      <3>3. CASE e # route
        <4>1. active'[e] = active[e]
          BY <1>1, <1>4, <3>3 DEF PipelineInv, PipelineTypeOK
        <4>2. QED  BY <2>2, <2>4, <3>3, <4>1
      <3>4. QED  BY <3>2, <3>3
    <2>6. QED  BY <2>5 DEF ActiveCountsInside, InsideAt
  <1>9. QED  BY <1>5, <1>7, <1>8 DEF PipelineInv

LEMMA LeaveInv ==
  ASSUME PipelineInv, NEW r \in Requests, NEW status \in HttpStatuses,
         NEW stage \in {"replying", "thrown"}, NEW exception \in Exceptions \cup {NoException},
         stage = "replying" => status = 200,
         stage = "thrown" => exception \in Exceptions /\ status = CountedStatus(exception),
         Leave(r, stage, exception, status)
  PROVE  PipelineInv'
  <1> DEFINE q == [request[r] EXCEPT !.stage = stage, !.thrown = exception]
  <1>0. PICK route \in Routes : route = request[r].endpoint
    BY DEF PipelineInv, PipelineTypeOK, RequestRecords
  <1>1. /\ request[r].stage = "inside"
        /\ counted' = [counted EXCEPT ![r] = Append(@, status)]
        /\ active' = [active EXCEPT ![route] = @ - 1]
        /\ UNCHANGED restarts
    BY <1>0 DEF Leave
  <1>2. request' = [request EXCEPT ![r] = q]
    BY DEF Leave, PipelineInv, PipelineTypeOK
  <1>3. request[r] \in RequestRecords
    BY DEF PipelineInv, PipelineTypeOK
  <1>4. /\ q \in RequestRecords
        /\ q.stage = stage
        /\ q.thrown = exception
        /\ q.endpoint = route
    BY <1>0, <1>3 DEF RequestRecords, Stages
  <1> HIDE DEF q
  <1>5. request'[r] = q /\ \A t \in Requests : t # r => request'[t] = request[t]
    BY <1>2 DEF PipelineInv, PipelineTypeOK
  <1>6. counted[r] = <<>>
    BY <1>1 DEF PipelineInv, CountedSoFar
  <1>7. counted'[r] = <<status>> /\ \A t \in Requests : t # r => counted'[t] = counted[t]
    BY <1>1, <1>6 DEF PipelineInv, PipelineTypeOK
  <1>8. ActiveCountsInside' /\ active' \in [Routes -> Nat]
    <2>1. InsideAt(route)' = InsideAt(route) \ {r} /\ r \in InsideAt(route)
      BY <1>0, <1>1, <1>4, <1>5 DEF InsideAt, Inside
    <2>2. \A e \in Routes : e # route => InsideAt(e)' = InsideAt(e)
      BY <1>0, <1>1, <1>4, <1>5 DEF InsideAt, Inside
    <2>3. /\ Cardinality(InsideAt(route) \ {r}) = Cardinality(InsideAt(route)) - 1
          /\ Cardinality(InsideAt(route) \ {r}) \in Nat
      BY <2>1, InsideAtFinite, FS_RemoveElement, FS_CardinalityType
    <2>4. \A e \in Routes : active[e] = Cardinality(InsideAt(e))
      BY ActiveByRoute DEF PipelineInv
    <2>5. ASSUME NEW e \in Routes
          PROVE  active'[e] = Cardinality(InsideAt(e)')
      <3>1. active'[route] = active[route] - 1
        BY <1>1, <1>4 DEF PipelineInv, PipelineTypeOK
      <3>2. CASE e = route
        BY <1>4, <2>1, <2>3, <2>4, <3>1, <3>2
      <3>3. CASE e # route
        <4>1. active'[e] = active[e]
          BY <1>1, <1>4, <3>3 DEF PipelineInv, PipelineTypeOK
        <4>2. QED  BY <2>2, <2>4, <3>3, <4>1
      <3>4. QED  BY <3>2, <3>3
    <2>6. active'[route] \in Nat
      <3>1. active'[route] = active[route] - 1
        BY <1>1, <1>4 DEF PipelineInv, PipelineTypeOK
      <3>2. QED  BY <2>3, <2>4, <3>1
    <2>7. active' \in [Routes -> Nat]
      BY <1>1, <1>4, <2>6 DEF PipelineInv, PipelineTypeOK
    <2>8. QED  BY <2>5, <2>7 DEF ActiveCountsInside, InsideAt
  <1>9. PipelineTypeOK'
    <2>1. counted' \in [Requests -> Seq(HttpStatuses)]
      <3>1. Append(counted[r], status) \in Seq(HttpStatuses)
        BY DEF PipelineInv, PipelineTypeOK
      <3>2. QED  BY <1>1, <3>1 DEF PipelineInv, PipelineTypeOK
    <2>2. QED  BY <1>1, <1>2, <1>4, <1>8, <2>1 DEF PipelineInv, PipelineTypeOK
  <1>10. CountedSoFar' /\ CountedAsAnswered'
    <2>1. q.stage = "thrown" => counted'[r] = <<CountedStatus(q.thrown)>>
      BY <1>4, <1>7
    <2>2. q.stage = "replying" => counted'[r] = <<200>>
      BY <1>4, <1>7
    <2>3. QED
      BY <1>4, <1>5, <1>7, <2>1, <2>2 DEF PipelineInv, CountedSoFar, CountedAsAnswered
  <1>11. QED  BY <1>8, <1>9, <1>10 DEF PipelineInv

LEMMA AnswerInv ==
  ASSUME PipelineInv, NEW r \in Requests, Answer(r)
  PROVE  PipelineInv'
  <1> DEFINE status == IF request[r].stage = "thrown"
                       THEN FilterStatus(request[r].thrown) ELSE 200
             q == [NoRequest EXCEPT !.stage = "answered", !.entered = request[r].entered,
                                    !.status = status]
  <1>1. /\ request[r].stage \in {"replying", "thrown"}
        /\ UNCHANGED <<active, counted, restarts>>
    BY DEF Answer
  <1>2. request' = [request EXCEPT ![r] = q]
    BY DEF Answer, PipelineInv, PipelineTypeOK
  <1>3. request[r] \in RequestRecords
    BY DEF PipelineInv, PipelineTypeOK
  <1>4. /\ status \in HttpStatuses
        /\ request[r].stage = "thrown" => status = CountedStatus(request[r].thrown)
        /\ request[r].stage = "replying" => status = 200
    <2>1. request[r].stage = "thrown" => request[r].thrown \in Exceptions
      BY DEF PipelineInv, CountedSoFar
    <2>2. 200 \in HttpStatuses
      BY DEF HttpStatuses
    <2>3. CASE request[r].stage = "thrown"
      BY <2>1, <2>3, SameStatus
    <2>4. CASE request[r].stage = "replying"
      BY <2>2, <2>4
    <2>5. QED  BY <1>1, <2>3, <2>4
  <1> HIDE DEF status
  <1>5. /\ q \in RequestRecords
        /\ q.stage = "answered"
        /\ q.status = status
        /\ q.entered = request[r].entered
    <2>1. request[r].entered \in BOOLEAN
      BY <1>3 DEF RequestRecords
    <2>2. "answered" \in Stages /\ status \in HttpStatuses \cup {0}
      BY <1>4 DEF Stages
    <2>3. QED  BY <2>1, <2>2, NoRequestType DEF RequestRecords
  <1> HIDE DEF q
  <1>6. request'[r] = q /\ \A t \in Requests : t # r => request'[t] = request[t]
    BY <1>2 DEF PipelineInv, PipelineTypeOK
  <1>7. PipelineTypeOK'
    BY <1>1, <1>2, <1>5 DEF PipelineInv, PipelineTypeOK
  <1>8. q.entered => counted[r] = <<q.status>>
    <2>1. CASE request[r].stage = "thrown"
      BY <1>4, <1>5, <2>1 DEF PipelineInv, CountedSoFar
    <2>2. CASE request[r].stage = "replying"
      BY <1>4, <1>5, <2>2 DEF PipelineInv, CountedSoFar
    <2>3. QED  BY <1>1, <2>1, <2>2
  <1>9. CountedSoFar' /\ CountedAsAnswered'
    BY <1>1, <1>5, <1>6, <1>8 DEF PipelineInv, CountedSoFar, CountedAsAnswered
  <1>10. ActiveCountsInside'
    BY <1>1, <1>2, <1>5, StaysOutside
  <1>11. QED  BY <1>7, <1>9, <1>10 DEF PipelineInv

LEMMA RestartInv ==
  ASSUME PipelineInv, RestartPipeline
  PROVE  PipelineInv'
  <1>1. \A r \in Requests : request[r] \in RequestRecords
    BY DEF PipelineInv, PipelineTypeOK
  <1>2. \A r \in Requests :
            /\ request'[r] \in RequestRecords
            /\ \/ request'[r].stage = "lost"
               \/ request'[r] = request[r] /\ request[r].stage \in {"idle", "answered", "lost"}
    <2>1. ASSUME NEW r \in Requests, r \in InFlight
          PROVE  request'[r] \in RequestRecords /\ request'[r].stage = "lost"
      <3>1. "lost" \in Stages /\ request'[r] = [NoRequest EXCEPT !.stage = "lost"]
        BY <2>1 DEF Stages, RestartPipeline
      <3>2. QED  BY <3>1, NoRequestType DEF RequestRecords
    <2>2. ASSUME NEW r \in Requests, r \notin InFlight
          PROVE  request'[r] = request[r] /\ request[r].stage \in {"idle", "answered", "lost"}
      BY <1>1, <2>2 DEF RestartPipeline, InFlight, RequestRecords, Stages
    <2>3. QED  BY <1>1, <2>1, <2>2
  <1>3. PipelineTypeOK'
    <2>1. request' \in [Requests -> RequestRecords]
      BY <1>2 DEF RestartPipeline
    <2>2. active' \in [Routes -> Nat] /\ restarts' \in 0 .. MaxRestarts /\ UNCHANGED counted
      BY DEF RestartPipeline, PipelineInv, PipelineTypeOK
    <2>3. QED  BY <2>1, <2>2 DEF PipelineInv, PipelineTypeOK
  <1>4. CountedSoFar' /\ CountedAsAnswered'
    BY <1>2 DEF RestartPipeline, PipelineInv, CountedSoFar, CountedAsAnswered
  <1>5. ActiveCountsInside'
    <2>1. \A e \in Routes : InsideAt(e)' = {}
      BY <1>2 DEF InsideAt, Inside
    <2>2. \A e \in Routes : active'[e] = Cardinality(InsideAt(e)')
      BY <2>1, FS_EmptySet DEF RestartPipeline
    <2>3. QED  BY <2>2 DEF ActiveCountsInside, InsideAt
  <1>6. QED  BY <1>3, <1>4, <1>5 DEF PipelineInv
-----------------------------------------------------------------------------
(* The pipeline in Observability. *)

\* What no step of the pipeline touches.
LEMMA PipelineStutter ==
  ASSUME PipelineInv, UNCHANGED pipelineVars
  PROVE  PipelineInv'
  BY DEF pipelineVars, PipelineInv, PipelineTypeOK, CountedSoFar, CountedAsAnswered,
         ActiveCountsInside, Inside

LEMMA CompleteInv ==
  ASSUME PipelineInv, NEW r \in Requests, Complete(r)
  PROVE  PipelineInv'
  <1>1. 200 \in HttpStatuses
    BY DEF HttpStatuses
  <1>2. QED  BY <1>1, LeaveInv DEF Complete

LEMMA ThrowInv ==
  ASSUME PipelineInv, NEW r \in Requests, NEW exception \in Exceptions, Throw(r, exception)
  PROVE  PipelineInv'
  BY LeaveInv, SameStatus DEF Throw

LEMMA StepPipelineInv ==
  ASSUME PipelineInv, [Next]_vars
  PROVE  PipelineInv'
  <1>1. ASSUME NEW r \in Requests, Receive(r)
        PROVE  PipelineInv'
    BY <1>1, ReceiveInv
  <1>2. ASSUME NEW r \in Requests, RefuseRequest(r)
        PROVE  PipelineInv'
    BY <1>2, RefuseInv DEF RefuseRequest
  <1>3. ASSUME NEW r \in Requests, EnterRequest(r)
        PROVE  PipelineInv'
    BY <1>3, EnterInv DEF EnterRequest
  <1>4. ASSUME NEW r \in Requests, FinishHandler(r)
        PROVE  PipelineInv'
    BY <1>4, CompleteInv, ThrowInv DEF FinishHandler
  <1>5. ASSUME NEW r \in Requests, FinishCheck(r)
        PROVE  PipelineInv'
    BY <1>5, CompleteInv DEF FinishCheck
  <1>6. ASSUME NEW r \in Requests, AnswerRequest(r)
        PROVE  PipelineInv'
    BY <1>6, AnswerInv DEF AnswerRequest
  <1>7. CASE Restart
    BY <1>7, RestartInv DEF Restart
  <1>8. ASSUME NEW r \in Requests, SettleQuery(r) \/ SettlePing(r) \/ TimeOutPing(r)
        PROVE  UNCHANGED pipelineVars
    BY <1>8 DEF SettleQuery, SettlePing, TimeOutPing
  <1>9. CASE DatabaseFails \/ DatabaseRecovers \/ QueryFails \/ RedisFails \/ RedisRecovers
             \/ Reconnect
    <2>1. UNCHANGED pipelineVars
      BY <1>9 DEF DatabaseFails, DatabaseRecovers, QueryFails, RedisFails, RedisRecovers, Reconnect
    <2>2. QED  BY <2>1, PipelineStutter
  <1>10. CASE UNCHANGED vars
    BY <1>10, PipelineStutter DEF vars
  <1>11. QED
    BY <1>1, <1>2, <1>3, <1>4, <1>5, <1>6, <1>7, <1>8, <1>9, <1>10, PipelineStutter
       DEF Next, RequestStep, Environment
-----------------------------------------------------------------------------
(* The dependencies. *)

\* The fields of a health check, and what the steps write into them.
LEMMA CheckFields ==
  ASSUME NEW c \in CheckRecords
  PROVE  /\ c = [postgres |-> c.postgres, redis |-> c.redis, fresh |-> c.fresh]
         /\ {c.postgres, c.redis} \subseteq Results
         /\ c.fresh \in BOOLEAN
  BY DEF CheckRecords

LEMMA NoCheckType == NoCheck \in CheckRecords
  BY DEF NoCheck, CheckRecords, Results

\* A field of one check is written.
LEMMA WrittenCheck ==
  ASSUME NEW c \in CheckRecords, NEW result \in Results, NEW fresh \in BOOLEAN
  PROVE  /\ [c EXCEPT !.postgres = result] \in CheckRecords
         /\ [c EXCEPT !.redis = result] \in CheckRecords
         /\ [c EXCEPT !.fresh = fresh] \in CheckRecords
         /\ [c EXCEPT !.redis = result, !.fresh = fresh] \in CheckRecords
  BY DEF CheckRecords

\* A check whose dependency changed.
LEMMA OutdatedChecks ==
  ASSUME check \in [Requests -> CheckRecords]
  PROVE  /\ Outdate \in [Requests -> CheckRecords]
         /\ \A r \in Requests : /\ ~Outdate[r].fresh
                                /\ check[r] = NoCheck => Outdate[r] = NoCheck
  <1>1. ASSUME NEW r \in Requests
        PROVE  [check[r] EXCEPT !.fresh = FALSE] \in CheckRecords
    BY WrittenCheck DEF Results
  <1>2. ASSUME NEW r \in Requests
        PROVE  ~[check[r] EXCEPT !.fresh = FALSE].fresh
    BY DEF CheckRecords
  <1>3. [NoCheck EXCEPT !.fresh = FALSE] = NoCheck
    <2>1. ASSUME NEW c \in CheckRecords, c.fresh = FALSE
          PROVE  [c EXCEPT !.fresh = FALSE] = c
      BY <2>1 DEF CheckRecords
    <2>2. NoCheck.fresh = FALSE
      BY DEF NoCheck
    <2>3. QED  BY <2>1, <2>2, NoCheckType
  <1>4. QED  BY <1>1, <1>2, <1>3 DEF Outdate

\* The client's states.
LEMMA ClientTypes ==
  /\ Ready \in Clients
  /\ \A n \in 1 .. MaxAttempts + 1 :
        /\ AfterClose(n) \in Clients
        /\ AfterClose(n).state = "reconnecting" => AfterClose(n).attempt <= MaxAttempts
  BY DEF Ready, AfterClose, Clients, MaxAttempts

\* The dependencies keep their types.
DependencyTypeOK ==
    /\ check \in [Requests -> CheckRecords]
    /\ databaseUp \in BOOLEAN
    /\ redisUp \in BOOLEAN
    /\ client \in Clients
    /\ databaseGauge \in BOOLEAN
    /\ redisGauge \in BOOLEAN
    /\ refreshed \in BOOLEAN
    /\ outages \in 0 .. MaxOutages
    /\ mishaps \in 0 .. MaxMishaps

LEMMA RequestDependencyTypes ==
  ASSUME DependencyTypeOK, NEW r \in Requests, RequestStep(r) \/ TimeOutPing(r)
  PROVE  DependencyTypeOK'
  <1> USE DEF DependencyTypeOK
  <1>0. {"ok", "error"} \subseteq Results
    BY DEF Results
  <1>1. CASE RefuseRequest(r) \/ FinishHandler(r) \/ AnswerRequest(r)
    BY <1>1 DEF RefuseRequest, FinishHandler, AnswerRequest, gaugeVars, dependencyVars
  <1>2. CASE EnterRequest(r)
    <2>1. IsHealthCall(r) \in BOOLEAN
      BY DEF IsHealthCall
    <2>2. check' \in [Requests -> CheckRecords]
      BY <1>2, <2>1, WrittenCheck DEF EnterRequest, Results
    <2>3. QED  BY <1>2, <2>2 DEF EnterRequest, gaugeVars, dependencyVars
  <1>3. CASE SettleQuery(r)
    <2>1. check' \in [Requests -> CheckRecords]
      BY <1>0, <1>3, WrittenCheck DEF SettleQuery
    <2>2. databaseGauge' \in BOOLEAN
      BY <1>3 DEF SettleQuery
    <2>3. QED  BY <1>3, <2>1, <2>2 DEF SettleQuery, dependencyVars
  <1>4. CASE SettlePing(r)
    <2>1. check' \in [Requests -> CheckRecords]
      BY <1>0, <1>4, WrittenCheck DEF SettlePing
    <2>2. redisGauge' \in BOOLEAN
      BY <1>4 DEF SettlePing, RedisAnswers
    <2>3. QED  BY <1>4, <2>1, <2>2 DEF SettlePing, dependencyVars
  <1>5. CASE TimeOutPing(r)
    <2>1. check' \in [Requests -> CheckRecords]
      BY <1>0, <1>5, WrittenCheck DEF TimeOutPing
    <2>2. mishaps' \in 0 .. MaxMishaps
      BY <1>5 DEF TimeOutPing
    <2>3. QED  BY <1>5, <2>1, <2>2 DEF TimeOutPing
  <1>6. CASE FinishCheck(r)
    <2>1. check' \in [Requests -> CheckRecords]
      BY <1>6, NoCheckType DEF FinishCheck
    <2>2. databaseGauge' \in BOOLEAN /\ redisGauge' \in BOOLEAN /\ refreshed' \in BOOLEAN
      BY <1>6, CheckFields DEF FinishCheck
    <2>3. QED  BY <1>6, <2>1, <2>2 DEF FinishCheck, dependencyVars
  <1>7. QED  BY <1>1, <1>2, <1>3, <1>4, <1>5, <1>6 DEF RequestStep

LEMMA EnvironmentDependencyTypes ==
  ASSUME DependencyTypeOK, AttemptsBounded, Environment \/ Reconnect
  PROVE  DependencyTypeOK' /\ AttemptsBounded'
  <1> USE DEF DependencyTypeOK
  <1>0. 1 \in 1 .. MaxAttempts + 1 /\ Ready.state = "ready"
    BY DEF MaxAttempts, Ready
  <1>1. CASE DatabaseFails
    <2>1. check' \in [Requests -> CheckRecords]
      BY <1>1, OutdatedChecks DEF DatabaseFails
    <2>2. databaseGauge' \in BOOLEAN
      BY <1>1 DEF DatabaseFails
    <2>3. outages' \in 0 .. MaxOutages
      BY <1>1 DEF DatabaseFails
    <2>4. /\ UNCHANGED <<redisGauge, redisUp, client, mishaps>>
          /\ databaseUp' \in BOOLEAN /\ refreshed' \in BOOLEAN
      BY <1>1 DEF DatabaseFails
    <2>5. QED  BY <2>1, <2>2, <2>3, <2>4 DEF AttemptsBounded
  <1>2. CASE DatabaseRecovers
    <2>1. check' \in [Requests -> CheckRecords]
      BY <1>2, OutdatedChecks DEF DatabaseRecovers
    <2>2. /\ UNCHANGED <<databaseGauge, redisGauge, redisUp, client, outages, mishaps>>
          /\ databaseUp' \in BOOLEAN /\ refreshed' \in BOOLEAN
      BY <1>2 DEF DatabaseRecovers
    <2>3. QED  BY <2>1, <2>2 DEF AttemptsBounded
  <1>3. CASE RedisFails
    <2>1. check' \in [Requests -> CheckRecords]
      BY <1>3, OutdatedChecks DEF RedisFails
    <2>2. client' = AfterClose(1) /\ UNCHANGED <<databaseGauge, databaseUp, mishaps>>
      BY <1>3 DEF RedisFails
    <2>3. client' \in Clients /\ AttemptsBounded'
      <3>1. /\ AfterClose(1) \in Clients
            /\ AfterClose(1).state = "reconnecting" => AfterClose(1).attempt <= MaxAttempts
        BY <1>0, ClientTypes
      <3>2. QED  BY <2>2, <3>1 DEF AttemptsBounded
    <2>4. redisGauge' \in BOOLEAN
      BY <1>3 DEF RedisFails
    <2>5. outages' \in 0 .. MaxOutages
      BY <1>3 DEF RedisFails
    <2>6. redisUp' \in BOOLEAN /\ refreshed' \in BOOLEAN
      BY <1>3 DEF RedisFails
    <2>7. QED  BY <2>1, <2>2, <2>3, <2>4, <2>5, <2>6
  <1>4. CASE Reconnect
    <2>1. check' \in [Requests -> CheckRecords]
      BY <1>4, OutdatedChecks DEF Reconnect
    <2>2. client.attempt + 1 \in 1 .. MaxAttempts + 1
      BY <1>4 DEF Reconnect, AttemptsBounded, Clients, MaxAttempts
    <2>3. client' \in Clients /\ AttemptsBounded'
      BY <1>0, <1>4, <2>2, ClientTypes DEF Reconnect, AttemptsBounded
    <2>4. QED  BY <1>4, <2>1, <2>3 DEF Reconnect
  <1>5. CASE Restart
    <2>1. check' \in [Requests -> CheckRecords]
      BY <1>5, NoCheckType DEF Restart
    <2>2. client' \in Clients /\ AttemptsBounded'
      BY <1>0, <1>5, ClientTypes DEF Restart, AttemptsBounded
    <2>3. QED  BY <1>5, <2>1, <2>2 DEF Restart
  <1>6. CASE QueryFails
    <2>1. mishaps' \in 0 .. MaxMishaps
      BY <1>6 DEF QueryFails
    <2>2. /\ UNCHANGED <<redisGauge, check, databaseUp, redisUp, client, outages>>
          /\ databaseGauge' \in BOOLEAN /\ refreshed' \in BOOLEAN
      BY <1>6 DEF QueryFails
    <2>3. QED  BY <2>1, <2>2 DEF AttemptsBounded
  <1>7. CASE RedisRecovers
    <2>1. /\ redisUp' \in BOOLEAN
          /\ UNCHANGED <<databaseUp, client, outages, mishaps, gaugeVars, check>>
      BY <1>7 DEF RedisRecovers
    <2>2. QED  BY <2>1 DEF gaugeVars, AttemptsBounded
  <1>8. QED  BY <1>1, <1>2, <1>3, <1>4, <1>5, <1>6, <1>7 DEF Environment

LEMMA StepDependencyTypes ==
  ASSUME DependencyTypeOK, AttemptsBounded, [Next]_vars
  PROVE  DependencyTypeOK' /\ AttemptsBounded'
  <1>1. ASSUME UNCHANGED <<check, gaugeVars, dependencyVars>>
        PROVE  DependencyTypeOK' /\ AttemptsBounded'
    BY <1>1 DEF DependencyTypeOK, AttemptsBounded, gaugeVars, dependencyVars
  <1>2. ASSUME NEW r \in Requests, RequestStep(r) \/ TimeOutPing(r)
        PROVE  DependencyTypeOK' /\ AttemptsBounded'
    <2>1. UNCHANGED client
      BY <1>2 DEF RequestStep, RefuseRequest, EnterRequest, FinishHandler, SettleQuery,
                  SettlePing, TimeOutPing, FinishCheck, AnswerRequest, dependencyVars
    <2>2. QED  BY <1>2, <2>1, RequestDependencyTypes DEF AttemptsBounded
  <1>3. QED
    BY <1>1, <1>2, EnvironmentDependencyTypes DEF Next, Receive, vars
-----------------------------------------------------------------------------
(* The gauges. *)

Gauges == ChecksKnow /\ RefreshedGauges

\* A step of a request other than a health check's own leaves every health
\* check where it is.
LEMMA HealthChecksStay ==
  ASSUME PipelineTypeOK, NEW r \in Requests,
         Receive(r) \/ RefuseRequest(r) \/ FinishHandler(r) \/ AnswerRequest(r)
  PROVE  \A t \in Requests : IsHealth(t) => IsHealth(t)'
  <1>1. \A t \in Requests : t # r => request'[t] = request[t]
    BY DEF PipelineTypeOK, Receive, Arrive, ArriveUnreadable, Begin, RefuseRequest, Refuse,
           FinishHandler, Complete, Throw, Leave, AnswerRequest, Answer
  <1>2. ~IsHealth(r)
    BY DEF Receive, Arrive, ArriveUnreadable, Begin, RefuseRequest, Refuse, FinishHandler,
           AnswerRequest, Answer, IsHealth
  <1>3. QED  BY <1>1, <1>2 DEF IsHealth, IsHealthCall

\* Nothing about the dependencies changes.
LEMMA GaugesStutter ==
  ASSUME Gauges, UNCHANGED <<check, gaugeVars, databaseUp, client>>,
         \A t \in Requests : IsHealth(t) => IsHealth(t)'
  PROVE  Gauges'
  BY DEF Gauges, ChecksKnow, RefreshedGauges, gaugeVars, RedisAnswers

\* A dependency changes, or may have.
LEMMA GaugesOutdated ==
  ASSUME DependencyTypeOK, Gauges, check' = Outdate, ~refreshed', UNCHANGED request
  PROVE  Gauges'
  <1>1. \A t \in Requests : IsHealth(t)' <=> IsHealth(t)
    BY DEF IsHealth, IsHealthCall
  <1>2. \A t \in Requests : ~check'[t].fresh /\ (check[t] = NoCheck => check'[t] = NoCheck)
    BY OutdatedChecks DEF DependencyTypeOK
  <1>3. QED  BY <1>1, <1>2 DEF Gauges, ChecksKnow, RefreshedGauges

\* A health check takes a step.
LEMMA CheckGauges ==
  ASSUME PipelineTypeOK, DependencyTypeOK, Gauges, NEW r \in Requests,
         EnterRequest(r) \/ SettleQuery(r) \/ SettlePing(r) \/ TimeOutPing(r) \/ FinishCheck(r)
  PROVE  Gauges'
  <1> USE DEF Gauges
  <1>1. ASSUME NEW t \in Requests, t # r
        PROVE  /\ request'[t] = request[t] /\ (IsHealth(t)' <=> IsHealth(t))
               /\ check'[t] = check[t]
    <2>1. request'[t] = request[t]
      BY <1>1 DEF PipelineTypeOK, EnterRequest, Enter, SettleQuery, SettlePing, TimeOutPing,
                  FinishCheck, Complete, Leave, pipelineVars
    <2>2. check'[t] = check[t]
      BY <1>1 DEF DependencyTypeOK, EnterRequest, SettleQuery, SettlePing, TimeOutPing, FinishCheck
    <2>3. QED  BY <2>1, <2>2 DEF IsHealth, IsHealthCall
  <1>2. UNCHANGED <<databaseUp, client>> /\ (RedisAnswers' <=> RedisAnswers)
    BY DEF EnterRequest, SettleQuery, SettlePing, TimeOutPing, FinishCheck, dependencyVars,
           RedisAnswers
  <1>3. ASSUME /\ ~IsHealth(r)' => check'[r] = NoCheck
               /\ check'[r].fresh =>
                     /\ check'[r].postgres # "pending" => (check'[r].postgres = "ok" <=> databaseUp)
                     /\ check'[r].redis # "pending" => (check'[r].redis = "ok" <=> RedisAnswers)
        PROVE  ChecksKnow'
    BY <1>1, <1>2, <1>3 DEF ChecksKnow
  <1>4. check[r] \in CheckRecords
    BY DEF DependencyTypeOK
  <1>5. CASE EnterRequest(r)
    <2>1. /\ check[r] = NoCheck
          /\ check' = [check EXCEPT ![r].fresh = IsHealthCall(r)]
          /\ UNCHANGED gaugeVars
      BY <1>5 DEF ChecksKnow, EnterRequest, Enter, IsHealth
    <2>2. IsHealth(r)' <=> IsHealthCall(r)
      <3>1. /\ request'[r] = [request[r] EXCEPT !.stage = "inside", !.entered = TRUE]
            /\ request[r] \in RequestRecords
        BY <1>5 DEF EnterRequest, Enter, PipelineTypeOK
      <3>2. request'[r].stage = "inside" /\ request'[r].endpoint = request[r].endpoint
        BY <3>1 DEF RequestRecords
      <3>3. QED  BY <3>2 DEF IsHealth, IsHealthCall
    <2>3. check'[r] = [NoCheck EXCEPT !.fresh = IsHealthCall(r)]
      BY <2>1 DEF DependencyTypeOK
    <2>4. /\ check'[r].postgres = "pending" /\ check'[r].redis = "pending"
          /\ ~IsHealthCall(r) => check'[r] = NoCheck
      BY <2>3 DEF NoCheck, IsHealthCall
    <2>5. RefreshedGauges'
      BY <1>2, <2>1 DEF RefreshedGauges, gaugeVars
    <2>6. QED  BY <1>3, <2>2, <2>4, <2>5
  <1>6. CASE SettleQuery(r)
    <2>1. IsHealth(r)'
      BY <1>6 DEF SettleQuery, pipelineVars, IsHealth, IsHealthCall
    <2>2. /\ check'[r].postgres = (IF databaseUp THEN "ok" ELSE "error")
          /\ check'[r].redis = check[r].redis
          /\ check'[r].fresh = check[r].fresh
      BY <1>4, <1>6 DEF SettleQuery, DependencyTypeOK, CheckRecords
    <2>3. RefreshedGauges'
      BY <1>2, <1>6 DEF SettleQuery, RefreshedGauges, DependencyTypeOK
    <2>4. QED  BY <1>3, <2>1, <2>2, <2>3 DEF ChecksKnow
  <1>7. CASE SettlePing(r)
    <2>1. IsHealth(r)'
      BY <1>7 DEF SettlePing, pipelineVars, IsHealth, IsHealthCall
    <2>2. /\ check'[r].redis = (IF RedisAnswers THEN "ok" ELSE "error")
          /\ check'[r].postgres = check[r].postgres
          /\ check'[r].fresh = check[r].fresh
      BY <1>4, <1>7 DEF SettlePing, DependencyTypeOK, CheckRecords
    <2>3. RefreshedGauges'
      BY <1>2, <1>7 DEF SettlePing, RefreshedGauges
    <2>4. QED  BY <1>3, <2>1, <2>2, <2>3 DEF ChecksKnow
  <1>8. CASE TimeOutPing(r)
    <2>1. IsHealth(r)'
      BY <1>8 DEF TimeOutPing, pipelineVars, IsHealth, IsHealthCall
    <2>2. ~check'[r].fresh /\ ~refreshed'
      BY <1>4, <1>8 DEF TimeOutPing, DependencyTypeOK, CheckRecords
    <2>3. QED  BY <1>3, <2>1, <2>2 DEF RefreshedGauges
  <1>9. CASE FinishCheck(r)
    <2>1. check'[r] = NoCheck /\ ~check'[r].fresh
      BY <1>9 DEF FinishCheck, DependencyTypeOK, NoCheck
    <2>2. /\ check[r].postgres # "pending" /\ check[r].redis # "pending"
          /\ databaseGauge' = (check[r].postgres = "ok")
          /\ redisGauge' = (check[r].redis = "ok")
          /\ refreshed' = check[r].fresh
      BY <1>9 DEF FinishCheck
    <2>3. refreshed' => (databaseGauge' <=> databaseUp) /\ (redisGauge' <=> RedisAnswers)
      BY <2>2 DEF ChecksKnow
    <2>4. RefreshedGauges'
      BY <1>2, <2>2, <2>3 DEF RefreshedGauges, DependencyTypeOK, RedisAnswers
    <2>5. QED  BY <1>3, <2>1, <2>4
  <1>10. QED  BY <1>5, <1>6, <1>7, <1>8, <1>9

LEMMA StepGauges ==
  ASSUME PipelineTypeOK, DependencyTypeOK, Gauges, [Next]_vars
  PROVE  Gauges'
  <1>1. ASSUME NEW r \in Requests,
               Receive(r) \/ RefuseRequest(r) \/ FinishHandler(r) \/ AnswerRequest(r)
        PROVE  Gauges'
    <2>1. UNCHANGED <<check, gaugeVars, databaseUp, client>>
      BY <1>1 DEF Receive, RefuseRequest, FinishHandler, AnswerRequest, dependencyVars
    <2>2. QED  BY <1>1, <2>1, HealthChecksStay, GaugesStutter
  <1>2. CASE DatabaseFails \/ DatabaseRecovers \/ RedisFails \/ Reconnect
    BY <1>2, GaugesOutdated
       DEF DatabaseFails, DatabaseRecovers, RedisFails, Reconnect, pipelineVars
  <1>3. CASE QueryFails
    <2>1. UNCHANGED <<check, databaseUp, client, request>> /\ ~refreshed'
      BY <1>3 DEF QueryFails, pipelineVars
    <2>2. QED
      BY <2>1 DEF Gauges, ChecksKnow, RefreshedGauges, RedisAnswers, IsHealth, IsHealthCall
  <1>4. CASE RedisRecovers \/ UNCHANGED vars
    <2>1. UNCHANGED <<check, gaugeVars, databaseUp, client, request>>
      BY <1>4 DEF RedisRecovers, pipelineVars, dependencyVars, vars
    <2>2. \A t \in Requests : IsHealth(t) => IsHealth(t)'
      BY <2>1 DEF IsHealth, IsHealthCall
    <2>3. QED  BY <2>1, <2>2, GaugesStutter
  <1>5. CASE Restart
    <2>1. \A t \in Requests : check'[t] = NoCheck /\ ~check'[t].fresh
      BY <1>5 DEF Restart, NoCheck
    <2>2. ~refreshed'
      BY <1>5 DEF Restart
    <2>3. QED  BY <2>1, <2>2 DEF Gauges, ChecksKnow, RefreshedGauges
  <1>6. QED
    BY <1>1, <1>2, <1>3, <1>4, <1>5, CheckGauges DEF Next, RequestStep, Environment
-----------------------------------------------------------------------------
(* What follows. *)

LEMMA ObservabilityInvParts ==
  ObservabilityInv <=> PipelineInv /\ DependencyTypeOK /\ AttemptsBounded /\ Gauges
  BY DEF ObservabilityInv, ObservabilityTypeOK, DependencyTypeOK, PipelineInv, Gauges

(* The invariant holds in every state of every behaviour. *)
THEOREM ObservabilityInvariant == Spec => []ObservabilityInv
  <1>1. Init => ObservabilityInv
    <2> SUFFICES ASSUME Init PROVE ObservabilityInv
      OBVIOUS
    <2>1. PipelineInv
      BY PipelineInitInv DEF Init
    <2>2. DependencyTypeOK
      <3>1. check \in [Requests -> CheckRecords] /\ client \in Clients
        BY NoCheckType, ClientTypes DEF Init
      <3>2. /\ databaseUp \in BOOLEAN /\ redisUp \in BOOLEAN
            /\ databaseGauge \in BOOLEAN /\ redisGauge \in BOOLEAN /\ refreshed \in BOOLEAN
        BY DEF Init
      <3>3. outages \in 0 .. MaxOutages /\ mishaps \in 0 .. MaxMishaps
        BY DEF Init
      <3>4. QED  BY <3>1, <3>2, <3>3 DEF DependencyTypeOK
    <2>3. AttemptsBounded
      BY DEF Init, AttemptsBounded, Ready
    <2>4. Gauges
      BY DEF Init, Gauges, ChecksKnow, RefreshedGauges, NoCheck
    <2>5. QED  BY <2>1, <2>2, <2>3, <2>4, ObservabilityInvParts
  <1>2. ObservabilityInv /\ [Next]_vars => ObservabilityInv'
    <2> SUFFICES ASSUME ObservabilityInv, [Next]_vars PROVE ObservabilityInv'
      OBVIOUS
    <2>1. PipelineInv /\ DependencyTypeOK /\ AttemptsBounded /\ Gauges /\ PipelineTypeOK
      BY ObservabilityInvParts DEF PipelineInv
    <2>2. PipelineInv' /\ DependencyTypeOK' /\ AttemptsBounded' /\ Gauges'
      BY <2>1, StepPipelineInv, StepDependencyTypes, StepGauges
    <2>3. QED
      BY <2>2 DEF ObservabilityInv, ObservabilityTypeOK, DependencyTypeOK, PipelineInv, Gauges
  <1>3. QED  BY <1>1, <1>2, PTL DEF Spec

(* Requests, metrics, checks and clients have their types; the active gauge *)
(* never goes below zero. *)
THEOREM ObservabilityTypes == Spec => []ObservabilityTypeOK
  <1>1. ObservabilityInv => ObservabilityTypeOK
    BY DEF ObservabilityInv
  <1>2. QED  BY <1>1, ObservabilityInvariant, PTL

(* A request that reaches the interceptors is counted once, as what it is  *)
(* answered. *)
THEOREM RequestsAreCountedAsAnswered == Spec => []CountedAsAnswered
  <1>1. ObservabilityInv => CountedAsAnswered
    BY DEF ObservabilityInv, PipelineInv
  <1>2. QED  BY <1>1, ObservabilityInvariant, PTL

(* The gauge of active requests is what its name says. *)
THEOREM ActiveRequestsAreInside == Spec => []ActiveCountsInside
  <1>1. ObservabilityInv => ActiveCountsInside
    BY DEF ObservabilityInv, PipelineInv
  <1>2. QED  BY <1>1, ObservabilityInvariant, PTL

(* A health check refreshes the dependency gauges. *)
THEOREM HealthChecksRefresh == Spec => []RefreshedGauges
  <1>1. ObservabilityInv => RefreshedGauges
    BY DEF ObservabilityInv
  <1>2. QED  BY <1>1, ObservabilityInvariant, PTL
=============================================================================
