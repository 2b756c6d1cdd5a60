------------------------------- MODULE Access -------------------------------
(***************************************************************************)
(* Who may call what: the endpoints of the API's controllers with their    *)
(* JwtAuthGuard / RolesGuard decorators, and the ownership checks that the *)
(* services make on an order before they read or move it.                  *)
(***************************************************************************)

Roles == {"CUSTOMER", "RESTAURANT_OWNER", "RIDER", "ADMINISTRATOR"}

OwnerRoles == {"RESTAURANT_OWNER", "ADMINISTRATOR"}

-----------------------------------------------------------------------------
\* AuthController, and the public controllers: no guard.
AuthOpen == {"auth.register", "auth.registerOwner", "auth.login",
             "auth.refresh", "auth.logout"}
PublicOpen == {"app.index", "health.check", "metrics.get"}
RestaurantsOpen == {"restaurants.findAll", "restaurants.findPopularItems",
                    "restaurants.findOne", "restaurants.findMenu"}
RidersOpen == {"riders.register"}

OpenEndpoints == AuthOpen \cup PublicOpen \cup RestaurantsOpen \cup RidersOpen

\* JwtAuthGuard without RolesGuard: any role.
NotificationsEndpoints == {"notifications.findMine"}

\* @Roles on the class: CustomersController.
CustomersEndpoints == {"customers.findProfile", "customers.updateProfile",
                       "customers.findOrderHistory"}

OrdersOfCustomer == {"orders.create", "orders.findMine", "orders.cancel"}

PaymentsEndpoints == {"payments.findForOrder", "payments.retry"}

OrderAnswers == {"restaurants.accept", "restaurants.reject",
                 "restaurants.preparing", "restaurants.ready"}
RestaurantsManaged == {"restaurants.findOrders", "restaurants.create",
                       "restaurants.update", "restaurants.updateStatus",
                       "restaurants.createMenuItem", "restaurants.updateMenuItem",
                       "restaurants.removeMenuItem"} \cup OrderAnswers

DeliveryMoves == {"riders.accept", "riders.pickUp", "riders.outForDelivery",
                  "riders.deliver"}
RidersOwn == {"riders.findProfile", "riders.updateAvailability",
              "riders.findDeliveryHistory"} \cup DeliveryMoves

Endpoints == OpenEndpoints \cup NotificationsEndpoints \cup CustomersEndpoints
             \cup OrdersOfCustomer \cup {"orders.findOne"} \cup PaymentsEndpoints
             \cup RestaurantsManaged \cup RidersOwn
             \cup {"riders.assign", "auth.registerRole"}

\* The roles a guarded endpoint lets through.
AllowedRoles(e) ==
    CASE e \in CustomersEndpoints \cup OrdersOfCustomer -> {"CUSTOMER"}
      [] e \in PaymentsEndpoints -> {"CUSTOMER", "ADMINISTRATOR"}
      [] e \in RestaurantsManaged \cup {"riders.assign"} -> OwnerRoles
      [] e \in RidersOwn -> {"RIDER"}
      [] e = "auth.registerRole" -> {"ADMINISTRATOR"}
      [] OTHER -> Roles

\* JwtAuthGuard.canActivate: a bearer token whose verification gives a role.
Authenticated(bearer) == bearer \in Roles

\* RolesGuard.canActivate.
RoleSuffices(e, bearer) == bearer \in AllowedRoles(e)

\* What the guards of e answer a bearer: 200 stands for the handler's turn.
GuardStatus(e, bearer) ==
    IF e \in OpenEndpoints THEN 200
    ELSE IF ~Authenticated(bearer) THEN 401
    ELSE IF ~RoleSuffices(e, bearer) THEN 403 ELSE 200

Passes(e, bearer) == GuardStatus(e, bearer) = 200

-----------------------------------------------------------------------------
(***************************************************************************)
(* Ownership.  A user is [id, role]; an order is [customer, owner, rider], *)
(* the user ids of its customer, its restaurant's owner and its rider.     *)
(***************************************************************************)
\* OrdersService.assertCanViewOrder.
MayView(user, order) ==
    \/ user.role = "ADMINISTRATOR"
    \/ order.customer = user.id
    \/ user.role = "RESTAURANT_OWNER" /\ order.owner = user.id
    \/ user.role = "RIDER" /\ order.rider = user.id

\* OrdersService.cancel.
MayCancel(user, order) == order.customer = user.id

\* PaymentsService.assertCanAccessOrder.
MayPay(user, order) ==
    \/ user.role = "ADMINISTRATOR"
    \/ user.role = "CUSTOMER" /\ order.customer = user.id

\* RestaurantsService.assertOrderBelongsToManagedRestaurant.
MayAnswer(user, order) == user.role = "ADMINISTRATOR" \/ order.owner = user.id

\* RidersService.assertCanAssignOrder.
MayAssign(user, order) ==
    \/ user.role = "ADMINISTRATOR"
    \/ user.role = "RESTAURANT_OWNER" /\ order.owner = user.id

\* RidersService.findOwnedDelivery: the delivery's rider (the order's rider is
\* the same one, see Dispatch).
MayDeliver(user, order) == order.rider = user.id

\* The guards and the service let the user act on the order through e.
MayAct(e, user, order) ==
    /\ Passes(e, user.role)
    /\ \/ e = "orders.cancel" /\ MayCancel(user, order)
       \/ e \in PaymentsEndpoints /\ MayPay(user, order)
       \/ e \in OrderAnswers /\ MayAnswer(user, order)
       \/ e = "riders.assign" /\ MayAssign(user, order)
       \/ e \in DeliveryMoves /\ MayDeliver(user, order)
=============================================================================
