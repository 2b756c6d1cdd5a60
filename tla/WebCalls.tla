------------------------------ MODULE WebCalls ------------------------------
(***************************************************************************)
(* What the web application asks of the API, and as whom: the query and    *)
(* mutation hooks of its features, each of which fixes the role whose      *)
(* access token it sends (withRoleAccessToken) and, through a repository   *)
(* of lib/api, the endpoint.  Access says what the API makes of it; no     *)
(* type and no build step holds the two packages together.                 *)
(***************************************************************************)
EXTENDS Access

\* DevelopmentRole, as the role of the demo account that the web logs in with.
WebRoles == {"CUSTOMER", "RESTAURANT_OWNER", "RIDER"}

-----------------------------------------------------------------------------
(***************************************************************************)
(* The hooks, as pairs of a role and an endpoint.                          *)
(***************************************************************************)
\* Without a token: the catalogue, the session, the landing page.
CatalogueCalls == {"restaurants.findAll", "restaurants.findOne",
                   "restaurants.findMenu", "restaurants.findPopularItems"}
SessionCalls == {"auth.login", "auth.refresh"}
HealthCalls == {"health.check"}
OpenCalls == CatalogueCalls \cup SessionCalls \cup HealthCalls

\* useCustomerProfile, useUpdateCustomerProfile.
ProfileCalls == {"CUSTOMER"} \X {"customers.findProfile", "customers.updateProfile"}

\* useOrderDetail sends the token of whichever role is active.
OrderDetailCalls == WebRoles \X {"orders.findOne"}

\* useCustomerOrders, useCreateOrder, useCancelOrder, useRetryPayment.
OrderCalls ==
    {"CUSTOMER"} \X {"orders.findMine", "orders.create", "orders.cancel", "payments.retry"}

\* useRestaurantOrders to useUpdateMenuItem.
PortalCalls ==
    {"RESTAURANT_OWNER"} \X
        {"restaurants.findOrders", "restaurants.updateStatus", "restaurants.accept",
         "restaurants.reject", "restaurants.preparing", "restaurants.ready",
         "restaurants.createMenuItem", "restaurants.updateMenuItem"}

\* useRiderProfile to useUpdateDelivery.
RiderCalls ==
    {"RIDER"} \X {"riders.findProfile", "riders.findDeliveryHistory",
                  "riders.updateAvailability", "riders.accept", "riders.pickUp",
                  "riders.outForDelivery", "riders.deliver"}

RoleCalls == ProfileCalls \cup OrderDetailCalls \cup OrderCalls \cup PortalCalls \cup RiderCalls

-----------------------------------------------------------------------------
(***************************************************************************)
(* The pages that show an order, and the calls that their buttons make.    *)
(***************************************************************************)
\* The order's page for a customer, the orders page of a restaurant, and the
\* delivery page of a rider show the user an order.
Shows(user, order) ==
    \/ user.role = "CUSTOMER" /\ MayView(user, order)
    \/ user.role = "RESTAURANT_OWNER" /\ order.owner = user.id
    \/ user.role = "RIDER" /\ order.rider = user.id

\* Cancel order and Retry payment; Accept to Mark ready; Accept delivery to
\* Mark delivered.
ButtonCalls(role) ==
    {e \in {"orders.cancel", "payments.retry"} : role = "CUSTOMER"}
        \cup {e \in OrderAnswers : role = "RESTAURANT_OWNER"}
        \cup {e \in DeliveryMoves : role = "RIDER"}

-----------------------------------------------------------------------------
(***************************************************************************)
(* The guards of the API let every call of the web through, with the token *)
(* of the role that the hook names, or with none: no page is built on a    *)
(* call that ends in 401, 403 or on a route that is not there.  (The       *)
(* hooks' roles and the controllers' @Roles are written down separately.)  *)
(***************************************************************************)
WebCallsAreServed ==
    /\ OpenCalls \subseteq OpenEndpoints
    /\ \A c \in RoleCalls : c[2] \in Endpoints /\ Passes(c[2], c[1])
=============================================================================
