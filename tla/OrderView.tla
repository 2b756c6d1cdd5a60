----------------------------- MODULE OrderView -----------------------------
(***************************************************************************)
(* What the web application makes of an order and a delivery it has read:  *)
(* the timelines and the buttons of features/orders/lib/order-view.ts, the *)
(* order's page, the restaurant's orders page and the rider's delivery     *)
(* page.  Its tables repeat those of the API in another language and       *)
(* another package; nothing but these properties holds the two together.   *)
(***************************************************************************)
EXTENDS OrderStatus

\* orderSteps.
OrderSteps == <<"PAYMENT_PENDING", "PAID", "ACCEPTED", "PREPARING", "READY",
                "RIDER_ASSIGNED", "PICKED_UP", "OUT_FOR_DELIVERY", "DELIVERED">>

\* terminalOrderSteps.
TerminalOrderSteps ==
    [CANCELLED      |-> <<"PAYMENT_PENDING", "CANCELLED">>,
     PAYMENT_FAILED |-> <<"PAYMENT_PENDING", "PAYMENT_FAILED">>,
     REJECTED       |-> <<"PAYMENT_PENDING", "PAID", "REJECTED">>,
     EXPIRED        |-> <<"PAYMENT_PENDING", "EXPIRED">>]

\* deliverySteps.
DeliverySteps == <<"ASSIGNED", "ACCEPTED", "PICKED_UP", "OUT_FOR_DELIVERY", "DELIVERED">>

\* The members of the sequence steps up to status, and those before it.
UpTo(steps, status) ==
    {steps[k] : k \in {i \in DOMAIN steps : \E j \in i .. Len(steps) : steps[j] = status}}

Before(steps, status) == UpTo(steps, status) \ {status}

\* getOrderTimeline: the steps that an order with this status shows as complete.
CompleteSteps(status) ==
    IF status \in DOMAIN TerminalOrderSteps THEN Before(TerminalOrderSteps[status], status)
    ELSE IF status = "DELIVERED" THEN UpTo(OrderSteps, status)
    ELSE Before(OrderSteps, status)

\* getDeliveryTimeline: here the current step is complete.
CompleteDeliverySteps(deliveryStatus) == UpTo(DeliverySteps, deliveryStatus)

-----------------------------------------------------------------------------
\* canCustomerCancelOrder: the order's page offers Cancel order.
CanCustomerCancelOrder(status) == status \in {"PENDING", "PAYMENT_PENDING"}

\* The order's page offers Retry payment: it asks the payment, not the order.
CanRetryPayment(paymentStatus) == paymentStatus = "FAILED"

\* nextRestaurantActions: the restaurant's orders page offers to move an order
\* from the one status to the other.
RestaurantActions == {<<"PAID", "ACCEPTED">>, <<"PAID", "REJECTED">>,
                      <<"ACCEPTED", "PREPARING">>, <<"PREPARING", "READY">>}

\* nextDeliveryAction: so does the rider's page for a delivery.
DeliveryActions == {<<"ASSIGNED", "ACCEPTED">>, <<"ACCEPTED", "PICKED_UP">>,
                    <<"PICKED_UP", "OUT_FOR_DELIVERY">>, <<"OUT_FOR_DELIVERY", "DELIVERED">>}
=============================================================================
