---------------------------- MODULE OrderStatus ----------------------------
(***************************************************************************)
(* The order lifecycle of apps/api/src/orders/order-status-transitions.ts: *)
(* the statuses an order row can hold and the table of the transitions     *)
(* that assertOrderStatusTransition lets through.                          *)
(***************************************************************************)
EXTENDS Naturals, Sequences

\* The statuses of the OrderStatus enum of the database schema.
Statuses == {"PENDING", "PAYMENT_PENDING", "PAID", "ACCEPTED", "REJECTED",
             "PREPARING", "READY", "RIDER_ASSIGNED", "PICKED_UP",
             "OUT_FOR_DELIVERY", "DELIVERED", "CANCELLED", "PAYMENT_FAILED",
             "EXPIRED"}

\* What a lookup by id finds before the row is inserted.
NoRow == "NO_ROW"

\* ORDER_STATUS_TRANSITIONS as a relation: <<from, to>> is allowed.
Transitions ==
    {<<"PENDING", "PAYMENT_PENDING">>,
     <<"PENDING", "CANCELLED">>,
     <<"PENDING", "EXPIRED">>,
     <<"PAYMENT_PENDING", "PAID">>,
     <<"PAYMENT_PENDING", "PAYMENT_FAILED">>,
     <<"PAYMENT_PENDING", "CANCELLED">>,
     <<"PAYMENT_PENDING", "EXPIRED">>,
     <<"PAID", "ACCEPTED">>,
     <<"PAID", "REJECTED">>,
     <<"ACCEPTED", "PREPARING">>,
     <<"PREPARING", "READY">>,
     <<"READY", "RIDER_ASSIGNED">>,
     <<"RIDER_ASSIGNED", "PICKED_UP">>,
     <<"PICKED_UP", "OUT_FOR_DELIVERY">>,
     <<"OUT_FOR_DELIVERY", "DELIVERED">>,
     <<"PAYMENT_FAILED", "PAYMENT_PENDING">>}

\* assertOrderStatusTransition: throws unless this holds.
Allowed(from, to) == <<from, to>> \in Transitions

\* The way of an order that is delivered, stage by stage.
MainLine == <<"PENDING", "PAYMENT_PENDING", "PAID", "ACCEPTED", "PREPARING",
              "READY", "RIDER_ASSIGNED", "PICKED_UP", "OUT_FOR_DELIVERY",
              "DELIVERED">>

\* The statuses of an order whose payment went through: PAID, and what the
\* table allows only after PAID.
PaidStatuses == {"PAID", "ACCEPTED", "REJECTED", "PREPARING", "READY",
                 "RIDER_ASSIGNED", "PICKED_UP", "OUT_FOR_DELIVERY",
                 "DELIVERED"}
=============================================================================
