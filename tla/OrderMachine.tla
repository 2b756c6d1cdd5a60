---------------------------- MODULE OrderMachine ----------------------------
(***************************************************************************)
(* What the lifecycle promises: an order is inserted PENDING and from then *)
(* on moves along the transition table, one atomic move at a time.         *)
(* OrderLifecycle implements it when no two callers overlap.               *)
(***************************************************************************)
EXTENDS OrderStatus

CONSTANT Orders

VARIABLE status

\* No order has been placed.
Init == status = [o \in Orders |-> NoRow]

\* A customer places the order.
Place(o) ==
    /\ status[o] = NoRow
    /\ status' = [status EXCEPT ![o] = "PENDING"]

\* The order moves to a status that the table allows from the present one.
Move(o, next) ==
    /\ Allowed(status[o], next)
    /\ status' = [status EXCEPT ![o] = next]

\* One order is placed or moves.
Next == \E o \in Orders : Place(o) \/ \E next \in Statuses : Move(o, next)

\* Every behaviour of the abstract machine.
Spec == Init /\ [][Next]_status
=============================================================================
