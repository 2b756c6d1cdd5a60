----------------------------- MODULE MCCheckout -----------------------------
(* An instance of Checkout for TLC. *)
EXTENDS Checkout

CONSTANTS a1, a2, b1, A, B

\* Two items of restaurant A and one of B, all available.
RestaurantOfMC == [i \in Items |-> IF i = b1 THEN B ELSE A]

FirstMenuMC == [i \in Items |-> 1]
=============================================================================
