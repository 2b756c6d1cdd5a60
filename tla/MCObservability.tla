-------------------------- MODULE MCObservability --------------------------
(* An instance of Observability for TLC. *)
EXTENDS Observability

CONSTANTS r1, r2

\* The health check, an endpoint that guards a role, and a path nobody has.
CallsMC == {[endpoint |-> "health.check", bearer |-> NoToken],
            [endpoint |-> "orders.create", bearer |-> "CUSTOMER"],
            [endpoint |-> "orders.create", bearer |-> "RIDER"],
            [endpoint |-> NoRoute, bearer |-> NoToken]}
=============================================================================
