----------------------------- MODULE MCDispatch -----------------------------
(* Instances of Dispatch for TLC. *)
EXTENDS Dispatch, TLC

CONSTANTS o1, a1, a2, w1, w2, r1, r2, j1

\* Ids, riders, worker slots and requests in flight are interchangeable.
AllSymmetry == Permutations(Jobs) \cup Permutations(DeliveryWorkers)
               \cup Permutations(Api) \cup Permutations(Riders)
=============================================================================
