--------------------------- MODULE MCOrderPayment ---------------------------
(* Instances of OrderPayment for TLC. *)
EXTENDS OrderPayment, TLC

CONSTANTS o1, a1, a2, w1, w2, r1, j1, j2, j3, j4

\* Ids, worker slots and requests in flight are interchangeable.
AllSymmetry == Permutations(Jobs) \cup Permutations(PaymentWorkers)
               \cup Permutations(Api)

\* Something goes wrong once: an await fails or the process dies.
OneMishap == faults + crashes <= 1
=============================================================================
