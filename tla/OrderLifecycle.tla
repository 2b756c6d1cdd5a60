--------------------------- MODULE OrderLifecycle ---------------------------
(***************************************************************************)
(* OrderLifecycleService.transitionOrder, the one operation through which  *)
(* every handler and worker of the API moves an order.  A caller (an HTTP  *)
(* handler or a queue worker) is a process; each await of the operation is *)
(* a step, and steps of different callers interleave:                      *)
(*                                                                         *)
(*    read  -> findUnique, then the table is consulted                     *)
(*    write -> update by id, WITHOUT a condition on the status that was    *)
(*             read                                                        *)
(*    announce -> the domain event and the customer's notification         *)
(*    returned / threw -> control is back with the caller                  *)
(*                                                                         *)
(* The module runs on its own with callers that ask for anything in        *)
(* Targets; OrderPayment and Dispatch extend it with the callers the code  *)
(* has.                                                                    *)
(***************************************************************************)
EXTENDS OrderView

CONSTANTS Orders,    \* order ids
          Procs,     \* processes that may call transitionOrder
          NoOrder,   \* the order of an idle frame
          Targets    \* what the callers of this module's own Next ask for

ASSUME LifecycleAssumption ==
    /\ NoOrder \notin Orders
    /\ Targets \subseteq Statuses

VARIABLES status,    \* status[o]: the status column, NoRow before the insert
          visited,   \* visited[o]: history, every status the column ever held
          call       \* call[p]: the frame of p's call of transitionOrder

lifecycleVars == <<status, visited, call>>

-----------------------------------------------------------------------------
IdleCall == [pc |-> "idle", order |-> NoOrder, next |-> NoRow, seen |-> NoRow]

Calls == [pc : {"idle", "read", "write", "announce", "returned", "threw"},
          order : Orders \cup {NoOrder},
          next : Statuses \cup {NoRow},
          seen : Statuses \cup {NoRow}]

\* The frame of a call of transitionOrder({ orderId, nextStatus }).
NewCall(o, next) == [pc |-> "read", order |-> o, next |-> next, seen |-> NoRow]

LifecycleInit ==
    /\ status = [o \in Orders |-> NoRow]
    /\ visited = [o \in Orders |-> {}]
    /\ call = [p \in Procs |-> IdleCall]

-----------------------------------------------------------------------------
\* createOrder's transaction inserts the row as PENDING and the handler goes
\* on, with no await between, into transitionOrder(PAYMENT_PENDING).
Insert(p, o) ==
    /\ call[p].pc = "idle"
    /\ status[o] = NoRow
    /\ status' = [status EXCEPT ![o] = "PENDING"]
    /\ visited' = [visited EXCEPT ![o] = {"PENDING"}]
    /\ call' = [call EXCEPT ![p] = NewCall(o, "PAYMENT_PENDING")]

\* A caller enters transitionOrder.
Invoke(p, o, next) ==
    /\ call[p].pc = "idle"
    /\ call' = [call EXCEPT ![p] = NewCall(o, next)]
    /\ UNCHANGED <<status, visited>>

\* Mutant: the table is not consulted.
ReadOrderUnchecked(p) ==
    /\ call[p].pc = "read"
    /\ call' = [call EXCEPT ![p].pc = "write", ![p].seen = status[call[p].order]]
    /\ UNCHANGED <<status, visited>>

\* findUnique, and the table allows the move.
ReadOrder(p) ==
    LET c == call[p] IN
    /\ c.pc = "read"
    /\ Allowed(status[c.order], c.next)
    /\ call' = [call EXCEPT ![p].pc = "write", ![p].seen = status[c.order]]
    /\ UNCHANGED <<status, visited>>

\* findUnique, and the row is missing (404) or the table forbids the move.
RefuseMove(p) ==
    LET c == call[p] IN
    /\ c.pc = "read"
    /\ ~Allowed(status[c.order], c.next)
    /\ call' = [call EXCEPT ![p].pc = "threw"]
    /\ UNCHANGED <<status, visited>>

\* order.update({ where: { id } }): whatever the column holds by now.
WriteStatus(p) ==
    LET c == call[p] IN
    /\ c.pc = "write"
    /\ status' = [status EXCEPT ![c.order] = c.next]
    /\ visited' = [visited EXCEPT ![c.order] = @ \cup {c.next}]
    /\ call' = [call EXCEPT ![p].pc = "announce"]

\* recordEvent and enqueueUserNotification, then the caller gets the row.
Announce(p) ==
    /\ call[p].pc = "announce"
    /\ call' = [call EXCEPT ![p].pc = "returned"]
    /\ UNCHANGED <<status, visited>>

\* The database or Redis fails under one of the awaits.  A write that was
\* applied although its answer was lost is WriteStatus and then this.
LoseCall(p) ==
    /\ call[p].pc \in {"read", "write", "announce"}
    /\ call' = [call EXCEPT ![p].pc = "threw"]
    /\ UNCHANGED <<status, visited>>

\* The caller goes on, with the row or with the exception.
Return(p) ==
    /\ call[p].pc \in {"returned", "threw"}
    /\ call' = [call EXCEPT ![p] = IdleCall]
    /\ UNCHANGED <<status, visited>>

\* The API process dies: every call in flight is gone.
LoseAllCalls ==
    /\ call' = [p \in Procs |-> IdleCall]
    /\ UNCHANGED <<status, visited>>

-----------------------------------------------------------------------------
\* A step of one caller.
CallerStep(p) ==
    \/ \E o \in Orders : Insert(p, o)
    \/ \E o \in Orders, next \in Targets : Invoke(p, o, next)
    \/ ReadOrder(p)
    \/ RefuseMove(p)
    \/ WriteStatus(p)
    \/ Announce(p)
    \/ LoseCall(p)
    \/ Return(p)

LifecycleNext == (\E p \in Procs : CallerStep(p)) \/ LoseAllCalls

LifecycleSpec == LifecycleInit /\ [][LifecycleNext]_lifecycleVars

-----------------------------------------------------------------------------
\* The values the three variables can take.
LifecycleTypeOK ==
    /\ status \in [Orders -> Statuses \cup {NoRow}]
    /\ visited \in [Orders -> SUBSET Statuses]
    /\ call \in [Procs -> Calls]

(***************************************************************************)
(* The check of the table and the write are two steps, so an order can be  *)
(* moved out of a status it no longer has.  What survives any interleaving *)
(* of any callers, and any failure: no stage is ever skipped.  An order    *)
(* that reached a stage of the main line (was picked up, say) had been     *)
(* through the one before it, and so through all of them; one that was     *)
(* rejected had been paid.                                                 *)
(***************************************************************************)
NoStageSkipped ==
    \A o \in Orders :
        /\ \A i \in 2 .. Len(MainLine) :
              MainLine[i] \in visited[o] => MainLine[i - 1] \in visited[o]
        /\ "REJECTED" \in visited[o] => "PAID" \in visited[o]
        /\ "PAYMENT_FAILED" \in visited[o] => "PAYMENT_PENDING" \in visited[o]

\* The abstract machine over the same status column.
Machine == INSTANCE OrderMachine

(***************************************************************************)
(* The customer's timeline tells the order's history: what it shows as     *)
(* complete the order has been through, although the page knows only the   *)
(* status it has now.  One thing it makes up: an order cancelled while it  *)
(* was PENDING is shown to have been PAYMENT_PENDING.                      *)
(***************************************************************************)
TimelineIsHistory ==
    \A o \in Orders :
        \A step \in CompleteSteps(status[o]) :
            \/ step \in visited[o]
            \/ step = "PAYMENT_PENDING" /\ status[o] \in {"CANCELLED", "EXPIRED"}

\* With a single caller at a time (one process) every status change is a move
\* of the transition table: transitionOrder implements the abstract machine.
FollowsTheTable == Machine!Spec

(***************************************************************************)
(* README.md: "Cancel a pending/payment-pending order": an order that was  *)
(* cancelled was not paid, and is not paid after.  transitionOrder checks  *)
(* it, on a status that may be stale when it writes.                       *)
(***************************************************************************)
CancelledIsNotPaid ==
    \A o \in Orders :
        "CANCELLED" \in visited[o] => visited[o] \cap PaidStatuses = {}
=============================================================================
