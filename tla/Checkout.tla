------------------------------ MODULE Checkout ------------------------------
(***************************************************************************)
(* The customer's cart and checkout: cart-store.ts (kept in localStorage), *)
(* the pages that change it, CheckoutScreen.onSubmit with its awaits, and  *)
(* OrdersService.createOrder with its own, down to the order row.          *)
(*                                                                         *)
(* onSubmit orders the lines of the render it was clicked in and clears    *)
(* whatever the cart holds when it is done.  The button is disabled while  *)
(* a submission of the same visit runs; another visit to the page knows    *)
(* nothing of it.  A reload ends the submissions in the browser, not the   *)
(* calls they have made.                                                   *)
(*                                                                         *)
(* A cart is the set of its items: neither the quantity of a line nor the  *)
(* price it was added at decides anything that follows.  Whether the       *)
(* restaurant is open is left to the environment (Throw).                  *)
(***************************************************************************)
EXTENDS Naturals, Sequences

CONSTANTS Items, Restaurants,
          RestaurantOf,    \* RestaurantOf[i]: the restaurant whose menu has item i
          Prices,
          FirstMenu,       \* the menu when the customer first sees it
          MaxSubmissions,  \* bound: clicks on Place order
          MaxChanges       \* bound: changes of the menu

ASSUME CheckoutAssumption ==
    /\ RestaurantOf \in [Items -> Restaurants]
    /\ FirstMenu \in UNION {[S -> Prices] : S \in SUBSET Items}
    /\ {MaxSubmissions, MaxChanges} \subseteq Nat

VARIABLES menu,      \* the items that are available now, with their prices
          cart,      \* the items in the cart
          submission,\* submission[s]: the frame of onSubmit
          call,      \* call[s]: the frame of createOrder that s has called
          orders,    \* the order rows: whose call inserted them, and their lines
          created,   \* food_delivery_orders_created_total
          failed,    \* food_delivery_failed_order_creation_total
          offered,   \* history: every item and price that was available
          changes

menuVars == <<menu, offered, changes>>
apiVars == <<call, orders, created, failed>>
vars == <<menu, cart, submission, call, orders, created, failed, offered, changes>>

-----------------------------------------------------------------------------
Submissions == 1 .. MaxSubmissions

\* Items with their prices: a menu, or the lines of an order.
Priced == UNION {[S -> Prices] : S \in SUBSET Items}

NoLines == [i \in {} |-> 0]

InFlightSteps == {"preparing", "ordering"}

\* stays is history: the customer has not left the page since the click.
Frames == [pc : {"idle", "cleared", "stopped"}, items : {{}}, stays : {FALSE}]
     \cup [pc : InFlightSteps, items : {S \in SUBSET Items : S # {}}, stays : BOOLEAN]

\* A frame before its start or after its end.
NoFrame(pc) == [pc |-> pc, items |-> {}, stays |-> FALSE]

\* called: the request is on its way, for the first time or, after a 401 of
\* JwtAuthGuard, for the second.  items are those of the request, lines those
\* of the row to insert.
CallFrames ==
    [pc : {"idle", "called", "items", "insert", "transition", "created", "threw"},
     items : SUBSET Items, lines : Priced]

NoCall(pc) == [pc |-> pc, items |-> {}, lines |-> NoLines]

CheckoutTypeOK ==
    /\ menu \in Priced
    /\ cart \subseteq Items
    /\ submission \in [Submissions -> Frames]
    /\ call \in [Submissions -> CallFrames]
    /\ orders \in Seq([by : Submissions, lines : Priced])
    /\ created \in Nat
    /\ failed \in Nat
    /\ offered \subseteq Items \X Prices
    /\ changes \in 0 .. MaxChanges

OnOffer(m) == {<<i, m[i]>> : i \in DOMAIN m}

\* The customer has the menu before them and nothing in the cart.
Init ==
    /\ menu = FirstMenu
    /\ cart = {}
    /\ submission = [s \in Submissions |-> NoFrame("idle")]
    /\ call = [s \in Submissions |-> NoCall("idle")]
    /\ orders = <<>>
    /\ created = 0
    /\ failed = 0
    /\ offered = OnOffer(menu)
    /\ changes = 0

InFlight(s) == submission[s].pc \in InFlightSteps

\* createOrder has inserted the row of s and may be at the add of a job, which
\* is not answered as long as Redis is down: the connections of the queues have
\* no timeout and no limit of attempts.
AwaitsQueue(s) == call[s].pc = "transition"

\* isSubmitting: the customer is on the page of a submission that runs, where
\* the button is disabled.  Otherwise they may be anywhere.
Waiting == \E s \in Submissions : InFlight(s) /\ submission[s].stays

OneRestaurant(items) == \A i, j \in items : RestaurantOf[i] = RestaurantOf[j]

-----------------------------------------------------------------------------
(***************************************************************************)
(* The cart.                                                               *)
(***************************************************************************)
\* Mutant: the lines of another restaurant stay.
WithItemKeepingAll(items, i) == items \cup {i}

\* addItem: the lines of another restaurant go (lines[0] says whether they
\* are: any line does, they agree).
WithItem(items, i) ==
    IF \E j \in items : RestaurantOf[j] # RestaurantOf[i] THEN {i} ELSE items \cup {i}

\* Add to cart, on a restaurant page that may show an earlier menu.
AddItem(i) ==
    /\ ~Waiting
    /\ \E p \in Prices : <<i, p>> \in offered
    /\ cart' = WithItem(cart, i)
    /\ UNCHANGED <<submission, menuVars, apiVars>>

\* Remove, and Decrease on a line of one, on the cart page.
RemoveItem(i) ==
    /\ ~Waiting
    /\ i \in cart
    /\ cart' = cart \ {i}
    /\ UNCHANGED <<submission, menuVars, apiVars>>

\* Clear cart.
ClearCart ==
    /\ ~Waiting
    /\ cart # {}
    /\ cart' = {}
    /\ UNCHANGED <<submission, menuVars, apiVars>>

\* No submission of this page is on screen any more.
Unmount == [s \in Submissions |-> [submission[s] EXCEPT !.stays = FALSE]]

\* The customer goes elsewhere in the application: submissions run on.
LeaveCheckout ==
    /\ Waiting
    /\ submission' = Unmount
    /\ UNCHANGED <<cart, menuVars, apiVars>>

\* A reload: the frames are gone, the cart comes back from localStorage.
Reload ==
    /\ \E s \in Submissions : InFlight(s)
    /\ submission' = [s \in Submissions |->
                        IF InFlight(s) THEN NoFrame("stopped") ELSE submission[s]]
    /\ UNCHANGED <<cart, menuVars, apiVars>>

-----------------------------------------------------------------------------
(***************************************************************************)
(* onSubmit.                                                               *)
(***************************************************************************)
\* Mutant: an empty cart can be submitted.
SubmitAnything(s) ==
    /\ submission[s].pc = "idle"
    /\ \A t \in 1 .. s - 1 : submission[t].pc # "idle"
    /\ ~Waiting
    /\ submission' = [submission EXCEPT ![s] =
                        [pc |-> "preparing", items |-> cart, stays |-> TRUE]]
    /\ UNCHANGED <<cart, menuVars, apiVars>>

\* Place order, with the lines of this render.
Submit(s) ==
    /\ submission[s].pc = "idle"
    /\ \A t \in 1 .. s - 1 : submission[t].pc # "idle"
    /\ ~Waiting
    /\ cart # {}
    /\ submission' = [submission EXCEPT ![s] =
                        [pc |-> "preparing", items |-> cart, stays |-> TRUE]]
    /\ UNCHANGED <<cart, menuVars, apiVars>>

\* ensureSession and updateProfile returned: createOrder is called.
CallCreateOrder(s) ==
    /\ submission[s].pc = "preparing"
    /\ submission' = [submission EXCEPT ![s].pc = "ordering"]
    /\ call' = [call EXCEPT ![s] = [NoCall("called") EXCEPT !.items = submission[s].items]]
    /\ UNCHANGED <<cart, menuVars, orders, created, failed>>

\* The catch block: a toast, and the cart stays.
Stop(s) ==
    /\ submission' = [submission EXCEPT ![s] = NoFrame("stopped")]
    /\ UNCHANGED <<cart, menuVars, apiVars>>

\* Mutant: the cart is cleared in a finally block.
HearErrorClearing(s) ==
    /\ submission[s].pc = "ordering"
    /\ call[s].pc = "threw"
    /\ cart' = {}
    /\ submission' = [submission EXCEPT ![s] = NoFrame("stopped")]
    /\ UNCHANGED <<menuVars, apiVars>>

\* Mutant: withRoleAccessToken calls again whatever the error was.
HearErrorCallingAgain(s) ==
    /\ submission[s].pc = "ordering"
    /\ call[s].pc = "threw"
    /\ call' = [call EXCEPT ![s] = [NoCall("called") EXCEPT !.items = submission[s].items]]
    /\ UNCHANGED <<cart, submission, menuVars, orders, created, failed>>

\* The error that createOrder threw.
HearError(s) ==
    /\ submission[s].pc = "ordering"
    /\ call[s].pc = "threw"
    /\ Stop(s)

\* Login or the profile fails, or the network does: the call may run on.
FailEarly(s) ==
    /\ submission[s].pc \in {"preparing", "ordering"}
    /\ Stop(s)

\* Mutant: the router is not sent to the order's page.
FinishStaying(s) ==
    /\ submission[s].pc = "ordering"
    /\ call[s].pc = "created"
    /\ cart' = {}
    /\ submission' = [submission EXCEPT ![s] = NoFrame("cleared")]
    /\ UNCHANGED <<menuVars, apiVars>>

\* The order's answer has arrived, and the queries that onSuccess invalidates
\* are loaded: clearCart, and the router goes to the order's page.
Finish(s) ==
    /\ submission[s].pc = "ordering"
    /\ call[s].pc = "created"
    /\ cart' = {}
    /\ submission' = [Unmount EXCEPT ![s] = NoFrame("cleared")]
    /\ UNCHANGED <<menuVars, apiVars>>

-----------------------------------------------------------------------------
(***************************************************************************)
(* createOrder.                                                            *)
(***************************************************************************)
\* The guards and the ValidationPipe let the request pass.
Validate(s) ==
    /\ call[s].pc = "called"
    /\ call[s].items # {}
    /\ call' = [call EXCEPT ![s].pc = "items"]
    /\ UNCHANGED <<cart, submission, menuVars, orders, created, failed>>

\* They refuse it - a token, more than 20 lines -; createOrder has not begun.
RefuseInput(s) ==
    /\ call[s].pc = "called"
    /\ call' = [call EXCEPT ![s] = NoCall("threw")]
    /\ UNCHANGED <<cart, submission, menuVars, orders, created, failed>>

\* Mutant: findMany does not ask for isAvailable.
ReadItemsAnyway(s) ==
    /\ call[s].pc = "items"
    /\ \E price \in [call[s].items -> Prices] :
          call' = [call EXCEPT ![s] = [NoCall("insert") EXCEPT !.lines = price]]
    /\ UNCHANGED <<cart, submission, menuVars, orders, created, failed>>

\* restaurant.findUnique and menuItem.findMany: every item is there and
\* available, and all are of the restaurant of the first.
ReadItems(s) ==
    /\ call[s].pc = "items"
    /\ call[s].items \subseteq DOMAIN menu
    /\ OneRestaurant(call[s].items)
    /\ call' = [call EXCEPT ![s] = [NoCall("insert") EXCEPT
                                      !.lines = [i \in call[s].items |-> menu[i]]]]
    /\ UNCHANGED <<cart, submission, menuVars, orders, created, failed>>

\* order.create: the order of s with its items at the prices that were read.
Insert(s) == orders' = Append(orders, [by |-> s, lines |-> call[s].lines])

\* The commit is acknowledged, and the order counted.
InsertOrder(s) ==
    /\ call[s].pc = "insert"
    /\ Insert(s)
    /\ created' = created + 1
    /\ call' = [call EXCEPT ![s] = NoCall("transition")]
    /\ UNCHANGED <<cart, submission, menuVars, failed>>

\* Mutant: an error of the transaction is not counted.
LoseCommitUncounted(s) ==
    /\ call[s].pc = "insert"
    /\ Insert(s)
    /\ call' = [call EXCEPT ![s] = NoCall("threw")]
    /\ UNCHANGED <<cart, submission, menuVars, created, failed>>

\* The commit's acknowledgement is lost, and createOrder throws.
LoseCommit(s) ==
    /\ call[s].pc = "insert"
    /\ Insert(s)
    /\ failed' = failed + 1
    /\ call' = [call EXCEPT ![s] = NoCall("threw")]
    /\ UNCHANGED <<cart, submission, menuVars, created>>

\* transitionOrder and queuesService.add, and the 201.
AnswerCreated(s) ==
    /\ call[s].pc = "transition"
    /\ call' = [call EXCEPT ![s] = NoCall("created")]
    /\ UNCHANGED <<cart, submission, menuVars, orders, created, failed>>

\* createOrder throws: a closed restaurant, an unavailable item, or a failure
\* of the database or the queue - also after the order was inserted.
Throw(s) ==
    /\ call[s].pc \in {"items", "insert", "transition"}
    /\ call' = [call EXCEPT ![s] = NoCall("threw")]
    /\ failed' = failed + 1
    /\ UNCHANGED <<cart, submission, menuVars, orders, created>>

-----------------------------------------------------------------------------
\* The owner reprices an item, or turns it off or on.
ChangeItem(i) ==
    /\ changes < MaxChanges
    /\ changes' = changes + 1
    /\ \/ /\ i \in DOMAIN menu
          /\ menu' = [j \in DOMAIN menu \ {i} |-> menu[j]]
       \/ \E p \in Prices :
             menu' = [j \in DOMAIN menu \cup {i} |-> IF j = i THEN p ELSE menu[j]]
    /\ offered' = offered \cup OnOffer(menu')
    /\ UNCHANGED <<cart, submission, apiVars>>

-----------------------------------------------------------------------------
\* What the customer does.
CustomerStep ==
    \/ \E i \in Items : AddItem(i) \/ RemoveItem(i)
    \/ ClearCart
    \/ LeaveCheckout
    \/ Reload
    \/ \E s \in Submissions : Submit(s)

\* A step of onSubmit that the answers it awaits make possible.
BrowserStep(s) ==
    \/ CallCreateOrder(s)
    \/ HearError(s)
    \/ Finish(s)

\* A step of createOrder.
ApiStep(s) ==
    \/ Validate(s)
    \/ RefuseInput(s)
    \/ ReadItems(s)
    \/ InsertOrder(s)
    \/ LoseCommit(s)
    \/ AnswerCreated(s)
    \/ Throw(s)

Next ==
    \/ CustomerStep
    \/ \E s \in Submissions : BrowserStep(s) \/ ApiStep(s) \/ FailEarly(s)
    \/ \E i \in Items : ChangeItem(i)

(***************************************************************************)
(* onSubmit runs on when what it awaits is there, and createOrder runs to  *)
(* its end, except where it waits for a queue: nothing obliges Redis to be *)
(* up.  Nobody has to click, and no answer need be lost.                   *)
(***************************************************************************)
Fairness ==
    \A s \in Submissions :
        WF_vars(BrowserStep(s)) /\ WF_vars(ApiStep(s) /\ ~AwaitsQueue(s))

Spec == Init /\ [][Next]_vars /\ Fairness

-----------------------------------------------------------------------------
(***************************************************************************)
(* "a single-restaurant cart" (restaurant-detail-screen.tsx).  Only        *)
(* lines[0] tells the API whose order it is, so the cart, whatever is      *)
(* being ordered from it, and what was ordered are of one restaurant,      *)
(* however adding, clearing and submitting interleave.                     *)
(***************************************************************************)
CartIsOfOneRestaurant ==
    /\ OneRestaurant(cart)
    /\ \A s \in Submissions : OneRestaurant(submission[s].items)
    /\ \A k \in DOMAIN orders : OneRestaurant(DOMAIN orders[k].lines)

(***************************************************************************)
(* Every order row is counted: as created, or, when its commit was not     *)
(* heard of, as a failed creation; and no order is counted as created that *)
(* is not there.  (One that is inserted and then not enqueued is both.)    *)
(***************************************************************************)
OrdersAreCounted == created <= Len(orders) /\ Len(orders) <= created + failed

(***************************************************************************)
(* A submission that ends in a toast - refused, failed, unheard - leaves   *)
(* the cart as it is, to be submitted again; so does a reload.             *)
(***************************************************************************)
FailedSubmissionKeepsCart ==
    [][\A s \in Submissions :
          InFlight(s) /\ submission'[s].pc = "stopped" => cart' = cart]_vars

(***************************************************************************)
(* The cart is cleared for an order that is in the database; and for a     *)
(* customer who stays on the checkout page, what is cleared is what was    *)
(* ordered, also if an earlier visit's submission is still running.  (A    *)
(* customer who leaves and adds lines loses them.)                         *)
(***************************************************************************)
ClearedWhatWasOrdered ==
    [][\A s \in Submissions :
          InFlight(s) /\ submission'[s].pc = "cleared" =>
              /\ \E k \in DOMAIN orders : orders[k].by = s
              /\ submission[s].stays => cart = submission[s].items]_vars

(***************************************************************************)
(* A submission ends, cleared or stopped, unless createOrder, with the row *)
(* inserted, waits for the queue: that is the one place where the button   *)
(* may stay disabled for as long as Redis is down.  Before it, after it,   *)
(* and after every refusal or failure onSubmit comes to its end.           *)
(***************************************************************************)
SubmissionEnds ==
    \A s \in Submissions :
        InFlight(s) ~> \/ ~InFlight(s)
                       \/ submission[s].pc = "ordering" /\ AwaitsQueue(s)

Book == INSTANCE OrderBook WITH book <- orders

(***************************************************************************)
(* The order book: one submission never inserts two orders, whatever is    *)
(* called again, and an order's lines were on offer at its prices.         *)
(***************************************************************************)
FollowsTheBook == Book!Spec
=============================================================================
