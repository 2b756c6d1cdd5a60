--------------------------- MODULE CheckoutProofs ---------------------------
(***************************************************************************)
(* Proofs about Checkout for any items, restaurants, prices and any number *)
(* of submissions and changes of the menu.                                 *)
(***************************************************************************)
EXTENDS Checkout, TLAPS

USE CheckoutAssumption

-----------------------------------------------------------------------------
(* The inductive invariant. *)

\* One restaurant, in the cart and in everything that comes of it.
OneKitchen ==
    /\ OneRestaurant(cart)
    /\ \A s \in Submissions :
          OneRestaurant(submission[s].items) /\ OneRestaurant(DOMAIN call[s].lines)
    /\ \A k \in DOMAIN orders : OneRestaurant(DOMAIN orders[k].lines)

\* While the customer waits for a submission, the cart is what it orders.
CartStands ==
    \A s \in Submissions :
        InFlight(s) /\ submission[s].stays => cart = submission[s].items

Entered(s) == \E k \in DOMAIN orders : orders[k].by = s

\* How far a call is tells whether its order is in the database.
CallsTellOrders ==
    \A s \in Submissions :
        /\ submission[s].pc \in {"idle", "preparing"} => call[s].pc = "idle"
        /\ Entered(s) => call[s].pc \in {"transition", "created", "threw"}
        /\ call[s].pc \in {"transition", "created"} => Entered(s)

\* What is about to be inserted was read off a menu.
LinesWereOffered ==
    /\ OnOffer(menu) \subseteq offered
    /\ \A s \in Submissions :
          /\ call[s].pc = "items" => call[s].items # {}
          /\ call[s].pc = "insert" =>
                DOMAIN call[s].lines # {} /\ OnOffer(call[s].lines) \subseteq offered

CheckoutInv ==
    /\ CheckoutTypeOK
    /\ OneKitchen
    /\ CartStands
    /\ CallsTellOrders
    /\ LinesWereOffered
    /\ OrdersAreCounted

-----------------------------------------------------------------------------
(* The types. *)

\* What the definitions of the frames say of their fields.
LEMMA FrameFields ==
  ASSUME NEW f \in Frames
  PROVE  /\ f.pc \in {"idle", "cleared", "stopped"} \cup InFlightSteps
         /\ f.items \in SUBSET Items
         /\ f.stays \in BOOLEAN
         /\ f.pc \in InFlightSteps => f.items # {}
  <1>1. CASE f \in [pc : {"idle", "cleared", "stopped"}, items : {{}}, stays : {FALSE}]
    BY <1>1 DEF InFlightSteps
  <1>2. CASE f \in [pc : InFlightSteps, items : {S \in SUBSET Items : S # {}}, stays : BOOLEAN]
    BY <1>2
  <1>3. QED  BY <1>1, <1>2 DEF Frames

LEMMA UnmountedFrame ==
  ASSUME NEW f \in Frames
  PROVE  /\ [f EXCEPT !.stays = FALSE] \in Frames
         /\ [f EXCEPT !.stays = FALSE].stays = FALSE
         /\ [f EXCEPT !.stays = FALSE].pc = f.pc
  <1>1. CASE f \in [pc : {"idle", "cleared", "stopped"}, items : {{}}, stays : {FALSE}]
    BY <1>1 DEF Frames
  <1>2. CASE f \in [pc : InFlightSteps, items : {S \in SUBSET Items : S # {}}, stays : BOOLEAN]
    BY <1>2 DEF Frames
  <1>3. QED  BY <1>1, <1>2 DEF Frames

LEMMA ProceedingFrame ==
  ASSUME NEW f \in Frames, f.pc \in InFlightSteps, NEW pc \in InFlightSteps
  PROVE  [f EXCEPT !.pc = pc] \in Frames
  <1>1. f \in [pc : InFlightSteps, items : {S \in SUBSET Items : S # {}}, stays : BOOLEAN]
    BY DEF Frames, InFlightSteps
  <1>2. QED  BY <1>1 DEF Frames

LEMMA EmptyFrame ==
  ASSUME NEW pc \in {"idle", "cleared", "stopped"}
  PROVE  NoFrame(pc) \in Frames
  BY DEF Frames, NoFrame

LEMMA RunningFrame ==
  ASSUME NEW pc \in InFlightSteps, NEW items \in SUBSET Items, items # {},
         NEW stays \in BOOLEAN
  PROVE  [pc |-> pc, items |-> items, stays |-> stays] \in Frames
  <1>1. items \in {S \in SUBSET Items : S # {}}
    OBVIOUS
  <1>2. [pc |-> pc, items |-> items, stays |-> stays]
          \in [pc : InFlightSteps, items : {S \in SUBSET Items : S # {}}, stays : BOOLEAN]
    BY <1>1
  <1>3. QED  BY <1>2 DEF Frames

\* A menu, and the lines of an order.
LEMMA PricedFields ==
  ASSUME NEW m \in Priced
  PROVE  DOMAIN m \subseteq Items /\ m \in [DOMAIN m -> Prices]
  BY DEF Priced

LEMMA PricedIntro ==
  ASSUME NEW S \in SUBSET Items, NEW m \in [S -> Prices]
  PROVE  m \in Priced
  BY DEF Priced

LEMMA NoLinesPriced == NoLines \in Priced
  <1>1. NoLines \in [{} -> Prices]
    BY DEF NoLines
  <1>2. QED  BY <1>1, PricedIntro

\* The empty frames of createOrder.
LEMMA EmptyCall ==
  ASSUME NEW pc \in {"idle", "called", "items", "insert", "transition", "created", "threw"}
  PROVE  NoCall(pc) \in CallFrames
  BY NoLinesPriced DEF NoCall, CallFrames

\* The initial state has nothing in it.
LEMMA CheckoutInitInv == Init => CheckoutInv
  <1> SUFFICES ASSUME Init PROVE CheckoutInv
    OBVIOUS
  <1> USE DEF Init
  <1>1. CheckoutTypeOK
    <2>1. NoCall("idle") \in CallFrames
      BY EmptyCall
    <2>2. menu \in Priced
      BY DEF Priced
    <2>3. offered \subseteq Items \X Prices
      BY <2>2, PricedFields DEF OnOffer
    <2>4. QED
      BY <2>1, <2>2, <2>3, EmptyFrame DEF CheckoutTypeOK
  <1>2. OneKitchen
    BY DEF OneKitchen, OneRestaurant, NoFrame, NoCall, NoLines
  <1>3. CartStands /\ CallsTellOrders
    BY DEF CartStands, CallsTellOrders, Entered, NoFrame, NoCall, InFlight, InFlightSteps
  <1>4. LinesWereOffered /\ OrdersAreCounted
    BY DEF LinesWereOffered, OrdersAreCounted, NoCall
  <1>5. QED  BY <1>1, <1>2, <1>3, <1>4 DEF CheckoutInv
-----------------------------------------------------------------------------
(* Every step preserves the types. *)

\* A submission that is given a frame.
LEMMA SubmissionTypes ==
  ASSUME CheckoutTypeOK, NEW s \in Submissions, NEW f \in Frames
  PROVE  /\ [submission EXCEPT ![s] = f] \in [Submissions -> Frames]
         /\ Unmount \in [Submissions -> Frames]
         /\ [Unmount EXCEPT ![s] = f] \in [Submissions -> Frames]
  <1>1. \A t \in Submissions : [submission[t] EXCEPT !.stays = FALSE] \in Frames
    BY UnmountedFrame DEF CheckoutTypeOK
  <1>2. Unmount \in [Submissions -> Frames]
    BY <1>1 DEF Unmount
  <1>3. QED  BY <1>2 DEF CheckoutTypeOK

\* A call that is given a frame.
LEMMA CallTypes ==
  ASSUME CheckoutTypeOK, NEW s \in Submissions, NEW f \in CallFrames
  PROVE  [call EXCEPT ![s] = f] \in [Submissions -> CallFrames]
  BY DEF CheckoutTypeOK

\* The customer.
LEMMA CustomerTypes ==
  ASSUME CheckoutTypeOK, CustomerStep
  PROVE  CheckoutTypeOK'
  <1> USE DEF CheckoutTypeOK, menuVars, apiVars
  <1>1. CASE \E i \in Items : AddItem(i) \/ RemoveItem(i)
    BY <1>1 DEF AddItem, RemoveItem, WithItem
  <1>2. CASE ClearCart
    BY <1>2 DEF ClearCart
  <1>3. CASE LeaveCheckout
    <2>1. submission' \in [Submissions -> Frames]
      BY <1>3, SubmissionTypes, UnmountedFrame DEF LeaveCheckout, Unmount
    <2>2. QED  BY <1>3, <2>1 DEF LeaveCheckout
  <1>4. CASE Reload
    <2>1. submission' \in [Submissions -> Frames]
      BY <1>4, EmptyFrame DEF Reload
    <2>2. QED  BY <1>4, <2>1 DEF Reload
  <1>5. ASSUME NEW s \in Submissions, Submit(s)
        PROVE  CheckoutTypeOK'
    <2>1. [pc |-> "preparing", items |-> cart, stays |-> TRUE] \in Frames
      BY <1>5, RunningFrame DEF Submit, InFlightSteps
    <2>2. submission' \in [Submissions -> Frames]
      BY <1>5, <2>1, SubmissionTypes DEF Submit
    <2>3. QED  BY <1>5, <2>2 DEF Submit
  <1>6. QED  BY <1>1, <1>2, <1>3, <1>4, <1>5 DEF CustomerStep

\* onSubmit.
LEMMA BrowserTypes ==
  ASSUME CheckoutTypeOK, NEW s \in Submissions, BrowserStep(s) \/ FailEarly(s)
  PROVE  CheckoutTypeOK'
  <1> USE DEF CheckoutTypeOK, menuVars, apiVars
  <1>1. CASE CallCreateOrder(s)
    <2>1. /\ submission[s].items \in SUBSET Items
          /\ submission[s].stays \in BOOLEAN
          /\ submission[s].items # {}
      BY <1>1, FrameFields DEF CallCreateOrder, InFlightSteps
    <2>2. [submission[s] EXCEPT !.pc = "ordering"] \in Frames
      BY <1>1, ProceedingFrame DEF CallCreateOrder, InFlightSteps
    <2>3. submission' \in [Submissions -> Frames]
      BY <1>1, <2>2 DEF CallCreateOrder
    <2>4. [NoCall("called") EXCEPT !.items = submission[s].items] \in CallFrames
      BY <2>1, NoLinesPriced DEF NoCall, CallFrames
    <2>5. call' \in [Submissions -> CallFrames]
      BY <1>1, <2>4, CallTypes DEF CallCreateOrder
    <2>6. QED  BY <1>1, <2>3, <2>5 DEF CallCreateOrder
  <1>2. CASE HearError(s) \/ FailEarly(s)
    <2>1. submission' \in [Submissions -> Frames]
      BY <1>2, EmptyFrame, SubmissionTypes DEF HearError, FailEarly, Stop
    <2>2. QED  BY <1>2, <2>1 DEF HearError, FailEarly, Stop
  <1>3. CASE Finish(s)
    <2>1. submission' \in [Submissions -> Frames]
      BY <1>3, EmptyFrame, SubmissionTypes DEF Finish
    <2>2. QED  BY <1>3, <2>1 DEF Finish
  <1>4. QED  BY <1>1, <1>2, <1>3 DEF BrowserStep

\* createOrder.
LEMMA ApiTypes ==
  ASSUME CheckoutTypeOK, NEW s \in Submissions, ApiStep(s)
  PROVE  CheckoutTypeOK'
  <1> USE DEF CheckoutTypeOK
  <1>0. /\ call[s].items \in SUBSET Items
        /\ call[s].lines \in Priced
    BY DEF CallFrames
  <1>1. CASE Validate(s)
    <2>1. [call[s] EXCEPT !.pc = "items"] \in CallFrames
      BY DEF CallFrames
    <2>2. QED  BY <1>1, <2>1, CallTypes DEF Validate, menuVars
  <1>2. CASE RefuseInput(s) \/ AnswerCreated(s) \/ Throw(s)
    <2>1. call' \in [Submissions -> CallFrames]
      BY <1>2, EmptyCall, CallTypes DEF RefuseInput, AnswerCreated, Throw
    <2>2. QED  BY <1>2, <2>1 DEF RefuseInput, AnswerCreated, Throw, menuVars
  <1>3. CASE ReadItems(s)
    <2>1. [i \in call[s].items |-> menu[i]] \in [call[s].items -> Prices]
      BY <1>3, PricedFields DEF ReadItems
    <2>2. [i \in call[s].items |-> menu[i]] \in Priced
      BY <1>0, <2>1, PricedIntro
    <2>3. [NoCall("insert") EXCEPT !.lines = [i \in call[s].items |-> menu[i]]] \in CallFrames
      BY <2>2 DEF NoCall, CallFrames
    <2>4. call' \in [Submissions -> CallFrames]
      BY <1>3, <2>3, CallTypes DEF ReadItems
    <2>5. QED  BY <1>3, <2>4 DEF ReadItems, menuVars
  <1>4. CASE InsertOrder(s) \/ LoseCommit(s)
    <2>1. call' \in [Submissions -> CallFrames]
      BY <1>4, EmptyCall, CallTypes DEF InsertOrder, LoseCommit
    <2>2. orders' \in Seq([by : Submissions, lines : Priced])
      <3>1. [by |-> s, lines |-> call[s].lines] \in [by : Submissions, lines : Priced]
        BY <1>0
      <3>2. orders' = Append(orders, [by |-> s, lines |-> call[s].lines])
        BY <1>4 DEF InsertOrder, LoseCommit, Insert
      <3>3. QED  BY <3>1, <3>2
    <2>3. created' \in Nat /\ failed' \in Nat
      BY <1>4 DEF InsertOrder, LoseCommit
    <2>4. QED  BY <1>4, <2>1, <2>2, <2>3 DEF InsertOrder, LoseCommit, menuVars
  <1>5. QED  BY <1>1, <1>2, <1>3, <1>4 DEF ApiStep

\* The owner: the new menu is a menu.
LEMMA ChangedMenu ==
  ASSUME menu \in Priced, NEW i \in Items, ChangeItem(i)
  PROVE  menu' \in Priced
  <1>1. DOMAIN menu \subseteq Items /\ menu \in [DOMAIN menu -> Prices]
    BY PricedFields
  <1>2. CASE menu' = [j \in DOMAIN menu \ {i} |-> menu[j]]
    <2>1. menu' \in [DOMAIN menu \ {i} -> Prices]
      BY <1>1, <1>2
    <2>2. QED  BY <1>1, <2>1, PricedIntro
  <1>3. ASSUME NEW p \in Prices,
               menu' = [j \in DOMAIN menu \cup {i} |-> IF j = i THEN p ELSE menu[j]]
        PROVE  menu' \in Priced
    <2>1. menu' \in [DOMAIN menu \cup {i} -> Prices]
      BY <1>1, <1>3
    <2>2. QED  BY <1>1, <2>1, PricedIntro
  <1>4. QED  BY <1>2, <1>3 DEF ChangeItem

LEMMA OnOfferType ==
  ASSUME NEW m \in Priced
  PROVE  OnOffer(m) \subseteq Items \X Prices
  BY PricedFields DEF OnOffer

LEMMA MenuTypes ==
  ASSUME CheckoutTypeOK, NEW i \in Items, ChangeItem(i)
  PROVE  CheckoutTypeOK'
  <1> USE DEF CheckoutTypeOK
  <1>1. menu' \in Priced
    BY ChangedMenu
  <1>2. OnOffer(menu') \subseteq Items \X Prices
    BY <1>1, OnOfferType
  <1>3. offered' \subseteq Items \X Prices
    BY <1>2 DEF ChangeItem
  <1>4. changes' \in 0 .. MaxChanges
    BY DEF ChangeItem
  <1>5. QED  BY <1>1, <1>3, <1>4 DEF ChangeItem, apiVars

LEMMA CheckoutStepTypes ==
  ASSUME CheckoutTypeOK, [Next]_vars
  PROVE  CheckoutTypeOK'
  <1>1. CASE UNCHANGED vars
    BY <1>1 DEF vars, CheckoutTypeOK
  <1>2. QED
    BY <1>1, CustomerTypes, BrowserTypes, ApiTypes, MenuTypes DEF Next
-----------------------------------------------------------------------------
(* Every step preserves the rest of the invariant. *)

\* The steps that neither the cart nor a submission takes part in.
LEMMA ApiLeavesBrowser ==
  ASSUME NEW s \in Submissions, ApiStep(s)
  PROVE  UNCHANGED <<cart, submission, menu, offered, changes>>
  BY DEF ApiStep, Validate, RefuseInput, ReadItems, InsertOrder, LoseCommit,
         AnswerCreated, Throw, menuVars

\* What is on one restaurant's menu stays so without some of its items.
LEMMA FewerItems ==
  ASSUME NEW S, NEW T, T \subseteq S, OneRestaurant(S)
  PROVE  OneRestaurant(T)
  BY DEF OneRestaurant

\* addItem keeps the cart at one restaurant.
LEMMA AddedItem ==
  ASSUME NEW S, NEW i, OneRestaurant(S)
  PROVE  OneRestaurant(WithItem(S, i))
  BY DEF OneRestaurant, WithItem

LEMMA CustomerOneKitchen ==
  ASSUME CheckoutTypeOK, OneKitchen, CustomerStep
  PROVE  OneKitchen'
  <1> USE DEF CheckoutTypeOK, OneKitchen
  <1>1. UNCHANGED <<call, orders>>
    BY DEF CustomerStep, AddItem, RemoveItem, ClearCart, LeaveCheckout, Reload, Submit, apiVars
  <1>2. OneRestaurant({})
    BY DEF OneRestaurant
  <1>3. OneRestaurant(cart')
    <2>1. ASSUME NEW i \in Items, AddItem(i) \/ RemoveItem(i)
          PROVE  OneRestaurant(cart')
      BY <2>1, AddedItem, FewerItems DEF AddItem, RemoveItem
    <2>2. CASE ClearCart
      BY <1>2, <2>2 DEF ClearCart
    <2>3. CASE cart' = cart
      BY <2>3
    <2>4. QED
      BY <2>1, <2>2, <2>3 DEF CustomerStep, LeaveCheckout, Reload, Submit
  <1>4. ASSUME NEW t \in Submissions
        PROVE  OneRestaurant(submission'[t].items)
    <2>1. CASE submission' = submission
      BY <2>1
    <2>2. CASE LeaveCheckout
      <3>1. submission'[t].items = submission[t].items
        BY <2>2 DEF LeaveCheckout, Unmount, Frames
      <3>2. QED  BY <3>1
    <2>3. CASE Reload
      BY <1>2, <2>3 DEF Reload, NoFrame
    <2>4. ASSUME NEW s \in Submissions, Submit(s)
          PROVE  OneRestaurant(submission'[t].items)
      BY <2>4 DEF Submit
    <2>5. QED
      BY <2>1, <2>2, <2>3, <2>4 DEF CustomerStep, AddItem, RemoveItem, ClearCart
  <1>5. QED  BY <1>1, <1>3, <1>4

LEMMA BrowserOneKitchen ==
  ASSUME CheckoutTypeOK, OneKitchen, NEW s \in Submissions, BrowserStep(s) \/ FailEarly(s)
  PROVE  OneKitchen'
  <1> USE DEF CheckoutTypeOK, OneKitchen
  <1>1. UNCHANGED orders
    BY DEF BrowserStep, CallCreateOrder, HearError, FailEarly, Finish, Stop, apiVars
  <1>2. OneRestaurant({}) /\ OneRestaurant(DOMAIN NoLines)
    BY DEF OneRestaurant, NoLines
  <1>3. OneRestaurant(cart')
    BY <1>2 DEF BrowserStep, CallCreateOrder, HearError, FailEarly, Finish, Stop
  <1>4. ASSUME NEW t \in Submissions
        PROVE  OneRestaurant(submission'[t].items)
    <2>1. CASE CallCreateOrder(s)
      <3>1. submission'[t].items = submission[t].items
        BY <2>1 DEF CallCreateOrder, Frames
      <3>2. QED  BY <3>1
    <2>2. CASE HearError(s) \/ FailEarly(s)
      <3>1. submission'[t].items \in {submission[t].items, {}}
        BY <2>2 DEF HearError, FailEarly, Stop, NoFrame
      <3>2. QED  BY <1>2, <3>1
    <2>3. CASE Finish(s)
      <3>1. submission'[t].items \in {submission[t].items, {}}
        BY <2>3 DEF Finish, NoFrame, Unmount, Frames
      <3>2. QED  BY <1>2, <3>1
    <2>4. QED  BY <2>1, <2>2, <2>3 DEF BrowserStep
  <1>5. ASSUME NEW t \in Submissions
        PROVE  OneRestaurant(DOMAIN call'[t].lines)
    BY <1>2 DEF BrowserStep, CallCreateOrder, HearError, FailEarly, Finish, Stop, apiVars, NoCall
  <1>6. QED  BY <1>1, <1>3, <1>4, <1>5

LEMMA ApiOneKitchen ==
  ASSUME CheckoutTypeOK, OneKitchen, NEW s \in Submissions, ApiStep(s)
  PROVE  OneKitchen'
  <1> USE DEF CheckoutTypeOK, OneKitchen
  <1>1. UNCHANGED <<cart, submission>>
    BY ApiLeavesBrowser
  <1>2. OneRestaurant(DOMAIN NoLines)
    BY DEF OneRestaurant, NoLines
  <1>3. ASSUME NEW t \in Submissions
        PROVE  OneRestaurant(DOMAIN call'[t].lines)
    <2>1. CASE Validate(s)
      <3>1. call'[t].lines = call[t].lines
        BY <2>1 DEF Validate, CallFrames
      <3>2. QED  BY <3>1
    <2>2. CASE ReadItems(s)
      <3>1. DOMAIN call'[t].lines = IF t = s THEN call[s].items ELSE DOMAIN call[t].lines
        BY <2>2 DEF ReadItems, NoCall
      <3>2. OneRestaurant(call[s].items)
        BY <2>2 DEF ReadItems
      <3>3. QED  BY <3>1, <3>2
    <2>3. CASE RefuseInput(s) \/ InsertOrder(s) \/ LoseCommit(s) \/ AnswerCreated(s) \/ Throw(s)
      <3>1. call'[t].lines \in {call[t].lines, NoLines}
        BY <2>3 DEF RefuseInput, InsertOrder, LoseCommit, AnswerCreated, Throw, NoCall
      <3>2. QED  BY <1>2, <3>1
    <2>4. QED  BY <2>1, <2>2, <2>3 DEF ApiStep
  <1>4. ASSUME NEW k \in DOMAIN orders'
        PROVE  OneRestaurant(DOMAIN orders'[k].lines)
    <2>1. CASE orders' = orders
      BY <1>4, <2>1
    <2>2. CASE Insert(s)
      BY <1>4, <2>2 DEF Insert
    <2>3. QED
      BY <2>1, <2>2 DEF ApiStep, Validate, RefuseInput, ReadItems, InsertOrder, LoseCommit,
                        AnswerCreated, Throw
  <1>5. QED  BY <1>1, <1>3, <1>4

LEMMA StepOneKitchen ==
  ASSUME CheckoutTypeOK, OneKitchen, [Next]_vars
  PROVE  OneKitchen'
  <1>1. CASE UNCHANGED vars \/ \E i \in Items : ChangeItem(i)
    BY <1>1 DEF vars, OneKitchen, ChangeItem, apiVars
  <1>2. QED
    BY <1>1, CustomerOneKitchen, BrowserOneKitchen, ApiOneKitchen DEF Next

\* What the customer changes, they change when they wait for nothing; what
\* they clear at the end of a submission, no page shows any more.
LEMMA StepCartStands ==
  ASSUME CheckoutTypeOK, CartStands, [Next]_vars
  PROVE  CartStands'
  <1> USE DEF CheckoutTypeOK, CartStands
  <1>1. CASE UNCHANGED <<cart, submission>>
    BY <1>1 DEF InFlight
  <1>2. ASSUME UNCHANGED submission, ~Waiting
        PROVE  CartStands'
    BY <1>2 DEF InFlight, Waiting
  <1>3. CASE LeaveCheckout
    <2>1. \A t \in Submissions : ~submission'[t].stays
      BY <1>3, UnmountedFrame DEF LeaveCheckout, Unmount
    <2>2. QED  BY <2>1
  <1>4. CASE Reload
    <2>1. \A t \in Submissions : submission'[t].pc \notin InFlightSteps
      BY <1>4 DEF Reload, NoFrame, InFlight, InFlightSteps
    <2>2. QED  BY <2>1 DEF InFlight
  <1>5. ASSUME NEW s \in Submissions, Submit(s)
        PROVE  CartStands'
    <2>1. submission'[s].items = cart /\ cart' = cart
      BY <1>5 DEF Submit
    <2>2. ASSUME NEW t \in Submissions, t # s
          PROVE  ~(InFlight(t)' /\ submission'[t].stays)
      BY <1>5, <2>2 DEF Submit, InFlight, Waiting
    <2>3. QED  BY <2>1, <2>2
  <1>6. ASSUME NEW s \in Submissions, CallCreateOrder(s)
        PROVE  CartStands'
    <2>1. InFlight(s) /\ cart' = cart
      BY <1>6 DEF CallCreateOrder, InFlight, InFlightSteps
    <2>2. \A t \in Submissions : /\ submission'[t].items = submission[t].items
                                 /\ submission'[t].stays = submission[t].stays
      BY <1>6, FrameFields DEF CallCreateOrder, Frames
    <2>3. \A t \in Submissions : t # s => submission'[t] = submission[t]
      BY <1>6 DEF CallCreateOrder
    <2>4. QED  BY <2>1, <2>2, <2>3 DEF InFlight
  <1>7. ASSUME NEW s \in Submissions, Stop(s)
        PROVE  CartStands'
    <2>1. submission'[s].pc \notin InFlightSteps /\ cart' = cart
      BY <1>7 DEF Stop, NoFrame, InFlightSteps
    <2>2. \A t \in Submissions : t # s => submission'[t] = submission[t]
      BY <1>7 DEF Stop
    <2>3. QED  BY <2>1, <2>2 DEF InFlight
  <1>8. ASSUME NEW s \in Submissions, Finish(s)
        PROVE  CartStands'
    <2>1. \A t \in Submissions : ~submission'[t].stays
      <3>1. \A t \in Submissions : ~Unmount[t].stays
        BY UnmountedFrame DEF Unmount
      <3>2. QED  BY <1>8, <3>1 DEF Finish, NoFrame, Unmount
    <2>2. QED  BY <2>1
  <1>9. CASE CustomerStep
    BY <1>1, <1>2, <1>3, <1>4, <1>5, <1>9
       DEF CustomerStep, AddItem, RemoveItem, ClearCart
  <1>10. ASSUME NEW s \in Submissions, BrowserStep(s) \/ FailEarly(s)
         PROVE  CartStands'
    BY <1>6, <1>7, <1>8, <1>10 DEF BrowserStep, HearError, FailEarly
  <1>11. QED
    BY <1>1, <1>9, <1>10, ApiLeavesBrowser DEF Next, ChangeItem, vars

\* A new row is the only thing that makes a submission one that has ordered.
LEMMA NewlyEntered ==
  ASSUME CheckoutTypeOK, NEW s \in Submissions, Insert(s), NEW t \in Submissions
  PROVE  Entered(t)' <=> Entered(t) \/ t = s
  <1> DEFINE row == [by |-> s, lines |-> call[s].lines]
  <1>1. orders' = Append(orders, row) /\ orders \in Seq([by : Submissions, lines : Priced])
    BY DEF Insert, CheckoutTypeOK
  <1>2. Len(orders') = Len(orders) + 1 /\ orders'[Len(orders) + 1] = row
    BY <1>1
  <1>3. \A k \in 1 .. Len(orders) : orders'[k] = orders[k]
    BY <1>1
  <1>4. /\ DOMAIN orders = 1 .. Len(orders)
        /\ DOMAIN orders' = 1 .. Len(orders) + 1
        /\ Len(orders) \in Nat
    BY <1>1
  <1>5. ASSUME Entered(t) PROVE Entered(t)'
    BY <1>3, <1>4, <1>5 DEF Entered
  <1>6. ASSUME t = s PROVE Entered(t)'
    <2>1. orders'[Len(orders) + 1].by = t /\ Len(orders) + 1 \in DOMAIN orders'
      BY <1>2, <1>4, <1>6
    <2>2. QED  BY <2>1 DEF Entered
  <1>7. ASSUME Entered(t)', t # s PROVE Entered(t)
    <2>1. PICK k \in DOMAIN orders' : orders'[k].by = t
      BY <1>7 DEF Entered
    <2>2. k # Len(orders) + 1
      BY <1>2, <1>7, <2>1
    <2>3. k \in DOMAIN orders /\ orders[k].by = t
      BY <1>3, <1>4, <2>1, <2>2
    <2>4. QED  BY <2>3 DEF Entered
  <1>8. QED  BY <1>5, <1>6, <1>7

LEMMA StepCallsTellOrders ==
  ASSUME CheckoutTypeOK, CallsTellOrders, [Next]_vars
  PROVE  CallsTellOrders'
  <1> USE DEF CheckoutTypeOK, CallsTellOrders
  <1>1. ASSUME UNCHANGED <<call, orders>>,
               NEW s \in Submissions,
               submission'[s].pc \in {"idle", "preparing"}
                 => submission[s].pc \in {"idle", "preparing"}
        PROVE  /\ submission'[s].pc \in {"idle", "preparing"} => call'[s].pc = "idle"
               /\ Entered(s)' => call'[s].pc \in {"transition", "created", "threw"}
               /\ call'[s].pc \in {"transition", "created"} => Entered(s)'
    BY <1>1 DEF Entered
  <1>2. CASE UNCHANGED <<submission, call, orders>>
    BY <1>1, <1>2
  <1>3. CASE LeaveCheckout
    <2>1. \A s \in Submissions : submission'[s].pc = submission[s].pc
      BY <1>3, FrameFields DEF LeaveCheckout, Unmount, Frames
    <2>2. QED  BY <1>1, <1>3, <2>1 DEF LeaveCheckout, apiVars
  <1>4. CASE Reload
    BY <1>1, <1>4 DEF Reload, apiVars, NoFrame
  <1>5. ASSUME NEW s \in Submissions, Submit(s)
        PROVE  CallsTellOrders'
    BY <1>1, <1>5 DEF Submit, apiVars
  <1>6. ASSUME NEW s \in Submissions, CallCreateOrder(s)
        PROVE  CallsTellOrders'
    <2>1. ~Entered(s)
      BY <1>6 DEF CallCreateOrder
    <2>2. call'[s].pc = "called" /\ submission'[s].pc = "ordering"
      BY <1>6, FrameFields DEF CallCreateOrder, NoCall, Frames
    <2>3. \A t \in Submissions : t # s => call'[t] = call[t] /\ submission'[t] = submission[t]
      BY <1>6 DEF CallCreateOrder
    <2>4. \A t \in Submissions : Entered(t)' <=> Entered(t)
      BY <1>6 DEF CallCreateOrder, Entered
    <2>5. QED  BY <2>1, <2>2, <2>3, <2>4
  <1>7. ASSUME NEW s \in Submissions, Stop(s)
        PROVE  CallsTellOrders'
    BY <1>1, <1>7 DEF Stop, apiVars, NoFrame
  <1>8. ASSUME NEW s \in Submissions, Finish(s)
        PROVE  CallsTellOrders'
    <2>1. \A t \in Submissions : submission'[t].pc \in {submission[t].pc, "cleared"}
      BY <1>8, FrameFields DEF Finish, Unmount, NoFrame, Frames
    <2>2. QED  BY <1>1, <1>8, <2>1 DEF Finish, apiVars
  <1>9. ASSUME NEW s \in Submissions, ApiStep(s)
        PROVE  CallsTellOrders'
    <2>1. UNCHANGED submission
      BY <1>9, ApiLeavesBrowser
    <2>2. call[s].pc # "idle" /\ \A t \in Submissions : t # s => call'[t] = call[t]
      BY <1>9 DEF ApiStep, Validate, RefuseInput, ReadItems, InsertOrder, LoseCommit,
                  AnswerCreated, Throw
    <2>3. CASE InsertOrder(s) \/ LoseCommit(s)
      <3>1. call'[s].pc \in {"transition", "threw"}
        BY <2>3 DEF InsertOrder, LoseCommit, NoCall
      <3>2. \A t \in Submissions : Entered(t)' <=> Entered(t) \/ t = s
        BY <2>3, NewlyEntered DEF InsertOrder, LoseCommit
      <3>3. QED  BY <2>1, <2>2, <3>1, <3>2
    <2>4. CASE Validate(s) \/ RefuseInput(s) \/ ReadItems(s)
      <3>1. call[s].pc \in {"called", "items"} /\ call'[s].pc \in {"items", "threw", "insert"}
        BY <2>4, EmptyCall DEF Validate, RefuseInput, ReadItems, NoCall, CallFrames
      <3>2. UNCHANGED orders
        BY <2>4 DEF Validate, RefuseInput, ReadItems
      <3>3. \A t \in Submissions : Entered(t)' <=> Entered(t)
        BY <3>2 DEF Entered
      <3>4. QED  BY <2>1, <2>2, <3>1, <3>3
    <2>5. CASE AnswerCreated(s) \/ Throw(s)
      <3>1. /\ call'[s].pc \in {"created", "threw"}
            /\ call'[s].pc = "created" => call[s].pc = "transition"
        BY <2>5 DEF AnswerCreated, Throw, NoCall
      <3>2. UNCHANGED orders
        BY <2>5 DEF AnswerCreated, Throw
      <3>3. \A t \in Submissions : Entered(t)' <=> Entered(t)
        BY <3>2 DEF Entered
      <3>4. QED  BY <2>1, <2>2, <3>1, <3>3
    <2>6. QED  BY <1>9, <2>3, <2>4, <2>5 DEF ApiStep
  <1>10. CASE CustomerStep
    BY <1>2, <1>3, <1>4, <1>5, <1>10 DEF CustomerStep, AddItem, RemoveItem, ClearCart, apiVars
  <1>11. ASSUME NEW s \in Submissions, BrowserStep(s) \/ FailEarly(s)
         PROVE  CallsTellOrders'
    BY <1>6, <1>7, <1>8, <1>11 DEF BrowserStep, HearError, FailEarly
  <1>12. QED
    BY <1>2, <1>9, <1>10, <1>11 DEF Next, ChangeItem, vars, apiVars

LEMMA StepLinesWereOffered ==
  ASSUME CheckoutTypeOK, LinesWereOffered, [Next]_vars
  PROVE  LinesWereOffered'
  <1> USE DEF CheckoutTypeOK, LinesWereOffered
  <1>1. CASE UNCHANGED <<menu, offered, call>>
    BY <1>1 DEF OnOffer
  <1>2. ASSUME NEW i \in Items, ChangeItem(i)
        PROVE  LinesWereOffered'
    <2>1. call' = call /\ offered' = offered \cup OnOffer(menu')
      BY <1>2 DEF ChangeItem, apiVars
    <2>2. OnOffer(menu)' = OnOffer(menu')
      BY DEF OnOffer
    <2>3. \A s \in Submissions : OnOffer(call[s].lines)' = OnOffer(call[s].lines)
      BY <2>1 DEF OnOffer
    <2>4. QED  BY <2>1, <2>2, <2>3
  <1>3. ASSUME NEW s \in Submissions, CallCreateOrder(s) \/ ApiStep(s)
        PROVE  LinesWereOffered'
    <2>1. UNCHANGED <<menu, offered>> /\ \A t \in Submissions : t # s => call'[t] = call[t]
      BY <1>3 DEF CallCreateOrder, ApiStep, Validate, RefuseInput, ReadItems, InsertOrder,
                  LoseCommit, AnswerCreated, Throw, menuVars
    <2>2. OnOffer(menu)' \subseteq offered'
      BY <2>1 DEF OnOffer
    <2>3. /\ call'[s].pc = "items" => call'[s].items # {}
          /\ call'[s].pc = "insert" =>
                DOMAIN call'[s].lines # {} /\ OnOffer(call'[s].lines) \subseteq offered
      <3>1. CASE Validate(s)
        <4>1. call'[s].pc = "items" /\ call'[s].items = call[s].items
          BY <3>1 DEF Validate, CallFrames
        <4>2. QED  BY <3>1, <4>1 DEF Validate
      <3>2. CASE ReadItems(s)
        <4>1. /\ call'[s].pc = "insert"
              /\ call'[s].lines = [i \in call[s].items |-> menu[i]]
          BY <3>2 DEF ReadItems, NoCall
        <4>2. call[s].items # {} /\ call[s].items \subseteq DOMAIN menu
          BY <3>2 DEF ReadItems
        <4>3. OnOffer(call'[s].lines) \subseteq OnOffer(menu)
          BY <4>1, <4>2 DEF OnOffer
        <4>4. QED  BY <4>1, <4>2, <4>3
      <3>3. CASE CallCreateOrder(s)
        <4>1. call'[s].pc = "called"
          BY <3>3 DEF CallCreateOrder, NoCall
        <4>2. QED  BY <4>1
      <3>4. CASE RefuseInput(s) \/ InsertOrder(s) \/ LoseCommit(s) \/ AnswerCreated(s) \/ Throw(s)
        <4>1. call'[s].pc \in {"threw", "transition", "created"}
          BY <3>4 DEF RefuseInput, InsertOrder, LoseCommit, AnswerCreated, Throw, NoCall
        <4>2. QED  BY <4>1
      <3>5. QED  BY <1>3, <3>1, <3>2, <3>3, <3>4 DEF ApiStep
    <2>4. \A t \in Submissions : OnOffer(call[t].lines)' = OnOffer(call'[t].lines)
      BY DEF OnOffer
    <2>5. QED  BY <2>1, <2>2, <2>3, <2>4
  <1>4. QED
    BY <1>1, <1>2, <1>3 DEF Next, CustomerStep, AddItem, RemoveItem, ClearCart, LeaveCheckout,
       Reload, Submit, BrowserStep, HearError, Finish, FailEarly, Stop, menuVars, apiVars, vars

\* A step that inserts a row counts it.
LEMMA StepOrdersAreCounted ==
  ASSUME CheckoutTypeOK, OrdersAreCounted, [Next]_vars
  PROVE  OrdersAreCounted'
  <1> USE DEF CheckoutTypeOK, OrdersAreCounted
  <1>0. orders \in Seq([by : Submissions, lines : Priced]) /\ Len(orders) \in Nat
    OBVIOUS
  <1>1. CASE UNCHANGED <<orders, created, failed>>
    BY <1>1
  <1>2. ASSUME NEW s \in Submissions, Insert(s)
        PROVE  Len(orders') = Len(orders) + 1
    BY <1>2 DEF Insert
  <1>3. ASSUME NEW s \in Submissions, InsertOrder(s) \/ LoseCommit(s) \/ Throw(s)
        PROVE  OrdersAreCounted'
    BY <1>0, <1>2, <1>3 DEF InsertOrder, LoseCommit, Throw
  <1>4. QED
    BY <1>1, <1>3 DEF Next, CustomerStep, AddItem, RemoveItem, ClearCart, LeaveCheckout,
       Reload, Submit, BrowserStep, CallCreateOrder, HearError, Finish, FailEarly, Stop,
       ApiStep, Validate, RefuseInput, ReadItems, AnswerCreated, ChangeItem, apiVars, vars
-----------------------------------------------------------------------------
(* What the invariant gives. *)

LEMMA CheckoutStepInv ==
  ASSUME CheckoutInv, [Next]_vars
  PROVE  CheckoutInv'
  BY CheckoutStepTypes, StepOneKitchen, StepCartStands, StepCallsTellOrders,
     StepLinesWereOffered, StepOrdersAreCounted DEF CheckoutInv

(* The invariant holds in every state of every behaviour. *)
THEOREM CheckoutInvariant == Spec => []CheckoutInv
  <1>1. Init => CheckoutInv
    BY CheckoutInitInv
  <1>2. CheckoutInv /\ [Next]_vars => CheckoutInv'
    BY CheckoutStepInv
  <1>3. QED  BY <1>1, <1>2, PTL DEF Spec

(* The cart, the frames and the rows have their types. *)
THEOREM CheckoutTypes == Spec => []CheckoutTypeOK
  <1>1. CheckoutInv => CheckoutTypeOK
    BY DEF CheckoutInv
  <1>2. QED  BY <1>1, CheckoutInvariant, PTL

(* However cart and checkout interleave, nobody orders from two restaurants *)
(* in one order. *)
THEOREM OneRestaurantPerOrder == Spec => []CartIsOfOneRestaurant
  <1>1. CheckoutInv => CartIsOfOneRestaurant
    BY DEF CheckoutInv, OneKitchen, CartIsOfOneRestaurant
  <1>2. QED  BY <1>1, CheckoutInvariant, PTL

(* Every order row is in one of the two counters. *)
THEOREM EveryOrderIsCounted == Spec => []OrdersAreCounted
  <1>1. CheckoutInv => OrdersAreCounted
    BY DEF CheckoutInv
  <1>2. QED  BY <1>1, CheckoutInvariant, PTL

(* A submission that ends in a toast leaves the cart alone. *)
THEOREM ToastKeepsCart == Spec => FailedSubmissionKeepsCart
  <1>1. ASSUME CheckoutInv, [Next]_vars
        PROVE  \A s \in Submissions :
                  InFlight(s) /\ submission'[s].pc = "stopped" => cart' = cart
    <2>1. CASE cart' = cart
      BY <2>1
    <2>2. CASE submission' = submission
      BY <2>2 DEF InFlight, InFlightSteps
    <2>3. ASSUME NEW s \in Submissions, Finish(s), NEW t \in Submissions, InFlight(t)
          PROVE  submission'[t].pc # "stopped"
      <3>1. submission'[t].pc \in {submission[t].pc, "cleared"}
        BY <1>1, <2>3, FrameFields DEF CheckoutInv, CheckoutTypeOK, Finish, Unmount, NoFrame, Frames
      <3>2. QED  BY <2>3, <3>1 DEF InFlight, InFlightSteps
    <2>4. CASE CustomerStep
      BY <2>1, <2>2, <2>4 DEF CustomerStep, AddItem, RemoveItem, ClearCart, LeaveCheckout,
                              Reload, Submit
    <2>5. ASSUME NEW s \in Submissions, BrowserStep(s) \/ FailEarly(s)
          PROVE  cart' = cart \/ Finish(s)
      BY <2>5 DEF BrowserStep, CallCreateOrder, HearError, FailEarly, Stop
    <2>6. QED
      BY <1>1, <2>1, <2>3, <2>4, <2>5, ApiLeavesBrowser DEF Next, ChangeItem, vars
  <1>2. QED
    BY <1>1, CheckoutInvariant, PTL DEF Spec, FailedSubmissionKeepsCart

(* Only an order that is in the database clears the cart, and a customer    *)
(* who waits for it loses nothing that was not ordered. *)
THEOREM OnlyOrderedIsCleared == Spec => ClearedWhatWasOrdered
  <1>1. ASSUME CheckoutInv, [Next]_vars
        PROVE  \A s \in Submissions :
                  InFlight(s) /\ submission'[s].pc = "cleared" =>
                      /\ \E k \in DOMAIN orders : orders[k].by = s
                      /\ submission[s].stays => cart = submission[s].items
    <2>1. ASSUME NEW t \in Submissions, InFlight(t), Finish(t)
          PROVE  Entered(t) /\ (submission[t].stays => cart = submission[t].items)
      BY <1>1, <2>1 DEF Finish, CheckoutInv, CallsTellOrders, CartStands
    <2>2. ASSUME NEW t \in Submissions, InFlight(t), submission'[t].pc = "cleared"
          PROVE  Finish(t)
      <3>1. submission' # submission
        BY <2>2 DEF InFlight, InFlightSteps
      <3>2. CASE CustomerStep
        <4>1. CASE LeaveCheckout
          <5>1. submission'[t].pc = submission[t].pc
            BY <1>1, <4>1, UnmountedFrame DEF CheckoutInv, CheckoutTypeOK, LeaveCheckout, Unmount
          <5>2. QED  BY <2>2, <5>1 DEF InFlight, InFlightSteps
        <4>2. CASE Reload
          BY <2>2, <4>2 DEF Reload, NoFrame, InFlight, InFlightSteps
        <4>3. ASSUME NEW s \in Submissions, Submit(s)
              PROVE  FALSE
          BY <1>1, <2>2, <4>3 DEF CheckoutInv, CheckoutTypeOK, Submit, InFlight, InFlightSteps
        <4>4. QED
          BY <3>1, <3>2, <4>1, <4>2, <4>3 DEF CustomerStep, AddItem, RemoveItem, ClearCart
      <3>3. ASSUME NEW s \in Submissions, BrowserStep(s) \/ FailEarly(s)
            PROVE  Finish(t)
        <4>1. submission \in [Submissions -> Frames]
          BY <1>1 DEF CheckoutInv, CheckoutTypeOK
        <4>2. CASE Stop(s)
          <5>1. submission'[t] = IF t = s THEN NoFrame("stopped") ELSE submission[t]
            BY <4>1, <4>2 DEF Stop
          <5>2. QED  BY <2>2, <5>1 DEF NoFrame, InFlight, InFlightSteps
        <4>3. CASE CallCreateOrder(s)
          <5>1. submission'[t] =
                    IF t = s THEN [submission[s] EXCEPT !.pc = "ordering"] ELSE submission[t]
            BY <4>1, <4>3 DEF CallCreateOrder
          <5>2. [submission[s] EXCEPT !.pc = "ordering"].pc = "ordering"
            BY <4>1, FrameFields DEF Frames
          <5>3. QED  BY <2>2, <5>1, <5>2 DEF InFlight, InFlightSteps
        <4>4. CASE Finish(s)
          <5>1. s # t => submission'[t].pc = submission[t].pc
            BY <1>1, <4>4, FrameFields DEF CheckoutInv, CheckoutTypeOK, Finish, Unmount, Frames
          <5>2. QED  BY <2>2, <4>4, <5>1 DEF InFlight, InFlightSteps
        <4>5. QED  BY <3>3, <4>2, <4>4, <4>3 DEF BrowserStep, HearError, FailEarly
      <3>4. QED
        BY <1>1, <3>1, <3>2, <3>3, ApiLeavesBrowser DEF Next, ChangeItem, vars
    <2>3. QED  BY <2>1, <2>2 DEF Entered
  <1>2. QED
    BY <1>1, CheckoutInvariant, PTL DEF Spec, ClearedWhatWasOrdered
-----------------------------------------------------------------------------
(* Checkout implements the order book. *)

\* The menu's changes are offers; the only other step the book sees is an
\* insertion, and it enters what the book allows.
LEMMA StepFollowsBook ==
  ASSUME CheckoutInv, [Next]_vars
  PROVE  [Book!Next]_<<orders, offered>>
  <1> USE DEF CheckoutInv
  <1>1. ASSUME NEW s \in Submissions, Insert(s), call[s].pc = "insert", UNCHANGED offered
        PROVE  Book!Next
    <2> DEFINE row == [by |-> s, lines |-> call[s].lines]
    <2>1. orders' = Append(orders, row) /\ orders \in Seq([by : Submissions, lines : Priced])
      BY <1>1 DEF Insert, CheckoutTypeOK
    <2>2. orders' # <<>> /\ orders'[Len(orders')] = row
      BY <2>1
    <2>3. \A k \in DOMAIN orders : orders[k].by # s
      BY <1>1 DEF CallsTellOrders, Entered
    <2>4. DOMAIN row.lines # {}
      BY <1>1 DEF LinesWereOffered
    <2>5. \A i \in DOMAIN row.lines : <<i, row.lines[i]>> \in offered
      BY <1>1 DEF LinesWereOffered, OnOffer
    <2>6. Book!Enter(row)
      BY <1>1, <2>1, <2>3, <2>4, <2>5 DEF Book!Enter
    <2>7. QED  BY <2>2, <2>6 DEF Book!Next
  <1>2. ASSUME NEW i \in Items, ChangeItem(i)
        PROVE  Book!Next
    <2>1. offered' \subseteq Items \X Prices
      BY <1>2, MenuTypes DEF CheckoutTypeOK
    <2>2. Book!Offer
      BY <1>2, <2>1 DEF ChangeItem, apiVars, Book!Offer
    <2>3. QED  BY <2>2 DEF Book!Next
  <1>3. CASE CustomerStep \/ UNCHANGED vars
    BY <1>3 DEF CustomerStep, AddItem, RemoveItem, ClearCart, LeaveCheckout, Reload, Submit,
                menuVars, apiVars, vars
  <1>4. ASSUME NEW s \in Submissions, BrowserStep(s) \/ FailEarly(s)
        PROVE  UNCHANGED <<orders, offered>>
    BY <1>4 DEF BrowserStep, CallCreateOrder, HearError, Finish, FailEarly, Stop,
                menuVars, apiVars
  <1>5. ASSUME NEW s \in Submissions, ApiStep(s)
        PROVE  Book!Next \/ UNCHANGED <<orders, offered>>
    BY <1>1, <1>5 DEF ApiStep, Validate, RefuseInput, ReadItems, InsertOrder, LoseCommit,
                      AnswerCreated, Throw, menuVars
  <1>6. QED  BY <1>2, <1>3, <1>4, <1>5 DEF Next

(* What the browser and the API do together is what the order book allows. *)
THEOREM CheckoutFollowsTheBook == Spec => FollowsTheBook
  <1>1. Init => Book!Init
    <2>1. Init => offered \subseteq Items \X Prices
      BY CheckoutInitInv DEF CheckoutInv, CheckoutTypeOK
    <2>2. QED  BY <2>1 DEF Init, Book!Init
  <1>2. CheckoutInv /\ [Next]_vars => [Book!Next]_<<orders, offered>>
    BY StepFollowsBook
  <1>3. QED
    BY <1>1, <1>2, CheckoutInvariant, PTL DEF Spec, FollowsTheBook, Book!Spec
=============================================================================
