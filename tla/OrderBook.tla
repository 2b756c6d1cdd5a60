----------------------------- MODULE OrderBook -----------------------------
(***************************************************************************)
(* What checkout promises, whatever the browser, the network and the menu  *)
(* do meanwhile: a submission enters at most one order into the book, once *)
(* and for all, and every line of it had been on offer, at the very price  *)
(* that the order records.  Checkout implements this machine.              *)
(***************************************************************************)
EXTENDS Naturals, Sequences

CONSTANTS Submissions, Items, Prices

VARIABLES book,     \* the orders as they were entered: whose, and their lines
          offered   \* every item and price that was ever on offer

\* Nothing is ordered yet.
Init ==
    /\ book = <<>>
    /\ offered \subseteq Items \X Prices

\* The menu changes.
Offer ==
    /\ offered \subseteq offered'
    /\ offered' \subseteq Items \X Prices
    /\ UNCHANGED book

\* An order enters the book: of a submission that has none there yet, with
\* the price of each of its items.
Enter(order) ==
    /\ order.by \in Submissions
    /\ \A k \in DOMAIN book : book[k].by # order.by
    /\ DOMAIN order.lines # {}
    /\ \A i \in DOMAIN order.lines : <<i, order.lines[i]>> \in offered
    /\ book' = Append(book, order)
    /\ UNCHANGED offered

\* The menu changes, or the order that is then the last one is entered.
Next == Offer \/ (book' # <<>> /\ Enter(book'[Len(book')]))

\* Every behaviour of the order book.
Spec == Init /\ [][Next]_<<book, offered>>
=============================================================================
