----------------------------- MODULE OrderBook -----------------------------
(***************************************************************************)
(* What an exchange promises about the orders it accepted, whatever it     *)
(* does with balances and prices: the list only grows, an order is pending *)
(* until it executes or is cancelled and final from then on, and the order *)
(* that executes cancels the other legs of its group in the same step.     *)
(***************************************************************************)
EXTENDS Integers, Sequences, CoreOrder

VARIABLE book

Init == book = << >>

\* The entries appended to the book are new: fresh ids, no group of an old
\* order, and pending unless executed at once (a market order).
Placed(i) ==
  /\ \A j \in 1 .. i - 1 : book'[j].id # book'[i].id
  /\ \A j \in DOMAIN book : ~SameGroup(book'[i], book[j])
  /\ book'[i].status = New \/ (book'[i].status = Filled /\ book'[i].group = None)

Place ==
  /\ Len(book') > Len(book)
  /\ \A i \in DOMAIN book : book'[i] = book[i]
  /\ \A i \in Len(book) + 1 .. Len(book') : Placed(i)

Peers(i) == {j \in DOMAIN book : j # i /\ SameGroup(book[i], book[j])}

Fill(i) ==
  /\ book[i].status = New
  /\ \A j \in Peers(i) : book[j].status = New
  /\ book' = [j \in DOMAIN book |->
                IF j = i THEN [book[j] EXCEPT !.status = Filled]
                ELSE IF j \in Peers(i) THEN [book[j] EXCEPT !.status = Canceled]
                ELSE book[j]]

Cancel(i) ==
  /\ book[i].status = New /\ Peers(i) = {}
  /\ book' = [book EXCEPT ![i].status = Canceled]

Next == Place \/ \E i \in DOMAIN book : Fill(i) \/ Cancel(i)

Spec == Init /\ [][Next]_book
=============================================================================
