----------------------------- MODULE CoreOrder -----------------------------
(* The constants of core/order.go that the exchange, the order controller  *)
(* and the store share.                                                    *)

Buy  == "BUY"
Sell == "SELL"
Sides == {Buy, Sell}

New             == "NEW"
PartiallyFilled == "PARTIALLY_FILLED"
Filled          == "FILLED"
Canceled        == "CANCELED"
PendingCancel   == "PENDING_CANCEL"

None == 0         \* a nil Stop or GroupID

\* Two orders are legs of one OCO.
SameGroup(o, q) == o.group # None /\ o.group = q.group
=============================================================================
