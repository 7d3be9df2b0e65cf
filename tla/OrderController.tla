-------------------------- MODULE OrderController --------------------------
(***************************************************************************)
(* The order controller (order/controller.go) between a strategy, the      *)
(* exchange and the order store (storage/buntdb.go or storage/sql.go).     *)
(*                                                                         *)
(* Every call holds the controller's mutex from its first exchange request *)
(* to its last store update, so calls never interleave with each other;    *)
(* the exchange moves between any two of a call's requests, a store update *)
(* may fail, and the process may be restarted anywhere, losing all but the *)
(* exchange and the store.                                                 *)
(***************************************************************************)
EXTENDS Position, Sequences, Functions, FiniteSetsExt

CONSTANTS
  Pairs,        \* traded pairs
  Prices,       \* prices and stop prices of orders
  Quantities,   \* quantities of orders
  Databases,    \* the stores the bot may be configured with: "buntdb", "sql"
  StoreFails,   \* may a store update fail
  MaxOrders,    \* bound: orders created on the exchange
  MaxRestarts   \* bound: restarts of the process

ASSUME ControllerAssumption ==
  /\ Prices \subseteq Nat \ {0} /\ Quantities \subseteq Nat \ {0}
  /\ Databases \subseteq {"buntdb", "sql"} /\ StoreFails \in BOOLEAN
  /\ MaxOrders \in Nat /\ MaxRestarts \in Nat

Live     == {New, PartiallyFilled}
Statuses == Live \cup {Filled, Canceled, PendingCancel}

VARIABLES
  database,   \* the store of this bot
  exchange,   \* orders the exchange accepted; an ExchangeID is an index of it
  store,      \* the order store: order id -> [eid, status]
  lastID,     \* BuntStorage.lastID
  creating,   \* a Create* call: orders accepted that are still to be stored
  updating,   \* updateOrders is running
  todo,       \* its pending orders still to be asked for, as order ids
  updated,    \* its updatedOrders, as order ids
  position,   \* the controller's position per pair
  volume,     \* Results[pair].Volume
  published,  \* [eid, status] handed to the order feed since the start
  restarts

volatile == <<lastID, creating, updating, todo, updated, position, volume, published>>
vars == <<database, exchange, store, lastID, creating, updating, todo, updated, position,
          volume, published, restarts>>

\* The controller's mutex is free.
Unlocked == creating = << >> /\ ~updating

Init ==
  /\ database \in Databases
  /\ exchange = << >>
  /\ store = << >>
  /\ lastID = 0
  /\ creating = << >>
  /\ updating = FALSE /\ todo = {} /\ updated = << >>
  /\ position = [p \in Pairs |-> NoPosition]
  /\ volume = [p \in Pairs |-> 0]
  /\ published = {}
  /\ restarts = 0

-----------------------------------------------------------------------------
(* The exchange, as the controller uses it *)

Peers(e) == {f \in DOMAIN exchange : f # e /\ SameGroup(exchange[e], exchange[f])}

\* An order executes, in part or in full; an execution ends its OCO group.
Execute(e, status) ==
  /\ exchange[e].status \in Live /\ exchange[e].status # status
  /\ exchange' = [f \in DOMAIN exchange |->
       IF f = e THEN [exchange[f] EXCEPT !.status = status]
       ELSE IF f \in Peers(e) THEN [exchange[f] EXCEPT !.status = Canceled]
       ELSE exchange[f]]
  /\ UNCHANGED <<store, volatile, database, restarts>>

\* The exchange ends an order on its own (expired, cancelled by its owner there).
Drop(e) ==
  /\ exchange[e].status \in Live
  /\ exchange' = [exchange EXCEPT ![e].status = Canceled]
  /\ UNCHANGED <<store, volatile, database, restarts>>

ExchangeStep == \E e \in DOMAIN exchange :
  Execute(e, Filled) \/ Execute(e, PartiallyFilled) \/ Drop(e)

-----------------------------------------------------------------------------
(* Trades *)

\* BUG: a partial execution counts as the whole order.
ProcessTradePartial(o, status) ==
  IF status \in {Filled, PartiallyFilled}
  THEN /\ position' = [position EXCEPT ![o.pair] = AfterOrder(@, o)]
       /\ volume' = [volume EXCEPT ![o.pair] = @ + o.price * o.qty]
  ELSE UNCHANGED <<position, volume>>

\* processTrade of an order whose status is the given one.
ProcessTrade(o, status) ==
  IF status = Filled
  THEN /\ position' = [position EXCEPT ![o.pair] = AfterOrder(@, o)]
       /\ volume' = [volume EXCEPT ![o.pair] = @ + o.price * o.qty]
  ELSE UNCHANGED <<position, volume>>

Publish(eid, status) == published' = published \cup {[eid |-> eid, status |-> status]}

-----------------------------------------------------------------------------
(* Create calls *)

\* Accepted by the exchange, the answers are stored one by one.
Accepted(new) ==
  /\ exchange' = exchange \o new
  /\ creating' = [i \in DOMAIN new |-> [eid |-> Len(exchange) + i, status |-> new[i].status]]
  /\ UNCHANGED <<store, lastID, updating, todo, updated, position, volume, published,
                 database, restarts>>

Order(p, side, price, stop, qty, status, group) ==
  [pair |-> p, side |-> side, price |-> price, stop |-> stop, qty |-> qty,
   status |-> status, group |-> group]

\* A call that gets the mutex.
MayCreate == Unlocked /\ Len(exchange) < MaxOrders

CreateOrderLimit(p, side, qty, limit) ==
  /\ MayCreate
  /\ Accepted(<<Order(p, side, limit, None, qty, New, None)>>)

CreateOrderStop(p, qty, limit) ==
  /\ MayCreate
  /\ Accepted(<<Order(p, Sell, limit, limit, qty, New, None)>>)

\* CreateOrderMarket and CreateOrderMarketQuote
CreateOrderMarket(p, side, qty, price) ==
  /\ MayCreate
  /\ Accepted(<<Order(p, side, price, None, qty, Filled, None)>>)

CreateOrderOCO(p, side, qty, price, stop, stopLimit) ==
  LET group == Len(exchange) + 1
  IN  /\ MayCreate
      /\ Accepted(<<Order(p, side, price, None, qty, New, group),
                    Order(p, side, stopLimit, stop, qty, New, group)>>)

Put(id, entry) ==
  store' = [i \in DOMAIN store \cup {id} |-> IF i = id THEN entry ELSE store[i]]

\* BuntStorage.CreateOrder: the next id, whatever the store holds under it.
BuntCreates(entry) ==
  /\ lastID' = lastID + 1
  /\ Put(lastID', entry)

\* BUG: the process numbers the rows, as it does for BuntDB.
SQLCountsAlong(entry) ==
  /\ lastID' = lastID + 1
  /\ Put(lastID', entry)

\* SQLStorage.CreateOrder: the database numbers the rows of the table it kept.
SQLCreates(entry) ==
  /\ Put(Max(DOMAIN store \cup {0}) + 1, entry)
  /\ UNCHANGED lastID

Stored(entry) ==
  \/ database = "buntdb" /\ BuntCreates(entry)
  \/ database = "sql" /\ SQLCreates(entry)

\* BUG: only the first leg of an OCO is stored.
StoreFirstCreated ==
  LET entry == Head(creating) IN
  /\ creating # << >>
  /\ Stored(entry)
  /\ ProcessTrade(exchange[entry.eid], entry.status)
  /\ Publish(entry.eid, entry.status)
  /\ creating' = << >>
  /\ UNCHANGED <<exchange, updating, todo, updated, database, restarts>>

\* A market order is the only one that is executed when it is created.
StoreCreated ==
  LET entry == Head(creating) IN
  /\ creating # << >>
  /\ Stored(entry)
  /\ ProcessTrade(exchange[entry.eid], entry.status)
  /\ Publish(entry.eid, entry.status)
  /\ creating' = Tail(creating)
  /\ UNCHANGED <<exchange, updating, todo, updated, database, restarts>>

\* storage.CreateOrder failed, before or after it took an id: the call returns
\* its error, and its remaining orders stay on the exchange only.
StoreCreatedFails ==
  /\ StoreFails /\ creating # << >>
  /\ creating' = << >>
  /\ lastID' \in {lastID} \cup (IF database = "buntdb" THEN {lastID + 1} ELSE {})
  /\ UNCHANGED <<exchange, store, updating, todo, updated, position, volume,
                 published, database, restarts>>

-----------------------------------------------------------------------------
(* Cancel and updateOrders *)

\* BUG: the cancellation is stored whatever the exchange answers.
CancelUnanswered(id) ==
  /\ Unlocked
  /\ exchange' = [exchange EXCEPT ![store[id].eid].status =
                    IF @ \in Live THEN Canceled ELSE @]
  /\ store' = [store EXCEPT ![id].status = PendingCancel]
  /\ UNCHANGED <<volatile, database, restarts>>

\* The exchange refuses to cancel an order that is final, as Binance does; the
\* paper wallet would cancel an executed one, which modules PaperWallet (Cancel)
\* and Trading (ExecutedStaysExecuted) are about.
Cancel(id) ==
  LET e == store[id].eid IN
  /\ Unlocked
  /\ exchange[e].status \in Live
  /\ exchange' = [exchange EXCEPT ![e].status = Canceled]
  /\ \/ store' = [store EXCEPT ![id].status = PendingCancel]
     \/ StoreFails /\ UNCHANGED store
  /\ UNCHANGED <<volatile, database, restarts>>

\* storage.Orders with the filter WithStatusIn, as ids and in any order.
Orders(statuses) == {id \in DOMAIN store : store[id].status \in statuses}

\* BUG: partially executed orders are not asked for.
UpdateBeginNew ==
  /\ Unlocked
  /\ updating' = TRUE
  /\ todo' = Orders({New, PendingCancel})
  /\ UNCHANGED <<exchange, store, lastID, creating, updated, position, volume,
                 published, database, restarts>>

\* A tick (or Stop) runs updateOrders over the orders stored as pending.
UpdateBegin ==
  /\ Unlocked
  /\ updating' = TRUE
  /\ todo' = Orders(Live \cup {PendingCancel})
  /\ UNCHANGED <<exchange, store, lastID, creating, updated, position, volume,
                 published, database, restarts>>

\* The exchange reports the status that is stored, the request fails, or the
\* new status cannot be stored: the order is left for the next tick.
UpdateSkips(id) ==
  /\ id \in todo
  /\ todo' = todo \ {id}
  /\ UNCHANGED <<exchange, store, lastID, creating, updating, updated, position,
                 volume, published, database, restarts>>

UpdateStores(id) ==
  LET e == store[id].eid IN
  /\ id \in todo
  /\ exchange[e].status # store[id].status
  /\ todo' = todo \ {id}
  /\ store' = [store EXCEPT ![id].status = exchange[e].status]
  /\ updated' = Append(updated, id)
  /\ UNCHANGED <<exchange, lastID, creating, updating, position, volume, published,
                 database, restarts>>

\* BUG: subscribers hear of executions only.
UpdateProcessesFills ==
  LET entry == store[Head(updated)] IN
  /\ todo = {} /\ updated # << >>
  /\ ProcessTrade(exchange[entry.eid], entry.status)
  /\ IF entry.status = Filled THEN Publish(entry.eid, entry.status) ELSE UNCHANGED published
  /\ updated' = Tail(updated)
  /\ UNCHANGED <<exchange, store, lastID, creating, updating, todo, database, restarts>>

\* Once all pending orders were asked for, the updated ones are processed.
UpdateProcesses ==
  LET entry == store[Head(updated)] IN
  /\ todo = {} /\ updated # << >>
  /\ ProcessTrade(exchange[entry.eid], entry.status)
  /\ Publish(entry.eid, entry.status)
  /\ updated' = Tail(updated)
  /\ UNCHANGED <<exchange, store, lastID, creating, updating, todo, database, restarts>>

UpdateEnd ==
  /\ updating /\ todo = {} /\ updated = << >>
  /\ updating' = FALSE
  /\ UNCHANGED <<exchange, store, lastID, creating, todo, updated, position, volume,
                 published, database, restarts>>

-----------------------------------------------------------------------------
\* The process is restarted: NewController and a newly opened store.
Restart ==
  /\ restarts < MaxRestarts
  /\ restarts' = restarts + 1
  /\ lastID' = 0
  /\ creating' = << >>
  /\ updating' = FALSE /\ todo' = {} /\ updated' = << >>
  /\ position' = [p \in Pairs |-> NoPosition]
  /\ volume' = [p \in Pairs |-> 0]
  /\ published' = {}
  /\ UNCHANGED <<database, exchange, store>>

Calls ==
  \E p \in Pairs, side \in Sides, qty \in Quantities, price \in Prices :
    \/ CreateOrderLimit(p, side, qty, price)
    \/ CreateOrderMarket(p, side, qty, price)
    \/ CreateOrderStop(p, qty, price)
    \/ \E stop, stopLimit \in Prices :
         CreateOrderOCO(p, side, qty, price, stop, stopLimit)

Update ==
  \/ UpdateBegin \/ UpdateProcesses \/ UpdateEnd
  \/ \E id \in todo : UpdateSkips(id) \/ UpdateStores(id)

Next ==
  \/ Calls \/ StoreCreated \/ StoreCreatedFails
  \/ \E id \in DOMAIN store : Cancel(id)
  \/ Update
  \/ ExchangeStep
  \/ Restart

Spec == Init /\ [][Next]_vars

\* The ticker never stops, a goroutine that waits for the mutex gets it, and
\* neither the exchange nor the store fails for ever.
Fairness ==
  /\ WF_vars(StoreCreated \/ StoreCreatedFails)
  /\ SF_vars(UpdateBegin) /\ WF_vars(UpdateProcesses) /\ WF_vars(UpdateEnd)
  /\ \A id \in 1 .. MaxOrders + 1 :
       WF_vars(UpdateSkips(id)) /\ SF_vars(UpdateStores(id))

FairSpec == Spec /\ Fairness

-----------------------------------------------------------------------------
(* Properties *)

\* What the store says is final, or being cancelled, is what the exchange
\* decided: Cancel and updateOrders never record an outcome of their own.
StoreFollowsExchange ==
  \A id \in DOMAIN store :
    /\ store[id].eid \in DOMAIN exchange
    /\ store[id].status = Filled => exchange[store[id].eid].status = Filled
    /\ store[id].status \in {Canceled, PendingCancel}
         => exchange[store[id].eid].status = Canceled

InStore(e) == \E id \in DOMAIN store : store[id].eid = e

\* Every order the exchange accepted is stored, once, or about to be: no order
\* is unknown to updateOrders, none is asked for twice (as long as the store
\* does not fail).
OrdersTracked ==
  /\ \A e \in DOMAIN exchange :
       InStore(e) # (\E i \in DOMAIN creating : creating[i].eid = e)
  /\ \A id1, id2 \in DOMAIN store : id1 # id2 => store[id1].eid # store[id2].eid

OrderOf(id) == exchange[store[id].eid]

StoredAs(id, status) == id \in DOMAIN store /\ store[id].status = status

\* Orders stored as executed whose trade was processed already.
Counted(p) ==
  {id \in DOMAIN store : /\ StoredAs(id, Filled)
                         /\ OrderOf(id).pair = p
                         /\ \A i \in DOMAIN updated : updated[i] # id}

SignedQty == [id \in DOMAIN store |-> Signed(OrderOf(id).side, OrderOf(id).qty)]
Turnover  == [id \in DOMAIN store |-> OrderOf(id).price * OrderOf(id).qty]

\* Until a restart every executed order counts once, and only once, in the
\* position and the volume: market orders when they are created, all others
\* when updateOrders finds them executed, whatever fails, is cancelled or is
\* retried in between.
TradesCountedOnce ==
  restarts = 0 =>
    \A p \in Pairs :
      /\ Net(position[p]) = SumFunctionOnSet(SignedQty, Counted(p))
      /\ volume[p] = SumFunctionOnSet(Turnover, Counted(p))

\* Until a restart subscribers are told the outcome of every order.
OutcomesPublished ==
  restarts = 0 => \A id \in DOMAIN store :
    store[id].status \in {Filled, Canceled} /\ (\A i \in DOMAIN updated : updated[i] # id)
      => [eid |-> store[id].eid, status |-> store[id].status] \in published

\* An executed order that is stored reaches the position sooner or later.
FillsAreCounted ==
  \A e \in 1 .. MaxOrders :
    (e \in DOMAIN exchange /\ InStore(e) /\ exchange[e].status = Filled)
      ~> (\E p \in Pairs : \E id \in Counted(p) : store[id].eid = e)

\* Storing an order replaces no other one: until a restart, when BuntDB's getID
\* counts from one again, and with the SQL store also over restarts.
StoredOrdersSurvive ==
  [][(database = "sql" \/ restarts = 0) =>
       {store[id].eid : id \in DOMAIN store} \subseteq {store'[id].eid : id \in DOMAIN store'}]_vars
=============================================================================
