----------------------- MODULE OrderControllerProofs ------------------------
(***************************************************************************)
(* What the store records of an order is what the exchange decided, and    *)
(* subscribers are told of it, for any orders, exchange, failures and      *)
(* restarts and over either store.                                         *)
(***************************************************************************)
EXTENDS OrderController, BookkeepingTheorems, SequenceTheorems, TLAPS

\* What an order of the exchange looks like; it never is PendingCancel there.
ExchangeStatuses == Live \cup {Filled, Canceled}
ExchangeOrders == [pair : Pairs, side : Sides, price : Nat, stop : Nat, qty : Nat \ {0},
                   status : ExchangeStatuses, group : Nat]
Entries == [eid : Nat, status : Statuses]

\* Group numbers are order numbers, and beside an executed leg none is live.
Groups(ex) ==
  /\ \A e \in DOMAIN ex : ex[e].group <= Len(ex)
  /\ \A e, f \in DOMAIN ex :
       e # f /\ SameGroup(ex[e], ex[f]) /\ ex[e].status = Filled => ex[f].status \notin Live

\* An entry says of its order what the exchange decided.
Follows(entry, ex) ==
  /\ entry.eid \in DOMAIN ex
  /\ entry.status = Filled => ex[entry.eid].status = Filled
  /\ entry.status \in {Canceled, PendingCancel} => ex[entry.eid].status = Canceled

\* The same order, whatever became of it.
SameOrder(o, q) ==
  q.pair = o.pair /\ q.side = o.side /\ q.price = o.price /\ q.stop = o.stop /\ q.qty = o.qty

\* What the exchange decided stays so, and no order becomes another one.
Later(ex, now) ==
  /\ DOMAIN ex \subseteq DOMAIN now
  /\ \A e \in DOMAIN ex : ex[e].status \in {Filled, Canceled} => now[e].status = ex[e].status
  /\ \A e \in DOMAIN ex : SameOrder(ex[e], now[e])

ExchangeInv == exchange \in Seq(ExchangeOrders) /\ Groups(exchange)

CreatingInv ==
  /\ creating \in Seq(Entries)
  /\ \A i \in DOMAIN creating : Follows(creating[i], exchange)

StoreInv ==
  /\ store \in [DOMAIN store -> Entries]
  /\ \A id \in DOMAIN store : Follows(store[id], exchange)

UpdateInv ==
  /\ todo \subseteq DOMAIN store
  /\ updated \in Seq(DOMAIN store)
  /\ restarts \in Nat

ControllerInv == ExchangeInv /\ CreatingInv /\ StoreInv /\ UpdateInv /\ OutcomesPublished

-----------------------------------------------------------------------------
(* The exchange *)

LEMMA FollowsLater ==
  ASSUME NEW entry, NEW ex, NEW now, Follows(entry, ex), Later(ex, now)
  PROVE  Follows(entry, now)
BY DEF Follows, Later

\* What is stored, or about to be, stays true when the exchange moves on.
LEMMA EntriesLater ==
  ASSUME CreatingInv, StoreInv, Later(exchange, exchange')
  PROVE  /\ \A i \in DOMAIN creating : Follows(creating[i], exchange')
         /\ \A id \in DOMAIN store : Follows(store[id], exchange')
<1>1. ASSUME NEW i \in DOMAIN creating PROVE Follows(creating[i], exchange')
  BY FollowsLater DEF CreatingInv
<1>2. ASSUME NEW id \in DOMAIN store PROVE Follows(store[id], exchange')
  BY FollowsLater DEF StoreInv
<1>. QED  BY <1>1, <1>2

\* An execution cancels the other legs; none of them was executed.
LEMMA ExecuteMoves ==
  ASSUME ExchangeInv, NEW e \in DOMAIN exchange, NEW status \in {Filled, PartiallyFilled},
         Execute(e, status)
  PROVE  ExchangeInv' /\ Later(exchange, exchange')
<1>1. /\ exchange[e].status \in Live
      /\ exchange' = [f \in DOMAIN exchange |->
           IF f = e THEN [exchange[f] EXCEPT !.status = status]
           ELSE IF f \in Peers(e) THEN [exchange[f] EXCEPT !.status = Canceled]
           ELSE exchange[f]]
  BY DEF Execute
<1>2. /\ Len(exchange) \in Nat /\ DOMAIN exchange = 1 .. Len(exchange)
      /\ exchange \in [1 .. Len(exchange) -> ExchangeOrders]
  BY LenProperties DEF ExchangeInv
<1>3. \A f \in DOMAIN exchange :
        /\ exchange'[f] \in ExchangeOrders
        /\ exchange'[f].group = exchange[f].group
        /\ SameOrder(exchange[f], exchange'[f])
        /\ exchange'[f].status = IF f = e THEN status
                                 ELSE IF f \in Peers(e) THEN Canceled ELSE exchange[f].status
  BY <1>1, <1>2 DEF SameOrder, ExchangeOrders, ExchangeStatuses, Live
<1>4. DOMAIN exchange' = DOMAIN exchange
  BY <1>1
<1>5. exchange' \in Seq(ExchangeOrders) /\ Len(exchange') = Len(exchange)
  <2>1. exchange' \in [1 .. Len(exchange) -> ExchangeOrders]
    BY <1>1, <1>2, <1>3
  <2>2. exchange' \in Seq(ExchangeOrders)
    BY <1>2, <2>1, SeqDef
  <2>. QED  BY <1>2, <1>4, <2>2, LenProperties
<1>6. \A f \in Peers(e) : exchange[f].status # Filled
  BY <1>1 DEF ExchangeInv, Groups, Peers, SameGroup
<1>7. Later(exchange, exchange')
  BY <1>1, <1>3, <1>4, <1>6 DEF Later, Live, New, PartiallyFilled, Filled, Canceled
<1>8. Groups(exchange')
  <2>1. \A f \in DOMAIN exchange' : exchange'[f].group <= Len(exchange')
    BY <1>3, <1>4, <1>5 DEF ExchangeInv, Groups
  <2>2. ASSUME NEW f \in DOMAIN exchange, NEW g \in DOMAIN exchange, f # g,
               exchange'[f].group # None, exchange'[f].group = exchange'[g].group,
               exchange'[f].status = Filled
        PROVE  exchange'[g].status \notin Live
    <3>1. exchange[f].group # None /\ exchange[f].group = exchange[g].group
      BY <1>3, <2>2
    <3>2. Canceled \notin Live /\ Canceled # Filled
      BY DEF Live, New, PartiallyFilled, Canceled, Filled
    <3>3. CASE f = e
      <4>1. g \in Peers(e)
        BY <2>2, <3>1, <3>3 DEF Peers, SameGroup
      <4>. QED  BY <1>3, <2>2, <3>2, <3>3, <4>1
    <3>4. CASE f # e
      <4>1. f \notin Peers(e) /\ exchange[f].status = Filled
        BY <1>3, <2>2, <3>2, <3>4
      <4>2. g # e /\ g \notin Peers(e)
        BY <3>1, <3>4, <4>1 DEF Peers, SameGroup
      <4>3. exchange'[g].status = exchange[g].status
        BY <1>3, <4>2
      <4>. QED  BY <2>2, <3>1, <4>1, <4>3 DEF ExchangeInv, Groups, SameGroup
    <3>. QED  BY <3>3, <3>4
  <2>. QED  BY <1>4, <2>1, <2>2 DEF Groups, SameGroup
<1>. QED  BY <1>5, <1>7, <1>8 DEF ExchangeInv

\* A live order that is cancelled, by the exchange or for the controller.
LEMMA CancelMoves ==
  ASSUME ExchangeInv, NEW e \in DOMAIN exchange, exchange[e].status \in Live,
         exchange' = [exchange EXCEPT ![e].status = Canceled]
  PROVE  ExchangeInv' /\ Later(exchange, exchange') /\ exchange'[e].status = Canceled
<1>1. /\ Len(exchange) \in Nat /\ DOMAIN exchange = 1 .. Len(exchange)
      /\ exchange \in [1 .. Len(exchange) -> ExchangeOrders]
  BY LenProperties DEF ExchangeInv
<1>2. \A f \in DOMAIN exchange :
        /\ exchange'[f] \in ExchangeOrders
        /\ exchange'[f].group = exchange[f].group
        /\ SameOrder(exchange[f], exchange'[f])
        /\ exchange'[f].status = IF f = e THEN Canceled ELSE exchange[f].status
  BY <1>1 DEF SameOrder, ExchangeOrders, ExchangeStatuses
<1>3. DOMAIN exchange' = DOMAIN exchange
  OBVIOUS
<1>4. exchange' \in Seq(ExchangeOrders) /\ Len(exchange') = Len(exchange)
  <2>1. exchange' \in [1 .. Len(exchange) -> ExchangeOrders]
    BY <1>1, <1>2
  <2>2. exchange' \in Seq(ExchangeOrders)
    BY <1>1, <2>1, SeqDef
  <2>. QED  BY <1>1, <1>3, <2>2, LenProperties
<1>5. Canceled \notin Live /\ Canceled # Filled
  BY DEF Live, New, PartiallyFilled, Canceled, Filled
<1>6. Groups(exchange')
  BY <1>2, <1>3, <1>4, <1>5 DEF ExchangeInv, Groups, SameGroup
<1>7. Later(exchange, exchange')
  BY <1>2, <1>3 DEF Later, Live, New, PartiallyFilled, Filled, Canceled
<1>. QED  BY <1>2, <1>4, <1>6, <1>7 DEF ExchangeInv

\* New orders are appended: alone without a group, or as the two live legs of
\* a group that no other order has.
LEMMA AcceptedMoves ==
  ASSUME ExchangeInv, NEW new \in Seq(ExchangeOrders), exchange' = exchange \o new,
         \/ \A i \in DOMAIN new : new[i].group = None
         \/ \A i \in DOMAIN new : new[i].group = Len(exchange) + 1 /\ new[i].status = New,
         Len(new) > 0
  PROVE  ExchangeInv' /\ Later(exchange, exchange')
<1> DEFINE n == Len(exchange)
           now == exchange \o new
<1>1. /\ n \in Nat /\ DOMAIN exchange = 1 .. n /\ Len(new) \in Nat /\ DOMAIN new = 1 .. Len(new)
      /\ \A e \in 1 .. n : exchange[e] \in ExchangeOrders
  BY LenProperties, ElementOfSeq DEF ExchangeInv
<1>2. /\ now \in Seq(ExchangeOrders) /\ Len(now) = n + Len(new)
      /\ DOMAIN now = 1 .. n + Len(new)
      /\ \A e \in 1 .. n : now[e] = exchange[e]
      /\ \A e \in n + 1 .. n + Len(new) : now[e] = new[e - n] /\ e - n \in DOMAIN new
  <2>1. /\ now \in Seq(ExchangeOrders) /\ Len(now) = n + Len(new)
        /\ \A e \in 1 .. n + Len(new) : now[e] = IF e <= n THEN exchange[e] ELSE new[e - n]
    BY ConcatProperties DEF ExchangeInv
  <2>2. DOMAIN now = 1 .. n + Len(new)
    BY <2>1, LenProperties
  <2> HIDE DEF now
  <2>. QED  BY <1>1, <2>1, <2>2
<1>3. exchange' = now
  OBVIOUS
<1>4. \A e \in 1 .. n : exchange[e].group \in Nat /\ exchange[e].group <= n
  BY <1>1 DEF ExchangeInv, Groups, ExchangeOrders
<1> HIDE DEF now, n
<1>5. \A e \in DOMAIN now : e \in 1 .. n \/ e \in n + 1 .. n + Len(new)
  BY <1>1, <1>2
<1>6. \A e \in n + 1 .. n + Len(new) :
        now[e].group = None \/ (now[e].group = n + 1 /\ now[e].status = New)
  BY <1>2 DEF n
<1>7. \A e \in DOMAIN now : now[e].group <= n + Len(new)
  <2>1. n + 1 <= n + Len(new) /\ None <= n + Len(new)
    BY <1>1 DEF None
  <2>2. \A e \in 1 .. n : now[e].group <= n + Len(new)
    BY <1>1, <1>2, <1>4
  <2>. QED  BY <1>5, <1>6, <2>1, <2>2
<1>8. ASSUME NEW e \in DOMAIN now, NEW f \in DOMAIN now, e # f,
             SameGroup(now[e], now[f]), now[e].status = Filled
      PROVE  now[f].status \notin Live
  <2>1. New # Filled
    BY DEF New, Filled
  <2>2. e \in 1 .. n
    BY <1>5, <1>6, <1>8, <2>1 DEF SameGroup
  <2>3. now[e].group # None /\ now[f].group = now[e].group /\ now[e].group # n + 1
    BY <1>1, <1>2, <1>4, <1>8, <2>2 DEF SameGroup
  <2>4. f \in 1 .. n
    BY <1>5, <1>6, <2>3
  <2>5. now[e] = exchange[e] /\ now[f] = exchange[f]
    BY <1>2, <2>2, <2>4
  <2>. QED  BY <1>1, <1>8, <2>2, <2>4, <2>5 DEF ExchangeInv, Groups
<1>9. Groups(now)
  BY <1>2, <1>7, <1>8 DEF Groups
<1>10. Later(exchange, now)
  <2>1. 1 .. n \subseteq 1 .. n + Len(new)
    BY <1>1
  <2>. QED  BY <1>1, <1>2, <2>1 DEF Later, SameOrder
<1>. QED  BY <1>2, <1>3, <1>9, <1>10 DEF ExchangeInv

-----------------------------------------------------------------------------
(* The steps of the controller *)

\* The other variables hold what they held.
LEMMA ExchangeKeeps ==
  ASSUME ControllerInv, ExchangeInv', Later(exchange, exchange'),
         UNCHANGED <<store, creating, todo, updated, published, restarts>>
  PROVE  ControllerInv' /\ Later(exchange, exchange')
<1>1. CreatingInv'
  BY EntriesLater DEF ControllerInv, CreatingInv
<1>2. StoreInv'
  BY EntriesLater DEF ControllerInv, StoreInv
<1>3. UpdateInv' /\ OutcomesPublished'
  BY DEF ControllerInv, UpdateInv, OutcomesPublished
<1>. QED  BY <1>1, <1>2, <1>3 DEF ControllerInv

LEMMA ExchangeStepKeeps ==
  ASSUME ControllerInv, ExchangeStep
  PROVE  ControllerInv' /\ Later(exchange, exchange')
<1>1. PICK e \in DOMAIN exchange :
        Execute(e, Filled) \/ Execute(e, PartiallyFilled) \/ Drop(e)
  BY DEF ExchangeStep
<1>2. UNCHANGED <<store, creating, todo, updated, published, restarts>>
  BY <1>1 DEF Execute, Drop, volatile
<1>3. ExchangeInv' /\ Later(exchange, exchange')
  <2>1. CASE Execute(e, Filled) \/ Execute(e, PartiallyFilled)
    BY <2>1, ExecuteMoves DEF ControllerInv
  <2>2. CASE Drop(e)
    BY <2>2, CancelMoves DEF ControllerInv, Drop
  <2>. QED  BY <1>1, <2>1, <2>2
<1>. QED  BY <1>2, <1>3, ExchangeKeeps

\* The orders of a create call: what is about to be stored of them is what the
\* exchange answered.
LEMMA AcceptedKeeps ==
  ASSUME ControllerInv, NEW new \in Seq(ExchangeOrders), Accepted(new), Len(new) > 0,
         \/ \A i \in DOMAIN new : new[i].group = None
         \/ \A i \in DOMAIN new : new[i].group = Len(exchange) + 1 /\ new[i].status = New
  PROVE  ControllerInv' /\ Later(exchange, exchange')
<1>1. ExchangeInv' /\ Later(exchange, exchange')
  BY AcceptedMoves DEF ControllerInv, Accepted
<1>2. UNCHANGED <<store, todo, updated, published, restarts>>
  BY DEF Accepted
<1>3. /\ exchange \in Seq(ExchangeOrders) /\ Len(exchange) \in Nat
      /\ Len(new) \in Nat /\ DOMAIN new = 1 .. Len(new)
      /\ \A i \in DOMAIN new : new[i] \in ExchangeOrders
  BY LenProperties, ElementOfSeq DEF ControllerInv, ExchangeInv
<1>4. /\ creating' = [i \in 1 .. Len(new) |-> [eid |-> Len(exchange) + i, status |-> new[i].status]]
      /\ exchange' = exchange \o new
  BY <1>3 DEF Accepted
<1>5. ASSUME NEW i \in 1 .. Len(new)
      PROVE  creating'[i] \in Entries /\ Follows(creating'[i], exchange')
  <2>1. /\ Len(exchange') = Len(exchange) + Len(new) /\ DOMAIN exchange' = 1 .. Len(exchange')
        /\ exchange'[Len(exchange) + i] = new[i]
    <3>1. exchange' \in Seq(ExchangeOrders)
      BY <1>1 DEF ExchangeInv
    <3>2. /\ Len(exchange') = Len(exchange) + Len(new)
          /\ \A j \in 1 .. Len(exchange) + Len(new) :
               exchange'[j] = IF j <= Len(exchange) THEN exchange[j] ELSE new[j - Len(exchange)]
      BY <1>3, <1>4, ConcatProperties
    <3>3. /\ Len(exchange) + i \in 1 .. Len(exchange) + Len(new)
          /\ ~(Len(exchange) + i <= Len(exchange)) /\ (Len(exchange) + i) - Len(exchange) = i
      BY <1>3
    <3>. QED  BY <3>1, <3>2, <3>3, LenProperties
  <2>2. creating'[i].eid = Len(exchange) + i /\ creating'[i].status = new[i].status
    BY <1>4
  <2>3. new[i].status \in ExchangeStatuses /\ Len(exchange) + i \in 1 .. Len(exchange')
    <3>1. new[i] \in ExchangeOrders
      BY <1>3
    <3>2. new[i].status \in ExchangeStatuses
      BY <3>1 DEF ExchangeOrders
    <3>3. Len(exchange) + i \in 1 .. Len(exchange) + Len(new)
      BY <1>3
    <3>. QED  BY <2>1, <3>2, <3>3
  <2>4. creating'[i] \in Entries
    BY <1>3, <1>4, <2>3 DEF Entries, ExchangeStatuses, Statuses
  <2>5. Follows(creating'[i], exchange')
    BY <2>1, <2>2, <2>3
       DEF Follows, ExchangeStatuses, Live, New, PartiallyFilled, Filled, Canceled, PendingCancel
  <2>. QED  BY <2>4, <2>5
<1>6. CreatingInv'
  <2>1. creating' \in [1 .. Len(new) -> Entries] /\ DOMAIN creating' = 1 .. Len(new)
    BY <1>4, <1>5
  <2>2. creating' \in Seq(Entries)
    BY <1>3, <2>1, SeqDef
  <2>. QED  BY <1>5, <2>1, <2>2 DEF CreatingInv
<1>7. StoreInv'
  BY <1>1, <1>2, EntriesLater DEF ControllerInv, StoreInv
<1>8. UpdateInv' /\ OutcomesPublished'
  BY <1>2 DEF ControllerInv, UpdateInv, OutcomesPublished
<1>. QED  BY <1>1, <1>6, <1>7, <1>8 DEF ControllerInv

\* What a create call may send: one order, or the two live legs of a new group.
Sendable(new) ==
  /\ new \in Seq(ExchangeOrders) /\ Len(new) > 0
  /\ \/ \A i \in DOMAIN new : new[i].group = None
     \/ \A i \in DOMAIN new : new[i].group = Len(exchange) + 1 /\ new[i].status = New

LEMMA AloneSendable ==
  ASSUME NEW o \in ExchangeOrders, o.group = None
  PROVE  Sendable(<<o>>)
<1>1. /\ <<o>> \in Seq(ExchangeOrders) /\ Len(<<o>>) > 0
      /\ \A i \in DOMAIN <<o>> : <<o>>[i].group = None
  OBVIOUS
<1>. QED  BY <1>1 DEF Sendable

LEMMA CallsSend ==
  ASSUME ControllerInv, Calls
  PROVE  \E new : Sendable(new) /\ Accepted(new)
<1>1. PICK p \in Pairs, side \in Sides, qty \in Quantities, price \in Prices :
        \/ CreateOrderLimit(p, side, qty, price)
        \/ CreateOrderMarket(p, side, qty, price)
        \/ CreateOrderStop(p, qty, price)
        \/ \E stop, stopLimit \in Prices :
             CreateOrderOCO(p, side, qty, price, stop, stopLimit)
  BY DEF Calls
<1>2. /\ qty \in Nat \ {0} /\ price \in Nat /\ None \in Nat /\ Sell \in Sides
      /\ Len(exchange) + 1 \in Nat
      /\ New \in ExchangeStatuses /\ Filled \in ExchangeStatuses
  <2>1. Len(exchange) \in Nat
    BY LenProperties DEF ControllerInv, ExchangeInv
  <2>. QED  BY <2>1, ControllerAssumption DEF None, Sides, ExchangeStatuses, Live
<1>3. CASE CreateOrderLimit(p, side, qty, price)
  <2> DEFINE o == Order(p, side, price, None, qty, New, None)
  <2>1. o \in ExchangeOrders /\ o.group = None
    BY <1>2 DEF Order, ExchangeOrders
  <2>2. Accepted(<<o>>)
    BY <1>3 DEF CreateOrderLimit
  <2> HIDE DEF o
  <2>. QED  BY <2>1, <2>2, AloneSendable
<1>4. CASE CreateOrderMarket(p, side, qty, price)
  <2> DEFINE o == Order(p, side, price, None, qty, Filled, None)
  <2>1. o \in ExchangeOrders /\ o.group = None
    BY <1>2 DEF Order, ExchangeOrders
  <2>2. Accepted(<<o>>)
    BY <1>4 DEF CreateOrderMarket
  <2> HIDE DEF o
  <2>. QED  BY <2>1, <2>2, AloneSendable
<1>5. CASE CreateOrderStop(p, qty, price)
  <2> DEFINE o == Order(p, Sell, price, price, qty, New, None)
  <2>1. o \in ExchangeOrders /\ o.group = None
    BY <1>2 DEF Order, ExchangeOrders
  <2>2. Accepted(<<o>>)
    BY <1>5 DEF CreateOrderStop
  <2> HIDE DEF o
  <2>. QED  BY <2>1, <2>2, AloneSendable
<1>6. CASE \E stop, stopLimit \in Prices : CreateOrderOCO(p, side, qty, price, stop, stopLimit)
  <2>1. PICK stop \in Prices, stopLimit \in Prices :
          CreateOrderOCO(p, side, qty, price, stop, stopLimit)
    BY <1>6
  <2> DEFINE group == Len(exchange) + 1
             limitLeg == Order(p, side, price, None, qty, New, group)
             stopLeg == Order(p, side, stopLimit, stop, qty, New, group)
  <2>2. stop \in Nat /\ stopLimit \in Nat
    BY ControllerAssumption
  <2>3. /\ limitLeg \in ExchangeOrders /\ limitLeg.group = group /\ limitLeg.status = New
        /\ stopLeg \in ExchangeOrders /\ stopLeg.group = group /\ stopLeg.status = New
    BY <1>2, <2>2 DEF Order, ExchangeOrders
  <2>4. Accepted(<<limitLeg, stopLeg>>)
    BY <2>1 DEF CreateOrderOCO
  <2> HIDE DEF limitLeg, stopLeg
  <2>5. /\ <<limitLeg, stopLeg>> \in Seq(ExchangeOrders) /\ Len(<<limitLeg, stopLeg>>) > 0
        /\ \A i \in DOMAIN <<limitLeg, stopLeg>> :
             /\ <<limitLeg, stopLeg>>[i].group = Len(exchange) + 1
             /\ <<limitLeg, stopLeg>>[i].status = New
    BY <2>3
  <2>. QED  BY <2>4, <2>5 DEF Sendable
<1>. QED  BY <1>1, <1>3, <1>4, <1>5, <1>6

LEMMA CreateKeeps ==
  ASSUME ControllerInv, Calls
  PROVE  ControllerInv' /\ Later(exchange, exchange')
<1>1. PICK new : Sendable(new) /\ Accepted(new)
  BY CallsSend
<1>. QED  BY <1>1, AcceptedKeeps DEF Sendable

\* A sequence over a set is one over a larger set.
LEMMA SeqOfMore ==
  ASSUME NEW S, NEW T, S \subseteq T, NEW q \in Seq(S)
  PROVE  q \in Seq(T)
<1>1. Len(q) \in Nat /\ q \in [1 .. Len(q) -> S]
  BY LenProperties
<1>2. q \in [1 .. Len(q) -> T]
  BY <1>1
<1>. QED  BY <1>1, <1>2, SeqDef

\* Under whatever id the entry is stored: the others stay, and this one is
\* published.
LEMMA StoreCreatedKeeps ==
  ASSUME ControllerInv, StoreCreated
  PROVE  ControllerInv'
<1> DEFINE entry == Head(creating)
<1>1. /\ creating # << >> /\ Stored(entry) /\ Publish(entry.eid, entry.status)
      /\ creating' = Tail(creating) /\ UNCHANGED <<exchange, todo, updated, restarts>>
  BY DEF StoreCreated
<1>2. /\ entry \in Entries /\ Follows(entry, exchange)
      /\ Tail(creating) \in Seq(Entries)
      /\ \A i \in DOMAIN Tail(creating) : Follows(Tail(creating)[i], exchange)
  <2>1. /\ creating \in Seq(Entries) /\ Len(creating) \in Nat /\ Len(creating) > 0
        /\ DOMAIN creating = 1 .. Len(creating)
    BY <1>1, EmptySeq, LenProperties DEF ControllerInv, CreatingInv
  <2>2. entry = creating[1] /\ 1 \in DOMAIN creating
    BY <2>1
  <2>3. /\ Tail(creating) \in Seq(Entries) /\ Len(Tail(creating)) = Len(creating) - 1
        /\ \A i \in 1 .. Len(Tail(creating)) : Tail(creating)[i] = creating[i + 1]
    BY <1>1, <2>1, HeadTailProperties
  <2>4. DOMAIN Tail(creating) = 1 .. Len(creating) - 1
    BY <2>3, LenProperties
  <2>5. ASSUME NEW i \in DOMAIN Tail(creating)
        PROVE  Follows(Tail(creating)[i], exchange)
    <3>1. i + 1 \in DOMAIN creating /\ Tail(creating)[i] = creating[i + 1]
      BY <2>1, <2>3, <2>4
    <3>. QED  BY <3>1 DEF ControllerInv, CreatingInv
  <2>6. entry \in Entries
    BY <2>1, <2>2, ElementOfSeq
  <2>7. Follows(entry, exchange)
    BY <2>2 DEF ControllerInv, CreatingInv
  <2>. QED  BY <2>3, <2>5, <2>6, <2>7
<1> HIDE DEF entry
<1>3. PICK id : Put(id, entry)
  BY <1>1 DEF Stored, BuntCreates, SQLCreates
<1>4. /\ DOMAIN store' = DOMAIN store \cup {id}
      /\ \A i \in DOMAIN store' : store'[i] = IF i = id THEN entry ELSE store[i]
      /\ store' = [i \in DOMAIN store \cup {id} |-> IF i = id THEN entry ELSE store[i]]
  BY <1>3 DEF Put
<1>5. ExchangeInv' /\ CreatingInv'
  BY <1>1, <1>2 DEF ControllerInv, ExchangeInv, CreatingInv
<1>6. StoreInv'
  <2>1. store' \in [DOMAIN store' -> Entries]
    BY <1>2, <1>4 DEF ControllerInv, StoreInv
  <2>2. ASSUME NEW i \in DOMAIN store' PROVE Follows(store'[i], exchange)
    BY <1>2, <1>4 DEF ControllerInv, StoreInv
  <2>. QED  BY <1>1, <2>1, <2>2 DEF StoreInv
<1>7. UpdateInv'
  <2>1. DOMAIN store \subseteq DOMAIN store'
    BY <1>4
  <2>2. updated \in Seq(DOMAIN store')
    BY <2>1, SeqOfMore DEF ControllerInv, UpdateInv
  <2>. QED  BY <1>1, <2>1, <2>2 DEF ControllerInv, UpdateInv
<1>8. OutcomesPublished'
  BY <1>1, <1>4 DEF ControllerInv, OutcomesPublished, Publish
<1>. QED  BY <1>5, <1>6, <1>7, <1>8 DEF ControllerInv

LEMMA StoreFailsKeeps ==
  ASSUME ControllerInv, StoreCreatedFails
  PROVE  ControllerInv'
<1>1. /\ creating' = << >>
      /\ UNCHANGED <<exchange, store, todo, updated, published, restarts>>
  BY DEF StoreCreatedFails
<1>2. CreatingInv'
  BY <1>1 DEF CreatingInv
<1>. QED  BY <1>1, <1>2
          DEF ControllerInv, ExchangeInv, StoreInv, UpdateInv, OutcomesPublished

\* Only after the exchange cancelled the order is anything stored.
LEMMA CancelKeeps ==
  ASSUME ControllerInv, NEW id \in DOMAIN store, Cancel(id)
  PROVE  ControllerInv' /\ Later(exchange, exchange')
<1> DEFINE e == store[id].eid
<1>1. /\ exchange[e].status \in Live
      /\ exchange' = [exchange EXCEPT ![e].status = Canceled]
      /\ \/ store' = [store EXCEPT ![id].status = PendingCancel]
         \/ UNCHANGED store
      /\ UNCHANGED <<creating, todo, updated, published, restarts>>
  BY DEF Cancel, volatile
<1>2. e \in DOMAIN exchange
  BY DEF ControllerInv, StoreInv, Follows
<1> HIDE DEF e
<1>3. ExchangeInv' /\ Later(exchange, exchange') /\ exchange'[e].status = Canceled
  BY <1>1, <1>2, CancelMoves DEF ControllerInv
<1>4. CASE UNCHANGED store
  BY <1>1, <1>3, <1>4, ExchangeKeeps
<1>5. CASE store' = [store EXCEPT ![id].status = PendingCancel]
  <2>1. CreatingInv'
    BY <1>1, <1>3, EntriesLater DEF ControllerInv, CreatingInv
  <2>2. /\ DOMAIN store' = DOMAIN store
        /\ store'[id].eid = e /\ store'[id].status = PendingCancel
        /\ \A i \in DOMAIN store : i # id => store'[i] = store[i]
        /\ store' \in [DOMAIN store -> Entries]
    <3>1. store \in [DOMAIN store -> Entries]
      BY DEF ControllerInv, StoreInv
    <3>. QED  BY <1>5, <3>1 DEF e, Entries, Statuses
  <2>3. Follows(store'[id], exchange')
    <3>1. e \in DOMAIN exchange'
      BY <1>2, <1>3 DEF Later
    <3>. QED  BY <1>3, <2>2, <3>1 DEF Follows, PendingCancel, Filled
  <2>4. \A i \in DOMAIN store : Follows(store[i], exchange')
    BY <1>3, EntriesLater DEF ControllerInv
  <2>5. StoreInv'
    BY <2>2, <2>3, <2>4 DEF StoreInv
  <2>6. UpdateInv'
    BY <1>1, <2>2 DEF ControllerInv, UpdateInv
  <2>7. OutcomesPublished'
    BY <1>1, <2>2
       DEF ControllerInv, OutcomesPublished, PendingCancel, Filled, Canceled
  <2>. QED  BY <1>3, <2>1, <2>5, <2>6, <2>7 DEF ControllerInv
<1>. QED  BY <1>1, <1>4, <1>5

-----------------------------------------------------------------------------
(* updateOrders *)

LEMMA UpdateBeginKeeps ==
  ASSUME ControllerInv, UpdateBegin
  PROVE  ControllerInv'
BY DEF ControllerInv, UpdateBegin, Orders,
       ExchangeInv, CreatingInv, StoreInv, UpdateInv, OutcomesPublished

LEMMA UpdateSkipsKeeps ==
  ASSUME ControllerInv, NEW id \in todo, UpdateSkips(id)
  PROVE  ControllerInv'
BY DEF ControllerInv, UpdateSkips,
       ExchangeInv, CreatingInv, StoreInv, UpdateInv, OutcomesPublished

\* The stored status becomes the one the exchange answers; until the order is
\* processed it is one of the updated.
LEMMA UpdateStoresKeeps ==
  ASSUME ControllerInv, NEW id \in todo, UpdateStores(id)
  PROVE  ControllerInv'
<1> DEFINE e == store[id].eid
           status == exchange[e].status
<1>1. /\ todo' = todo \ {id} /\ updated' = Append(updated, id)
      /\ store' = [store EXCEPT ![id].status = status]
      /\ UNCHANGED <<exchange, creating, published, restarts>>
  BY DEF UpdateStores
<1>2. id \in DOMAIN store /\ store \in [DOMAIN store -> Entries]
  BY DEF ControllerInv, UpdateInv, StoreInv
<1>3. e \in DOMAIN exchange
  BY <1>2 DEF ControllerInv, StoreInv, Follows
<1> HIDE DEF e, status
<1>4. status \in ExchangeStatuses
  <2>1. exchange \in Seq(ExchangeOrders) /\ e \in 1 .. Len(exchange)
    BY <1>3, LenProperties DEF ControllerInv, ExchangeInv
  <2>2. exchange[e] \in ExchangeOrders
    BY <2>1, ElementOfSeq
  <2>. QED  BY <2>2 DEF status, ExchangeOrders
<1>5. /\ DOMAIN store' = DOMAIN store
      /\ store'[id].eid = e /\ store'[id].status = status
      /\ \A i \in DOMAIN store : i # id => store'[i] = store[i]
      /\ store' \in [DOMAIN store -> Entries]
  BY <1>1, <1>2, <1>4 DEF e, Entries, ExchangeStatuses, Statuses
<1>6. Follows(store'[id], exchange)
  BY <1>3, <1>4, <1>5
     DEF status, Follows, ExchangeStatuses, Live, New, PartiallyFilled, Filled, Canceled, PendingCancel
<1>7. StoreInv'
  BY <1>1, <1>5, <1>6 DEF ControllerInv, StoreInv
<1>8. /\ updated' \in Seq(DOMAIN store)
      /\ id \in Range(updated') /\ Range(updated) \subseteq Range(updated')
  <2>1. /\ updated \in Seq(DOMAIN store) /\ Len(updated) \in Nat
        /\ DOMAIN updated = 1 .. Len(updated)
    BY LenProperties DEF ControllerInv, UpdateInv
  <2>2. /\ updated' \in Seq(DOMAIN store) /\ Len(updated') = Len(updated) + 1
        /\ \A i \in 1 .. Len(updated) : updated'[i] = updated[i]
        /\ updated'[Len(updated) + 1] = id
    BY <1>1, <1>2, <2>1, AppendProperties
  <2>3. DOMAIN updated' = 1 .. Len(updated) + 1
    BY <2>2, LenProperties
  <2>. QED  BY <2>1, <2>2, <2>3 DEF Range
<1>9. OutcomesPublished'
  BY <1>1, <1>5, <1>8 DEF ControllerInv, OutcomesPublished, Range
<1>10. UpdateInv'
  BY <1>1, <1>5, <1>8 DEF ControllerInv, UpdateInv
<1>. QED  BY <1>1, <1>7, <1>9, <1>10 DEF ControllerInv, ExchangeInv, CreatingInv

LEMMA UpdateProcessesKeeps ==
  ASSUME ControllerInv, UpdateProcesses
  PROVE  ControllerInv'
<1> DEFINE id == Head(updated)
<1>1. /\ updated # << >> /\ updated' = Tail(updated)
      /\ published' = published \cup {[eid |-> store[id].eid, status |-> store[id].status]}
      /\ UNCHANGED <<exchange, store, creating, todo, restarts>>
  BY DEF UpdateProcesses, Publish
<1>2. updated' \in Seq(DOMAIN store) /\ Range(updated) \subseteq Range(updated') \cup {id}
  <2>1. /\ updated \in Seq(DOMAIN store) /\ Len(updated) \in Nat /\ Len(updated) > 0
        /\ DOMAIN updated = 1 .. Len(updated) /\ id = updated[1]
    BY <1>1, EmptySeq, LenProperties DEF ControllerInv, UpdateInv
  <2>2. /\ updated' \in Seq(DOMAIN store) /\ Len(updated') = Len(updated) - 1
        /\ \A i \in 1 .. Len(updated') : updated'[i] = updated[i + 1]
    BY <1>1, <2>1, HeadTailProperties
  <2>3. DOMAIN updated' = 1 .. Len(updated) - 1
    BY <2>2, LenProperties
  <2>4. ASSUME NEW i \in DOMAIN updated
        PROVE  updated[i] \in Range(updated') \cup {id}
    <3>1. CASE i = 1
      BY <2>1, <3>1
    <3>2. CASE i # 1
      <4>1. i - 1 \in 1 .. Len(updated) - 1 /\ (i - 1) + 1 = i
        BY <2>1, <3>2
      <4>2. updated'[i - 1] = updated[i]
        BY <2>2, <4>1
      <4>. QED  BY <2>3, <4>1, <4>2 DEF Range
    <3>. QED  BY <3>1, <3>2
  <2>. QED  BY <2>2, <2>4 DEF Range
<1> HIDE DEF id
<1>3. OutcomesPublished'
  <2>1. SUFFICES ASSUME restarts = 0, NEW n \in DOMAIN store,
                        store[n].status \in {Filled, Canceled},
                        \A i \in DOMAIN updated' : updated'[i] # n
                 PROVE  [eid |-> store[n].eid, status |-> store[n].status] \in published'
    BY <1>1 DEF OutcomesPublished
  <2>2. CASE n = id
    BY <1>1, <2>2
  <2>3. CASE n # id
    <3>1. n \notin Range(updated)
      BY <1>2, <2>1, <2>3 DEF Range
    <3>2. \A i \in DOMAIN updated : updated[i] # n
      BY <3>1 DEF Range
    <3>. QED  BY <1>1, <2>1, <3>2 DEF ControllerInv, OutcomesPublished
  <2>. QED  BY <2>2, <2>3
<1>. QED  BY <1>1, <1>2, <1>3
          DEF ControllerInv, ExchangeInv, CreatingInv, StoreInv, UpdateInv

LEMMA UpdateEndKeeps ==
  ASSUME ControllerInv, UpdateEnd
  PROVE  ControllerInv'
BY DEF ControllerInv, UpdateEnd,
       ExchangeInv, CreatingInv, StoreInv, UpdateInv, OutcomesPublished

-----------------------------------------------------------------------------
(* Every step *)

LEMMA RestartKeeps ==
  ASSUME ControllerInv, Restart
  PROVE  ControllerInv'
<1>1. /\ restarts \in Nat /\ restarts' = restarts + 1
      /\ creating' = << >> /\ todo' = {} /\ updated' = << >>
      /\ UNCHANGED <<exchange, store>>
  BY DEF ControllerInv, UpdateInv, Restart
<1>2. ExchangeInv' /\ CreatingInv' /\ StoreInv'
  BY <1>1 DEF ControllerInv, ExchangeInv, CreatingInv, StoreInv
<1>3. UpdateInv' /\ OutcomesPublished'
  BY <1>1 DEF UpdateInv, OutcomesPublished
<1>. QED  BY <1>2, <1>3 DEF ControllerInv

LEMMA InitHolds == Init => ControllerInv
<1> SUFFICES ASSUME Init PROVE ControllerInv
  OBVIOUS
<1>1. /\ exchange = << >> /\ creating = << >> /\ todo = {} /\ updated = << >>
      /\ store = << >> /\ DOMAIN store = {} /\ restarts = 0
  BY DEF Init
<1>2. ExchangeInv /\ CreatingInv /\ UpdateInv
  BY <1>1 DEF ExchangeInv, Groups, CreatingInv, UpdateInv
<1>3. StoreInv /\ OutcomesPublished
  BY <1>1 DEF StoreInv, OutcomesPublished
<1>. QED  BY <1>2, <1>3 DEF ControllerInv

LEMMA NextKeeps == ControllerInv /\ [Next]_vars => ControllerInv' /\ Later(exchange, exchange')
<1> SUFFICES ASSUME ControllerInv, [Next]_vars PROVE ControllerInv' /\ Later(exchange, exchange')
  OBVIOUS
<1>0. UNCHANGED exchange => Later(exchange, exchange')
  BY DEF Later, SameOrder
<1>1. CASE Calls
  BY <1>1, CreateKeeps
<1>2. CASE StoreCreated
  BY <1>0, <1>2, StoreCreatedKeeps DEF StoreCreated
<1>3. CASE StoreCreatedFails
  BY <1>0, <1>3, StoreFailsKeeps DEF StoreCreatedFails
<1>4. CASE \E id \in DOMAIN store : Cancel(id)
  BY <1>4, CancelKeeps
<1>5. CASE Update
  <2>1. ControllerInv'
    BY <1>5, UpdateBeginKeeps, UpdateProcessesKeeps, UpdateEndKeeps,
       UpdateSkipsKeeps, UpdateStoresKeeps DEF Update
  <2>2. UNCHANGED exchange
    BY <1>5 DEF Update, UpdateBegin, UpdateProcesses, UpdateEnd, UpdateSkips, UpdateStores
  <2>. QED  BY <1>0, <2>1, <2>2
<1>6. CASE ExchangeStep
  BY <1>6, ExchangeStepKeeps
<1>7. CASE Restart
  BY <1>0, <1>7, RestartKeeps DEF Restart
<1>8. CASE UNCHANGED vars
  BY <1>0, <1>8 DEF vars, ControllerInv,
     ExchangeInv, CreatingInv, StoreInv, UpdateInv, OutcomesPublished
<1>. QED  BY <1>1, <1>2, <1>3, <1>4, <1>5, <1>6, <1>7, <1>8 DEF Next

LEMMA Inductive == Spec => []ControllerInv
BY InitHolds, NextKeeps, PTL DEF Spec

\* The store never says of an order what the exchange did not decide, whatever
\* is cancelled, executed meanwhile, fails or is restarted between two requests
\* of Cancel or updateOrders (order/controller.go, 258-322).
THEOREM StoreFollows == Spec => []StoreFollowsExchange
<1>1. ControllerInv => StoreFollowsExchange
  BY DEF ControllerInv, StoreInv, Follows, StoreFollowsExchange
<1>. QED  BY <1>1, Inductive, PTL

\* Until the process restarts, an order stored as executed or cancelled was
\* handed to the order feed with that status once updateOrders or the create
\* call is done with it (order/controller.go, 157 and 321).
THEOREM OutcomesAnnounced == Spec => []OutcomesPublished
<1>1. ControllerInv => OutcomesPublished
  BY DEF ControllerInv
<1>. QED  BY <1>1, Inductive, PTL

-----------------------------------------------------------------------------
(* The ids of the stored orders *)

\* The ids are numbers with a largest one among them; until a restart BuntDB
\* has used none beyond the one it counted to.
IdsInv ==
  /\ database \in {"buntdb", "sql"} /\ lastID \in Nat
  /\ DOMAIN store \subseteq Nat /\ IsFiniteSet(DOMAIN store)
  /\ \E m \in DOMAIN store \cup {0} : \A id \in DOMAIN store : id <= m
  /\ database = "buntdb" /\ restarts = 0 => \A id \in DOMAIN store : id <= lastID

\* Orders stay stored under their ids.
StoredStay ==
  /\ DOMAIN store \subseteq DOMAIN store'
  /\ \A id \in DOMAIN store : store'[id].eid = store[id].eid

LEMMA LargestIs ==
  ASSUME NEW S, S \subseteq Nat, NEW m \in S, \A x \in S : x <= m
  PROVE  Max(S) = m
<1>1. \A x \in S : m >= x
  OBVIOUS
<1>2. \A x \in S : (\A y \in S : x >= y) => x = m
  OBVIOUS
<1>. QED  BY <1>1, <1>2 DEF Max

\* The store numbers a new order beyond every id it holds, as long as BuntDB's
\* counter was not set back.
LEMMA NewId ==
  ASSUME IdsInv, NEW entry, Stored(entry)
  PROVE  \E id \in Nat :
           /\ Put(id, entry)
           /\ database = "sql" \/ restarts = 0 => id \notin DOMAIN store
           /\ (database = "buntdb" /\ lastID' = id) \/ (database = "sql" /\ lastID' = lastID)
           /\ database = "sql" => \A i \in DOMAIN store : i <= id
<1>1. CASE database = "buntdb" /\ BuntCreates(entry)
  <2>1. Put(lastID + 1, entry) /\ lastID' = lastID + 1
    BY <1>1 DEF BuntCreates
  <2>2. restarts = 0 => lastID + 1 \notin DOMAIN store
    BY <1>1 DEF IdsInv
  <2>. QED  BY <1>1, <2>1, <2>2 DEF IdsInv
<1>2. CASE database = "sql" /\ SQLCreates(entry)
  <2>1. PICK m \in DOMAIN store \cup {0} : \A id \in DOMAIN store : id <= m
    BY DEF IdsInv
  <2>2. m \in Nat /\ DOMAIN store \cup {0} \subseteq Nat
    BY <2>1 DEF IdsInv
  <2>3. \A x \in DOMAIN store \cup {0} : x <= m
    BY <2>1, <2>2
  <2>4. Max(DOMAIN store \cup {0}) = m
    BY <2>2, <2>3, LargestIs
  <2>5. Put(m + 1, entry) /\ lastID' = lastID
    BY <1>2, <2>4 DEF SQLCreates
  <2>6. m + 1 \in Nat /\ m + 1 \notin DOMAIN store /\ \A i \in DOMAIN store : i <= m + 1
    BY <2>1, <2>2 DEF IdsInv
  <2>. QED  BY <1>2, <2>5, <2>6
<1>. QED  BY <1>1, <1>2 DEF Stored

\* What storing an order changes in the store.
LEMMA StoreCreatedPuts ==
  ASSUME IdsInv, StoreCreated
  PROVE  \E id \in Nat :
           /\ DOMAIN store' = DOMAIN store \cup {id}
           /\ store'[id] = Head(creating)
           /\ \A i \in DOMAIN store : i # id => store'[i] = store[i]
           /\ database = "sql" \/ restarts = 0 => id \notin DOMAIN store
           /\ (database = "buntdb" /\ lastID' = id) \/ (database = "sql" /\ lastID' = lastID)
           /\ database = "sql" => \A i \in DOMAIN store : i <= id
<1>1. Stored(Head(creating))
  BY DEF StoreCreated
<1>2. PICK id \in Nat :
        /\ Put(id, Head(creating))
        /\ database = "sql" \/ restarts = 0 => id \notin DOMAIN store
        /\ (database = "buntdb" /\ lastID' = id) \/ (database = "sql" /\ lastID' = lastID)
        /\ database = "sql" => \A i \in DOMAIN store : i <= id
  BY <1>1, NewId
<1>3. store' = [i \in DOMAIN store \cup {id} |-> IF i = id THEN Head(creating) ELSE store[i]]
  BY <1>2 DEF Put
<1>4. /\ DOMAIN store' = DOMAIN store \cup {id} /\ store'[id] = Head(creating)
      /\ \A i \in DOMAIN store : i # id => store'[i] = store[i]
  BY <1>3
<1>. QED  BY <1>2, <1>4

\* No other step adds an order, removes one or makes it another one.
LEMMA OtherSteps ==
  ASSUME ControllerInv, [Next]_vars, ~StoreCreated
  PROVE  /\ DOMAIN store' = DOMAIN store /\ StoredStay /\ UNCHANGED database
         /\ Restart \/ (UNCHANGED restarts /\ lastID' \in {lastID, lastID + 1})
<1> DEFINE Still == UNCHANGED <<store, database, restarts>> /\ lastID' \in {lastID, lastID + 1}
<1>1. CASE Still
  BY <1>1 DEF StoredStay
<1>2. ASSUME NEW id \in DOMAIN store, NEW status, store' = [store EXCEPT ![id].status = status],
             UNCHANGED <<database, restarts, lastID>>
      PROVE  /\ DOMAIN store' = DOMAIN store /\ StoredStay /\ UNCHANGED database
             /\ UNCHANGED restarts /\ lastID' \in {lastID, lastID + 1}
  <2>1. store \in [DOMAIN store -> Entries]
    BY DEF ControllerInv, StoreInv
  <2>. QED  BY <1>2, <2>1 DEF StoredStay, Entries
<1>3. CASE Restart
  BY <1>3 DEF Restart, StoredStay
<1>4. CASE Calls
  <2>1. \E new : Accepted(new)
    BY <1>4 DEF Calls, CreateOrderLimit, CreateOrderMarket, CreateOrderStop, CreateOrderOCO
  <2>. QED  BY <1>1, <2>1 DEF Accepted
<1>5. CASE StoreCreatedFails
  BY <1>1, <1>5 DEF StoreCreatedFails
<1>6. CASE \E id \in DOMAIN store : Cancel(id)
  <2>1. PICK id \in DOMAIN store : Cancel(id)
    BY <1>6
  <2>2. \/ store' = [store EXCEPT ![id].status = PendingCancel]
        \/ UNCHANGED store
    BY <2>1 DEF Cancel
  <2>3. UNCHANGED <<database, restarts, lastID>>
    BY <2>1 DEF Cancel, volatile
  <2>. QED  BY <1>1, <1>2, <2>2, <2>3
<1>7. CASE \E id \in todo : UpdateStores(id)
  <2>1. PICK id \in todo : UpdateStores(id)
    BY <1>7
  <2>2. id \in DOMAIN store
    BY <2>1 DEF ControllerInv, UpdateInv
  <2>3. /\ store' = [store EXCEPT ![id].status = exchange[store[id].eid].status]
        /\ UNCHANGED <<database, restarts, lastID>>
    BY <2>1 DEF UpdateStores
  <2>. QED  BY <1>2, <2>2, <2>3
<1>8. CASE UpdateBegin \/ UpdateProcesses \/ UpdateEnd \/ (\E id \in todo : UpdateSkips(id))
  BY <1>1, <1>8 DEF UpdateBegin, UpdateProcesses, UpdateEnd, UpdateSkips
<1>9. CASE ExchangeStep
  BY <1>1, <1>9 DEF ExchangeStep, Execute, Drop, volatile
<1>10. CASE UNCHANGED vars
  BY <1>1, <1>10 DEF vars
<1>. QED
  BY <1>3, <1>4, <1>5, <1>6, <1>7, <1>8, <1>9, <1>10 DEF Next, Update

LEMMA InitIds == Init => IdsInv
<1> SUFFICES ASSUME Init PROVE IdsInv
  OBVIOUS
<1>1. DOMAIN store = {} /\ lastID = 0 /\ database \in {"buntdb", "sql"}
  BY ControllerAssumption DEF Init
<1>. QED  BY <1>1, FS_EmptySet DEF IdsInv

LEMMA NextIds ==
  ASSUME ControllerInv, IdsInv, [Next]_vars
  PROVE  IdsInv'
<1>1. restarts \in Nat
  BY DEF ControllerInv, UpdateInv
<1>2. CASE StoreCreated
  <2>1. PICK id \in Nat :
           /\ DOMAIN store' = DOMAIN store \cup {id}
           /\ (database = "buntdb" /\ lastID' = id) \/ (database = "sql" /\ lastID' = lastID)
           /\ database = "sql" => \A i \in DOMAIN store : i <= id
           /\ database = "sql" \/ restarts = 0 => id \notin DOMAIN store
    BY <1>2, StoreCreatedPuts
  <2>2. UNCHANGED <<database, restarts>>
    BY <1>2 DEF StoreCreated
  <2>3. PICK m \in DOMAIN store \cup {0} : \A i \in DOMAIN store : i <= m
    BY DEF IdsInv
  <2>4. \E n \in DOMAIN store' \cup {0} : \A i \in DOMAIN store' : i <= n
    <3>1. CASE id <= m
      BY <2>1, <2>3, <3>1
    <3>2. CASE ~(id <= m)
      <4>1. \A i \in DOMAIN store' : i <= id
        BY <2>1, <2>3, <3>2 DEF IdsInv
      <4>. QED  BY <2>1, <4>1
    <3>. QED  BY <3>1, <3>2
  <2>5. DOMAIN store' \subseteq Nat /\ IsFiniteSet(DOMAIN store') /\ lastID' \in Nat
    BY <2>1, FS_AddElement DEF IdsInv
  <2>6. ASSUME database = "buntdb", restarts = 0, NEW i \in DOMAIN store'
        PROVE  i <= lastID'
    <3>1. lastID' = lastID + 1
      BY <1>2, <2>6 DEF StoreCreated, Stored, BuntCreates
    <3>. QED  BY <2>1, <2>6, <3>1 DEF IdsInv
  <2>. QED  BY <2>2, <2>4, <2>5, <2>6 DEF IdsInv
<1>3. CASE ~StoreCreated
  <2>1. /\ DOMAIN store' = DOMAIN store /\ UNCHANGED database
        /\ Restart \/ (UNCHANGED restarts /\ lastID' \in {lastID, lastID + 1})
    BY <1>3, OtherSteps
  <2>2. CASE Restart
    <3>1. lastID' = 0 /\ restarts' # 0
      BY <1>1, <2>2 DEF Restart
    <3>. QED  BY <2>1, <3>1 DEF IdsInv
  <2>3. CASE UNCHANGED restarts /\ lastID' \in {lastID, lastID + 1}
    BY <2>1, <2>3 DEF IdsInv
  <2>. QED  BY <2>1, <2>2, <2>3
<1>. QED  BY <1>2, <1>3

LEMMA IdsInductive == Spec => [](ControllerInv /\ IdsInv)
<1>1. Init => ControllerInv /\ IdsInv
  BY InitHolds, InitIds
<1>2. (ControllerInv /\ IdsInv) /\ [Next]_vars => (ControllerInv /\ IdsInv)'
  BY NextKeeps, NextIds
<1>. QED  BY <1>1, <1>2, PTL DEF Spec

\* Storing an order never replaces another one: over a SQL database at any
\* time, with BuntDB as long as the process runs, however many updates failed
\* or orders were cancelled before (storage/buntdb.go, getID, and storage/sql.go).
THEOREM OrdersStayStored == Spec => StoredOrdersSurvive
<1>1. ASSUME ControllerInv, IdsInv, [Next]_vars, database = "sql" \/ restarts = 0
      PROVE  {store[id].eid : id \in DOMAIN store} \subseteq {store'[id].eid : id \in DOMAIN store'}
  <2>1. StoredStay
    <3>1. CASE StoreCreated
      BY <1>1, <3>1, StoreCreatedPuts DEF StoredStay
    <3>2. CASE ~StoreCreated
      BY <1>1, <3>2, OtherSteps
    <3>. QED  BY <3>1, <3>2
  <2>. QED  BY <2>1 DEF StoredStay
<1>2. (ControllerInv /\ IdsInv) /\ [Next]_vars
        => [(database = "sql" \/ restarts = 0) =>
              {store[id].eid : id \in DOMAIN store} \subseteq {store'[id].eid : id \in DOMAIN store'}]_vars
  BY <1>1
<1>. QED  BY <1>2, IdsInductive, PTL DEF Spec, StoredOrdersSurvive

-----------------------------------------------------------------------------
(* Create calls and updateOrders under the mutex *)

\* One call at a time; updateOrders asks for every order at most once, and no
\* order that is already executed.
UpdatingInv ==
  /\ updating => creating = << >>
  /\ ~updating => todo = {} /\ updated = << >>
  /\ IsInjective(updated)
  /\ todo \cap Range(updated) = {}
  /\ \A id \in todo : store[id].status # Filled

\* Stored as executed, and its trade was processed.
Done == {id \in DOMAIN store : store[id].status = Filled /\ id \notin Range(updated)}

LEMMA RangeOfAppend ==
  ASSUME NEW S, NEW q \in Seq(S), NEW x \in S
  PROVE  /\ Range(Append(q, x)) = Range(q) \cup {x}
         /\ IsInjective(q) /\ x \notin Range(q) => IsInjective(Append(q, x))
<1> DEFINE r == Append(q, x)
           n == Len(q)
<1>1. /\ n \in Nat /\ DOMAIN q = 1 .. n
      /\ DOMAIN r = 1 .. n + 1
      /\ \A i \in 1 .. n : r[i] = q[i]
      /\ r[n + 1] = x
  <2>1. /\ r \in Seq(S) /\ Len(r) = n + 1
        /\ \A i \in 1 .. n : r[i] = q[i]
        /\ r[n + 1] = x
    BY AppendProperties
  <2> HIDE DEF r
  <2>. QED  BY <2>1, LenProperties
<1> HIDE DEF r, n
<1>2. \A i \in 1 .. n + 1 : i \in 1 .. n \/ i = n + 1
  BY <1>1
<1>3. 1 .. n \subseteq 1 .. n + 1 /\ n + 1 \in 1 .. n + 1
  BY <1>1
<1>4. Range(r) = Range(q) \cup {x}
  BY <1>1, <1>2, <1>3 DEF Range
<1>5. ASSUME IsInjective(q), x \notin Range(q), NEW i \in DOMAIN r, NEW j \in DOMAIN r, r[i] = r[j]
      PROVE  i = j
  <2>1. \A k \in 1 .. n : r[k] # x
    BY <1>1, <1>5 DEF Range
  <2>. QED  BY <1>1, <1>2, <1>5, <2>1 DEF IsInjective
<1>. QED  BY <1>4, <1>5 DEF r, IsInjective

LEMMA RangeOfTail ==
  ASSUME NEW S, NEW q \in Seq(S), q # << >>, IsInjective(q)
  PROVE  /\ Head(q) \in Range(q) /\ Head(q) \in S
         /\ Range(Tail(q)) = Range(q) \ {Head(q)}
         /\ IsInjective(Tail(q))
<1> DEFINE r == Tail(q)
           n == Len(q)
<1>1. /\ n \in Nat /\ n > 0 /\ DOMAIN q = 1 .. n /\ Head(q) = q[1]
      /\ DOMAIN r = 1 .. n - 1
      /\ \A i \in 1 .. n - 1 : r[i] = q[i + 1]
  <2>1. n \in Nat /\ n > 0 /\ DOMAIN q = 1 .. n /\ Head(q) = q[1]
    BY EmptySeq, LenProperties
  <2>2. r \in Seq(S) /\ Len(r) = n - 1 /\ \A i \in 1 .. Len(r) : r[i] = q[i + 1]
    BY HeadTailProperties
  <2> HIDE DEF r, n
  <2>. QED  BY <2>1, <2>2, LenProperties
<1> HIDE DEF r, n
<1>2. 1 \in DOMAIN q /\ \A i \in 1 .. n - 1 : i + 1 \in DOMAIN q /\ i + 1 # 1
  BY <1>1
<1>3. \A i \in DOMAIN q : i = 1 \/ (i - 1 \in 1 .. n - 1 /\ (i - 1) + 1 = i)
  BY <1>1
<1>4. ASSUME NEW x PROVE x \in Range(r) <=> x \in Range(q) \ {q[1]}
  <2>1. ASSUME x \in Range(r) PROVE x \in Range(q) /\ x # q[1]
    <3>1. PICK i \in 1 .. n - 1 : x = q[i + 1]
      BY <1>1, <2>1 DEF Range
    <3>. QED  BY <1>2, <3>1 DEF Range, IsInjective
  <2>2. ASSUME x \in Range(q), x # q[1] PROVE x \in Range(r)
    <3>1. PICK i \in DOMAIN q : x = q[i]
      BY <2>2 DEF Range
    <3>2. i - 1 \in 1 .. n - 1 /\ (i - 1) + 1 = i
      BY <1>3, <2>2, <3>1
    <3>3. r[i - 1] = x
      BY <1>1, <3>1, <3>2
    <3>. QED  BY <1>1, <3>2, <3>3 DEF Range
  <2>. QED  BY <2>1, <2>2
<1>5. ASSUME NEW i \in DOMAIN r, NEW j \in DOMAIN r, r[i] = r[j]
      PROVE  i = j
  <2>1. i + 1 = j + 1
    BY <1>1, <1>2, <1>5 DEF IsInjective
  <2>. QED  BY <1>1, <2>1
<1>. QED
  <2>1. Head(q) \in Range(q)
    BY <1>1, <1>2 DEF Range
  <2>2. q[1] \in S
    BY <1>1, <1>2, ElementOfSeq
  <2>. QED  BY <1>1, <1>4, <1>5, <2>1, <2>2 DEF r, IsInjective

\* A step that processes no trade changes nothing of what is done with.
LEMMA QuietSteps ==
  ASSUME ControllerInv, UpdatingInv, [Next]_vars, ~StoreCreated, ~UpdateProcesses, ~Restart
  PROVE  UpdatingInv' /\ Done' = Done /\ UNCHANGED <<position, volume, restarts>>
<1>1. ASSUME UNCHANGED <<store, updated, position, volume, restarts>>, UpdatingInv'
      PROVE  UpdatingInv' /\ Done' = Done /\ UNCHANGED <<position, volume, restarts>>
  BY <1>1 DEF Done
<1>2. CASE Calls
  <2>1. PICK new : Accepted(new)
    BY <1>2 DEF Calls, CreateOrderLimit, CreateOrderMarket, CreateOrderStop, CreateOrderOCO
  <2>2. ~updating
    BY <1>2 DEF Calls, CreateOrderLimit, CreateOrderMarket, CreateOrderStop, CreateOrderOCO,
                MayCreate, Unlocked
  <2>3. UNCHANGED <<store, updating, todo, updated, position, volume, restarts>>
    BY <2>1 DEF Accepted
  <2>. QED  BY <1>1, <2>2, <2>3 DEF UpdatingInv
<1>3. CASE StoreCreatedFails
  BY <1>1, <1>3 DEF StoreCreatedFails, UpdatingInv
<1>4. CASE \E id \in DOMAIN store : Cancel(id)
  <2>1. PICK id \in DOMAIN store : Cancel(id)
    BY <1>4
  <2>2. /\ UNCHANGED <<creating, updating, todo, updated, position, volume, restarts>>
        /\ exchange[store[id].eid].status \in Live /\ ~updating
        /\ store' = [store EXCEPT ![id].status = PendingCancel] \/ UNCHANGED store
    BY <2>1 DEF Cancel, volatile, Unlocked
  <2>3. store[id].status # Filled
    BY <2>2 DEF ControllerInv, StoreInv, Follows, Live, New, PartiallyFilled, Filled
  <2>4. /\ DOMAIN store' = DOMAIN store /\ store'[id].status # Filled
        /\ \A i \in DOMAIN store : i # id => store'[i] = store[i]
    <3>1. store \in [DOMAIN store -> Entries]
      BY DEF ControllerInv, StoreInv
    <3>. QED  BY <2>2, <2>3, <3>1 DEF Entries, PendingCancel, Filled
  <2>5. Done' = Done
    BY <2>2, <2>3, <2>4 DEF Done
  <2>6. UpdatingInv'
    BY <2>2 DEF UpdatingInv
  <2>. QED  BY <2>2, <2>5, <2>6
<1>5. CASE UpdateBegin
  <2>1. /\ todo' = Orders(Live \cup {PendingCancel}) /\ updating' = TRUE
        /\ creating = << >> /\ ~updating
        /\ UNCHANGED <<store, creating, updated, position, volume, restarts>>
    BY <1>5 DEF UpdateBegin, Unlocked
  <2>2. updated = << >> /\ Range(updated) = {}
    BY <2>1 DEF UpdatingInv, Range
  <2>3. \A id \in todo' : store[id].status # Filled
    BY <2>1 DEF Orders, Live, New, PartiallyFilled, PendingCancel, Filled
  <2>. QED  BY <1>1, <2>1, <2>2, <2>3 DEF UpdatingInv
<1>6. CASE \E id \in todo : UpdateSkips(id)
  BY <1>1, <1>6 DEF UpdateSkips, UpdatingInv
<1>7. CASE \E id \in todo : UpdateStores(id)
  <2>1. PICK id \in todo : UpdateStores(id)
    BY <1>7
  <2>2. /\ todo' = todo \ {id} /\ updated' = Append(updated, id)
        /\ store' = [store EXCEPT ![id].status = exchange[store[id].eid].status]
        /\ UNCHANGED <<creating, updating, position, volume, restarts>>
    BY <2>1 DEF UpdateStores
  <2>3. id \in DOMAIN store /\ updated \in Seq(DOMAIN store) /\ store[id].status # Filled
    BY DEF ControllerInv, UpdateInv, UpdatingInv
  <2>4. id \notin Range(updated)
    BY DEF UpdatingInv
  <2>5. Range(updated') = Range(updated) \cup {id} /\ IsInjective(updated')
    BY <2>2, <2>3, <2>4, RangeOfAppend DEF UpdatingInv
  <2>6. DOMAIN store' = DOMAIN store /\ \A i \in DOMAIN store : i # id => store'[i] = store[i]
    BY <2>2
  <2>7. Done' = Done
    BY <2>3, <2>5, <2>6 DEF Done
  <2>8. UpdatingInv'
    <3>1. updating
      BY <2>1 DEF UpdatingInv
    <3>2. \A i \in todo' : i \in DOMAIN store /\ i # id /\ store'[i].status # Filled
      BY <2>2, <2>6 DEF UpdatingInv, ControllerInv, UpdateInv
    <3>3. todo' \cap Range(updated') = {}
      BY <2>2, <2>5 DEF UpdatingInv
    <3>. QED  BY <2>2, <2>5, <3>1, <3>2, <3>3 DEF UpdatingInv
  <2>. QED  BY <2>2, <2>7, <2>8
<1>8. CASE UpdateEnd
  BY <1>1, <1>8 DEF UpdateEnd, UpdatingInv
<1>9. CASE ExchangeStep
  BY <1>1, <1>9 DEF ExchangeStep, Execute, Drop, volatile, UpdatingInv
<1>10. CASE UNCHANGED vars
  BY <1>1, <1>10 DEF vars, UpdatingInv
<1>. QED
  BY <1>2, <1>3, <1>4, <1>5, <1>6, <1>7, <1>8, <1>9, <1>10 DEF Next, Update

\* The two steps that process a trade do so for an order that was not yet done
\* with, and that is from now on if it was executed.
DoneMoves(id) ==
  /\ id \in DOMAIN store' /\ id \notin Done
  /\ \A i \in Done : i \in DOMAIN store' /\ store'[i].eid = store[i].eid
  /\ \A i : i \in Done' <=> i \in Done \/ (i = id /\ store'[id].status = Filled)

LEMMA StoreCreatedDone ==
  ASSUME ControllerInv, IdsInv, UpdatingInv, StoreCreated
  PROVE  /\ UpdatingInv' /\ UNCHANGED <<exchange, restarts>>
         /\ restarts = 0 => \E id : /\ DoneMoves(id)
                                    /\ ProcessTrade(exchange[store'[id].eid], store'[id].status)
<1>1. /\ creating # << >> /\ ~updating /\ todo = {} /\ updated = << >>
      /\ UNCHANGED <<exchange, restarts, updating, todo, updated>>
      /\ ProcessTrade(exchange[Head(creating).eid], Head(creating).status)
  BY DEF StoreCreated, UpdatingInv
<1>2. UpdatingInv'
  BY <1>1 DEF UpdatingInv
<1>3. ASSUME restarts = 0
      PROVE  \E id : DoneMoves(id) /\ ProcessTrade(exchange[store'[id].eid], store'[id].status)
  <2>1. PICK id \in Nat :
          /\ DOMAIN store' = DOMAIN store \cup {id} /\ id \notin DOMAIN store
          /\ store'[id] = Head(creating)
          /\ \A i \in DOMAIN store : i # id => store'[i] = store[i]
    BY <1>3, StoreCreatedPuts
  <2>2. Range(updated) = {} /\ updated' = updated
    BY <1>1 DEF Range
  <2>3. DoneMoves(id)
    BY <2>1, <2>2 DEF DoneMoves, Done
  <2>. QED  BY <1>1, <2>1, <2>3
<1>. QED  BY <1>1, <1>2, <1>3

LEMMA UpdateProcessesDone ==
  ASSUME ControllerInv, UpdatingInv, UpdateProcesses
  PROVE  /\ UpdatingInv' /\ UNCHANGED <<exchange, restarts>>
         /\ \E id : DoneMoves(id) /\ ProcessTrade(exchange[store'[id].eid], store'[id].status)
<1> DEFINE id == Head(updated)
<1>1. /\ todo = {} /\ updated # << >> /\ updated' = Tail(updated)
      /\ UNCHANGED <<exchange, store, creating, updating, todo, restarts>>
      /\ ProcessTrade(exchange[store[id].eid], store[id].status)
  BY DEF UpdateProcesses
<1>2. /\ id \in Range(updated) /\ id \in DOMAIN store
      /\ Range(updated') = Range(updated) \ {id} /\ IsInjective(updated')
  BY <1>1, RangeOfTail DEF ControllerInv, UpdateInv, UpdatingInv
<1> HIDE DEF id
<1>3. updating
  BY <1>1 DEF UpdatingInv
<1>4. UpdatingInv'
  BY <1>1, <1>2, <1>3 DEF UpdatingInv
<1>5. DoneMoves(id)
  BY <1>1, <1>2 DEF DoneMoves, Done
<1>6. ProcessTrade(exchange[store'[id].eid], store'[id].status)
  BY <1>1
<1>. QED  BY <1>1, <1>4, <1>5, <1>6

-----------------------------------------------------------------------------
(* The position and the volume *)

TradesInv ==
  /\ position \in [Pairs -> Positions] /\ volume \in [Pairs -> Nat]
  /\ TradesCountedOnce

\* The orders of a pair that are done with.
DoneOf(p) == {id \in Done : OrderOf(id).pair = p}

LEMMA CountedIsDone == \A p : Counted(p) = DoneOf(p)
BY DEF Counted, StoredAs, DoneOf, Done, Range

LEMMA CountedIsDoneThen == \A p : Counted(p)' = DoneOf(p)'
BY DEF Counted, StoredAs, DoneOf, Done, Range

\* The order behind a stored id can be executed, and counted.
LEMMA OrdersAreFills ==
  ASSUME ControllerInv, NEW id \in DOMAIN store
  PROVE  /\ OrderOf(id) \in ExchangeOrders /\ IsFill(OrderOf(id)) /\ OrderOf(id).pair \in Pairs
         /\ SignedQty[id] = Signed(OrderOf(id).side, OrderOf(id).qty) /\ SignedQty[id] \in Int
         /\ Turnover[id] = OrderOf(id).price * OrderOf(id).qty /\ Turnover[id] \in Nat
<1>1. OrderOf(id) \in ExchangeOrders
  <2>1. store[id].eid \in 1 .. Len(exchange) /\ exchange \in Seq(ExchangeOrders)
    BY LenProperties DEF ControllerInv, StoreInv, ExchangeInv, Follows
  <2>. QED  BY <2>1, ElementOfSeq DEF OrderOf
<1>2. IsFill(OrderOf(id)) /\ OrderOf(id).pair \in Pairs
  BY <1>1 DEF ExchangeOrders, IsFill
<1>3. SignedQty[id] = Signed(OrderOf(id).side, OrderOf(id).qty)
  BY DEF SignedQty
<1>4. Turnover[id] = OrderOf(id).price * OrderOf(id).qty
  BY DEF Turnover
<1>5. Signed(OrderOf(id).side, OrderOf(id).qty) \in Int
  BY <1>2 DEF IsFill, Signed
<1>6. OrderOf(id).price * OrderOf(id).qty \in Nat
  <2>1. \A a, b \in Nat : a * b \in Nat
    BY SMT
  <2>. QED  BY <1>2, <2>1 DEF IsFill
<1>. QED  BY <1>1, <1>2, <1>3, <1>4, <1>5, <1>6

\* What the exchange makes of its orders changes no sum over them.
LEMMA ValuesStay ==
  ASSUME ControllerInv, ControllerInv', Later(exchange, exchange'),
         NEW id \in DOMAIN store, id \in DOMAIN store', store'[id].eid = store[id].eid
  PROVE  /\ OrderOf(id).pair = OrderOf(id)'.pair
         /\ SignedQty'[id] = SignedQty[id] /\ Turnover'[id] = Turnover[id]
<1>1. store[id].eid \in DOMAIN exchange
  BY DEF ControllerInv, StoreInv, Follows
<1>2. SameOrder(OrderOf(id), OrderOf(id)')
  BY <1>1 DEF OrderOf, Later
<1>3. /\ SignedQty[id] = Signed(OrderOf(id).side, OrderOf(id).qty)
      /\ SignedQty'[id] = Signed(OrderOf(id)'.side, OrderOf(id)'.qty)
  BY DEF SignedQty
<1>4. /\ Turnover[id] = OrderOf(id).price * OrderOf(id).qty
      /\ Turnover'[id] = OrderOf(id)'.price * OrderOf(id)'.qty
  BY DEF Turnover
<1>. QED  BY <1>2, <1>3, <1>4 DEF SameOrder

\* The books of one pair.
Books(p) ==
  /\ Net(position[p]) = SumFunctionOnSet(SignedQty, Counted(p))
  /\ volume[p] = SumFunctionOnSet(Turnover, Counted(p))

\* Without a trade the books stay as they are.
LEMMA QuietBooks ==
  ASSUME ControllerInv, ControllerInv', IdsInv, Later(exchange, exchange'), StoredStay,
         Done' = Done, UNCHANGED <<position, volume>>, NEW p \in Pairs, Books(p)
  PROVE  Books(p)'
<1>1. \A id \in Done : /\ id \in DOMAIN store /\ OrderOf(id).pair = OrderOf(id)'.pair
                       /\ SignedQty'[id] = SignedQty[id] /\ SignedQty[id] \in Int
                       /\ Turnover'[id] = Turnover[id] /\ Turnover[id] \in Int
  <2>1. ASSUME NEW id \in Done
        PROVE  /\ id \in DOMAIN store /\ OrderOf(id).pair = OrderOf(id)'.pair
               /\ SignedQty'[id] = SignedQty[id] /\ SignedQty[id] \in Int
               /\ Turnover'[id] = Turnover[id] /\ Turnover[id] \in Int
    <3>1. id \in DOMAIN store /\ id \in DOMAIN store' /\ store'[id].eid = store[id].eid
      BY DEF Done, StoredStay
    <3>. QED  BY <3>1, ValuesStay, OrdersAreFills
  <2>. QED  BY <2>1
<1>2. DoneOf(p)' = DoneOf(p)
  BY <1>1 DEF DoneOf
<1>3. IsFiniteSet(DoneOf(p))
  <2>1. DoneOf(p) \subseteq DOMAIN store
    BY DEF DoneOf, Done
  <2>. QED  BY <2>1, FS_Subset DEF IdsInv
<1>4. \A id \in DoneOf(p) : id \in Done
  BY DEF DoneOf
<1>5. /\ SumFunctionOnSet(SignedQty', DoneOf(p)) = SumFunctionOnSet(SignedQty, DoneOf(p))
      /\ SumFunctionOnSet(Turnover', DoneOf(p)) = SumFunctionOnSet(Turnover, DoneOf(p))
  BY <1>1, <1>3, <1>4, SumMoves
<1>6. Counted(p) = DoneOf(p) /\ Counted(p)' = DoneOf(p)
  BY <1>2, CountedIsDone, CountedIsDoneThen
<1>. QED  BY <1>5, <1>6 DEF Books

\* What processTrade does to the position and the volume of each pair.
LEMMA TradeMoves ==
  ASSUME NEW o \in ExchangeOrders, NEW status, ProcessTrade(o, status),
         position \in [Pairs -> Positions], volume \in [Pairs -> Nat]
  PROVE  /\ position' \in [Pairs -> Positions] /\ volume' \in [Pairs -> Nat]
         /\ \A p \in Pairs :
              IF status = Filled /\ o.pair = p
              THEN /\ Net(position'[p]) = Net(position[p]) + Signed(o.side, o.qty)
                   /\ volume'[p] = volume[p] + o.price * o.qty
              ELSE position'[p] = position[p] /\ volume'[p] = volume[p]
<1>1. o.pair \in Pairs /\ IsFill(o)
  BY DEF ExchangeOrders, IsFill
<1>2. CASE status # Filled
  BY <1>2 DEF ProcessTrade
<1>3. CASE status = Filled
  <2> DEFINE p == o.pair
             now == AfterOrder(position[p], o)
             amount == o.price * o.qty
  <2>1. /\ position' = [position EXCEPT ![p] = now]
        /\ volume' = [volume EXCEPT ![p] = volume[p] + amount]
    BY <1>3 DEF ProcessTrade
  <2>2. position[p] \in Positions /\ volume[p] \in Nat
    BY <1>1
  <2>3. now \in Positions /\ Net(now) = Net(position[p]) + Signed(o.side, o.qty)
    BY <1>1, <2>2, OrderNets
  <2>4. amount \in Nat
    <3>1. \A a, b \in Nat : a * b \in Nat
      BY SMT
    <3>. QED  BY <1>1, <3>1 DEF IsFill
  <2> HIDE DEF now, amount
  <2>5. position' \in [Pairs -> Positions] /\ volume' \in [Pairs -> Nat]
    <3>1. volume[p] + amount \in Nat
      BY <2>2, <2>4
    <3> HIDE DEF p
    <3>2. position' \in [Pairs -> Positions]
      BY <2>1, <2>3
    <3>3. volume' \in [Pairs -> Nat]
      BY <2>1, <3>1
    <3>. QED  BY <3>2, <3>3
  <2>6. /\ position'[p] = now /\ volume'[p] = volume[p] + amount
        /\ \A q \in Pairs : q # p => position'[q] = position[q] /\ volume'[q] = volume[q]
    BY <1>1, <2>1
  <2>. QED  BY <1>3, <2>3, <2>5, <2>6 DEF amount
<1>. QED  BY <1>2, <1>3

\* A trade that is processed moves the position and the volume of its pair by
\* what its order adds to the sums.
LEMMA TradeBooks ==
  ASSUME ControllerInv, ControllerInv', IdsInv, UNCHANGED exchange,
         position \in [Pairs -> Positions], volume \in [Pairs -> Nat],
         NEW id, DoneMoves(id), ProcessTrade(exchange[store'[id].eid], store'[id].status),
         NEW p \in Pairs, Books(p)
  PROVE  Books(p)'
<1> DEFINE o == exchange[store'[id].eid]
           S == DoneOf(p)
           counts == store'[id].status = Filled /\ o.pair = p
<1>1. o \in ExchangeOrders /\ OrderOf(id)' = o
  <2>1. store'[id].eid \in 1 .. Len(exchange) /\ exchange \in Seq(ExchangeOrders)
    BY LenProperties DEF ControllerInv, StoreInv, ExchangeInv, Follows, DoneMoves
  <2>. QED  BY <2>1, ElementOfSeq DEF OrderOf
<1>2. /\ SignedQty'[id] = Signed(o.side, o.qty) /\ SignedQty'[id] \in Int
      /\ Turnover'[id] = o.price * o.qty /\ Turnover'[id] \in Int
  <2>1. SignedQty'[id] = Signed(o.side, o.qty) /\ Turnover'[id] = o.price * o.qty
    BY <1>1 DEF SignedQty, Turnover, DoneMoves
  <2>2. o.price \in Int /\ o.qty \in Int
    BY <1>1 DEF ExchangeOrders
  <2>3. \A a, b \in Int : a * b \in Int
    BY SMT
  <2>4. Signed(o.side, o.qty) \in Int
    BY <2>2 DEF Signed
  <2> HIDE DEF o
  <2>. QED  BY <2>1, <2>2, <2>3, <2>4
<1>3. \A i \in Done : /\ i \in DOMAIN store /\ i # id /\ OrderOf(i).pair = OrderOf(i)'.pair
                      /\ SignedQty'[i] = SignedQty[i] /\ SignedQty[i] \in Int
                      /\ Turnover'[i] = Turnover[i] /\ Turnover[i] \in Int
  <2>1. ASSUME NEW i \in Done
        PROVE  /\ i \in DOMAIN store /\ i # id /\ OrderOf(i).pair = OrderOf(i)'.pair
               /\ SignedQty'[i] = SignedQty[i] /\ SignedQty[i] \in Int
               /\ Turnover'[i] = Turnover[i] /\ Turnover[i] \in Int
    <3>1. i \in DOMAIN store /\ i \in DOMAIN store' /\ store'[i].eid = store[i].eid /\ i # id
      BY DEF Done, DoneMoves
    <3>2. Later(exchange, exchange')
      BY DEF Later, SameOrder
    <3>. QED  BY <3>1, <3>2, ValuesStay, OrdersAreFills
  <2>. QED  BY <2>1
<1>4. /\ \A i \in S : i \in Done
      /\ id \notin S /\ IsFiniteSet(S)
  <2>1. S \subseteq DOMAIN store /\ (\A i \in S : i \in Done) /\ id \notin S
    BY DEF DoneOf, Done, DoneMoves
  <2>. QED  BY <2>1, FS_Subset DEF IdsInv
<1>5. \A i : i \in DoneOf(p)' <=> i \in S \/ (i = id /\ counts)
  <2>1. \A i : i \in DoneOf(p)' <=> i \in Done' /\ OrderOf(i)'.pair = p
    BY DEF DoneOf
  <2>2. \A i : i \in S <=> i \in Done /\ OrderOf(i).pair = p
    BY DEF DoneOf
  <2>3. \A i : i \in Done' <=> i \in Done \/ (i = id /\ store'[id].status = Filled)
    BY DEF DoneMoves
  <2> HIDE DEF S, o
  <2>. QED  BY <1>1, <1>3, <2>1, <2>2, <2>3
<1>6. DoneOf(p)' = IF counts THEN S \cup {id} ELSE S
  BY <1>5
<1> HIDE DEF S, o
<1>7. /\ SumFunctionOnSet(SignedQty, S) \in Int /\ SumFunctionOnSet(Turnover, S) \in Int
      /\ SumFunctionOnSet(SignedQty', S) = SumFunctionOnSet(SignedQty, S)
      /\ SumFunctionOnSet(Turnover', S) = SumFunctionOnSet(Turnover, S)
      /\ SumFunctionOnSet(SignedQty', S \cup {id}) = SumFunctionOnSet(SignedQty, S) + SignedQty'[id]
      /\ SumFunctionOnSet(Turnover', S \cup {id}) = SumFunctionOnSet(Turnover, S) + Turnover'[id]
  BY <1>2, <1>3, <1>4, SumMoves
<1>8. IF counts
      THEN /\ Net(position'[p]) = Net(position[p]) + Signed(o.side, o.qty)
           /\ volume'[p] = volume[p] + o.price * o.qty
      ELSE position'[p] = position[p] /\ volume'[p] = volume[p]
  <2>1. ProcessTrade(o, store'[id].status)
    BY DEF o
  <2>. QED  BY <1>1, <2>1, TradeMoves
<1>9. /\ Net(position[p]) = SumFunctionOnSet(SignedQty, S)
      /\ volume[p] = SumFunctionOnSet(Turnover, S)
  BY CountedIsDone DEF Books, S
<1>10. /\ Net(position'[p]) = SumFunctionOnSet(SignedQty', DoneOf(p)')
       /\ volume'[p] = SumFunctionOnSet(Turnover', DoneOf(p)')
  <2>1. CASE counts
    BY <1>2, <1>6, <1>7, <1>8, <1>9, <2>1
  <2>2. CASE ~counts
    BY <1>6, <1>7, <1>8, <1>9, <2>2
  <2>. QED  BY <2>1, <2>2
<1>. QED  BY <1>10, CountedIsDoneThen DEF Books

LEMMA InitTrades == Init => UpdatingInv /\ TradesInv
<1> SUFFICES ASSUME Init PROVE UpdatingInv /\ TradesInv
  OBVIOUS
<1>1. /\ creating = << >> /\ updating = FALSE /\ todo = {} /\ updated = << >>
      /\ store = << >> /\ DOMAIN store = {}
      /\ position = [p \in Pairs |-> NoPosition] /\ volume = [p \in Pairs |-> 0]
  BY DEF Init
<1>2. UpdatingInv
  BY <1>1 DEF UpdatingInv, IsInjective
<1>3. NoPosition \in Positions /\ Net(NoPosition) = 0
  BY DEF NoPosition, Positions, Sides, Net, Signed
<1>4. \A p \in Pairs : Counted(p) = {}
  BY <1>1 DEF Counted
<1>. QED  BY <1>1, <1>2, <1>3, <1>4, SumEmpty DEF TradesInv, TradesCountedOnce

LEMMA NextTrades ==
  ASSUME ControllerInv, IdsInv, UpdatingInv, TradesInv, [Next]_vars
  PROVE  UpdatingInv' /\ TradesInv'
<1>1. ControllerInv' /\ Later(exchange, exchange') /\ restarts \in Nat
  BY NextKeeps DEF ControllerInv, UpdateInv
<1>2. CASE Restart
  <2>1. /\ updating' = FALSE /\ todo' = {} /\ updated' = << >> /\ creating' = << >>
        /\ position' = [p \in Pairs |-> NoPosition] /\ volume' = [p \in Pairs |-> 0]
        /\ restarts' # 0
    BY <1>1, <1>2 DEF Restart
  <2>2. UpdatingInv'
    BY <2>1 DEF UpdatingInv, IsInjective
  <2>3. NoPosition \in Positions
    BY DEF NoPosition, Positions, Sides
  <2>. QED  BY <2>1, <2>2, <2>3 DEF TradesInv, TradesCountedOnce
<1>3. CASE ~StoreCreated /\ ~UpdateProcesses /\ ~Restart
  <2>1. UpdatingInv' /\ Done' = Done /\ UNCHANGED <<position, volume, restarts>>
    BY <1>3, QuietSteps
  <2>2. StoredStay
    BY <1>3, OtherSteps
  <2>3. ASSUME restarts' = 0, NEW p \in Pairs PROVE Books(p)'
    <3>1. Books(p)
      BY <2>1, <2>3 DEF TradesInv, TradesCountedOnce, Books
    <3>. QED  BY <1>1, <2>1, <2>2, <3>1, QuietBooks
  <2>. QED  BY <2>1, <2>3 DEF TradesInv, TradesCountedOnce, Books
<1>4. CASE StoreCreated \/ UpdateProcesses
  <2>1. /\ UpdatingInv' /\ UNCHANGED <<exchange, restarts>>
        /\ restarts = 0 => \E id : /\ DoneMoves(id)
                                   /\ ProcessTrade(exchange[store'[id].eid], store'[id].status)
    BY <1>4, StoreCreatedDone, UpdateProcessesDone
  <2>2. position \in [Pairs -> Positions] /\ volume \in [Pairs -> Nat]
    BY DEF TradesInv
  <2>3. position' \in [Pairs -> Positions] /\ volume' \in [Pairs -> Nat]
    <3>1. CASE StoreCreated
      <4>1. creating # << >> /\ ProcessTrade(exchange[Head(creating).eid], Head(creating).status)
        BY <3>1 DEF StoreCreated
      <4>2. Head(creating) = creating[1] /\ 1 \in DOMAIN creating
        BY <4>1, EmptySeq, LenProperties DEF ControllerInv, CreatingInv
      <4>3. Head(creating).eid \in DOMAIN exchange
        BY <4>2 DEF ControllerInv, CreatingInv, Follows
      <4>4. exchange[Head(creating).eid] \in ExchangeOrders
        BY <4>3, LenProperties, ElementOfSeq DEF ControllerInv, ExchangeInv
      <4>. QED  BY <2>2, <4>1, <4>4, TradeMoves
    <3>2. CASE UpdateProcesses
      <4>1. updated # << >> /\ ProcessTrade(OrderOf(Head(updated)), store[Head(updated)].status)
        BY <3>2 DEF UpdateProcesses, OrderOf
      <4>2. Head(updated) \in DOMAIN store
        BY <4>1, EmptySeq, LenProperties, ElementOfSeq DEF ControllerInv, UpdateInv
      <4>3. OrderOf(Head(updated)) \in ExchangeOrders
        BY <4>2, OrdersAreFills
      <4>. QED  BY <2>2, <4>1, <4>3, TradeMoves
    <3>. QED  BY <1>4, <3>1, <3>2
  <2>4. ASSUME restarts' = 0, NEW p \in Pairs PROVE Books(p)'
    <3>1. Books(p) /\ restarts = 0
      BY <2>1, <2>4 DEF TradesInv, TradesCountedOnce, Books
    <3>2. PICK id : DoneMoves(id) /\ ProcessTrade(exchange[store'[id].eid], store'[id].status)
      BY <2>1, <3>1
    <3>. QED  BY <1>1, <2>1, <2>2, <3>1, <3>2, TradeBooks
  <2>. QED  BY <2>1, <2>3, <2>4 DEF TradesInv, TradesCountedOnce, Books
<1>. QED  BY <1>2, <1>3, <1>4

\* Until a restart every executed order counts once, and only once, in the
\* position and the volume of its pair, in whatever order calls, ticks and
\* executions come, whatever fails to be stored, is cancelled or is asked for
\* again: a market order when it is created, every other one when updateOrders
\* is the first to find it executed (order/controller.go, 211-233 and 279-342).
THEOREM TradesCount == Spec => []TradesCountedOnce
<1> DEFINE Inv == ControllerInv /\ IdsInv /\ UpdatingInv /\ TradesInv
<1>1. Init => Inv
  BY InitHolds, InitIds, InitTrades
<1>2. Inv /\ [Next]_vars => Inv'
  BY NextKeeps, NextIds, NextTrades
<1>3. Inv => TradesCountedOnce
  BY DEF TradesInv
<1>. QED  BY <1>1, <1>2, <1>3, PTL DEF Spec

-----------------------------------------------------------------------------
(* Every order is known *)

\* As long as the store does not fail and the process runs: one entry for each
\* order of the exchange, stored or about to be.
TrackInv ==
  /\ restarts = 0
  /\ \A e \in DOMAIN exchange : InStore(e) \/ \E i \in DOMAIN creating : creating[i].eid = e
  /\ \A i \in DOMAIN creating : ~InStore(creating[i].eid)
  /\ \A i, j \in DOMAIN creating : creating[i].eid = creating[j].eid => i = j
  /\ \A id1, id2 \in DOMAIN store : store[id1].eid = store[id2].eid => id1 = id2

LEMMA TrackedIsTracked == TrackInv => OrdersTracked
BY DEF TrackInv, OrdersTracked

\* A create call adds an entry for each order that it adds to the exchange.
LEMMA AcceptedTracks ==
  ASSUME ControllerInv, TrackInv, creating = << >>, NEW new, Sendable(new), Accepted(new)
  PROVE  TrackInv'
<1> DEFINE n == Len(exchange)
           k == Len(new)
<1>1. /\ n \in Nat /\ DOMAIN exchange = 1 .. n /\ k \in Nat /\ DOMAIN new = 1 .. k
      /\ exchange' \in Seq(ExchangeOrders) /\ Len(exchange') = n + k
  <2>1. exchange \in Seq(ExchangeOrders) /\ new \in Seq(ExchangeOrders) /\ exchange' = exchange \o new
    BY DEF ControllerInv, ExchangeInv, Sendable, Accepted
  <2>. QED  BY <2>1, LenProperties, ConcatProperties
<1>2. DOMAIN exchange' = 1 .. n + k
  BY <1>1, LenProperties
<1>3. /\ DOMAIN creating' = 1 .. k /\ \A i \in 1 .. k : creating'[i].eid = n + i
      /\ UNCHANGED <<store, restarts>>
  BY <1>1 DEF Accepted
<1> HIDE DEF n, k
<1>4. \A e \in 1 .. n : InStore(e)
  BY <1>1 DEF TrackInv
<1>5. \A id \in DOMAIN store : store[id].eid \in 1 .. n
  BY <1>1 DEF ControllerInv, StoreInv, Follows
<1>6. \A id1, id2 \in DOMAIN store' : store'[id1].eid = store'[id2].eid => id1 = id2
  BY <1>3 DEF TrackInv
<1>7. \A e : InStore(e)' <=> InStore(e)
  BY <1>3 DEF InStore
<1>8. ASSUME NEW e \in 1 .. n + k
      PROVE  InStore(e)' \/ \E i \in DOMAIN creating' : creating'[i].eid = e
  <2>1. CASE e <= n
    BY <1>1, <1>4, <1>7, <2>1
  <2>2. CASE ~(e <= n)
    <3>1. e - n \in 1 .. k /\ n + (e - n) = e
      BY <1>1, <2>2
    <3>. QED  BY <1>3, <3>1
  <2>. QED  BY <2>1, <2>2
<1>9. \A i \in DOMAIN creating', id \in DOMAIN store' : store'[id].eid # creating'[i].eid
  BY <1>1, <1>3, <1>5
<1>10. \A i, j \in DOMAIN creating' : creating'[i].eid = creating'[j].eid => i = j
  BY <1>1, <1>3
<1>. QED  BY <1>2, <1>3, <1>6, <1>8, <1>9, <1>10 DEF TrackInv, InStore

\* Storing the first of the answers moves its entry into the store.
LEMMA StoreCreatedTracks ==
  ASSUME ControllerInv, IdsInv, TrackInv, StoreCreated
  PROVE  TrackInv'
<1> DEFINE e0 == Head(creating).eid
           n == Len(creating)
<1>1. PICK id \in Nat :
        /\ DOMAIN store' = DOMAIN store \cup {id} /\ id \notin DOMAIN store
        /\ store'[id] = Head(creating)
        /\ \A i \in DOMAIN store : i # id => store'[i] = store[i]
  BY StoreCreatedPuts DEF TrackInv
<1>2. creating # << >> /\ creating' = Tail(creating) /\ UNCHANGED <<exchange, restarts>>
  BY DEF StoreCreated
<1>3. /\ n \in Nat /\ n > 0 /\ DOMAIN creating = 1 .. n /\ creating[1].eid = e0
      /\ DOMAIN creating' = 1 .. n - 1
      /\ \A i \in 1 .. n - 1 : creating'[i] = creating[i + 1]
  <2>1. /\ creating \in Seq(Entries) /\ n \in Nat /\ n > 0 /\ DOMAIN creating = 1 .. n
        /\ Head(creating) = creating[1]
    BY <1>2, EmptySeq, LenProperties DEF ControllerInv, CreatingInv
  <2>2. /\ creating' \in Seq(Entries) /\ Len(creating') = n - 1
        /\ \A i \in 1 .. Len(creating') : creating'[i] = creating[i + 1]
    BY <1>2, <2>1, HeadTailProperties
  <2> HIDE DEF n
  <2>. QED  BY <2>1, <2>2, LenProperties
<1> HIDE DEF e0, n
<1>4. store'[id].eid = e0
  BY <1>1 DEF e0
<1>5. \A e : InStore(e)' <=> InStore(e) \/ e = e0
  BY <1>1, <1>4 DEF InStore
<1>6. 1 \in DOMAIN creating /\ ~InStore(e0)
  BY <1>3 DEF TrackInv
<1>7. \A i \in 1 .. n - 1 : i + 1 \in DOMAIN creating /\ i + 1 # 1 /\ creating'[i].eid # e0
  <2>1. \A i \in 1 .. n - 1 : i + 1 \in DOMAIN creating /\ i + 1 # 1
    BY <1>3
  <2>. QED  BY <1>3, <1>6, <2>1 DEF TrackInv
<1>8. ASSUME NEW e \in DOMAIN exchange
      PROVE  InStore(e)' \/ \E i \in DOMAIN creating' : creating'[i].eid = e
  <2>1. CASE InStore(e) \/ e = e0
    BY <1>5, <2>1
  <2>2. CASE ~InStore(e) /\ e # e0
    <3>1. PICK j \in DOMAIN creating : creating[j].eid = e
      BY <2>2 DEF TrackInv
    <3>2. j - 1 \in 1 .. n - 1 /\ (j - 1) + 1 = j
      <4>1. j \in 1 .. n /\ j # 1
        BY <1>3, <2>2, <3>1
      <4>. QED  BY <1>3, <4>1
    <3>3. creating'[j - 1] = creating[j]
      BY <1>3, <3>2
    <3>. QED  BY <1>3, <3>1, <3>2, <3>3
  <2>. QED  BY <2>1, <2>2
<1>9. ASSUME NEW i \in DOMAIN creating', NEW j \in DOMAIN store'
      PROVE  store'[j].eid # creating'[i].eid
  <2>1. i \in 1 .. n - 1 /\ creating'[i] = creating[i + 1] /\ i + 1 \in DOMAIN creating
    BY <1>3, <1>7
  <2>2. CASE j = id
    BY <1>4, <1>7, <2>1, <2>2
  <2>3. CASE j # id
    BY <1>1, <2>1, <2>3 DEF TrackInv, InStore
  <2>. QED  BY <2>2, <2>3
<1>10. ASSUME NEW i \in DOMAIN creating', NEW j \in DOMAIN creating',
              creating'[i].eid = creating'[j].eid
       PROVE  i = j
  <2>1. i \in 1 .. n - 1 /\ j \in 1 .. n - 1
    BY <1>3
  <2>2. creating'[i] = creating[i + 1] /\ creating'[j] = creating[j + 1]
    BY <1>3, <2>1
  <2>3. i + 1 \in DOMAIN creating /\ j + 1 \in DOMAIN creating
    BY <1>7, <2>1
  <2>4. creating[i + 1].eid = creating[j + 1].eid
    BY <1>10, <2>2
  <2>5. i + 1 = j + 1
    BY <2>3, <2>4 DEF TrackInv
  <2>. QED  BY <1>3, <2>1, <2>5
<1>11. \A i \in DOMAIN store : store[i].eid # e0 /\ store'[i] = store[i]
  BY <1>1, <1>6 DEF InStore
<1>12. \A id1, id2 \in DOMAIN store' : store'[id1].eid = store'[id2].eid => id1 = id2
  BY <1>1, <1>4, <1>11 DEF TrackInv
<1>. QED  BY <1>2, <1>8, <1>9, <1>10, <1>12 DEF TrackInv, InStore

\* The other steps leave every order and every entry where they are.
LEMMA OtherTracks ==
  ASSUME ControllerInv, TrackInv, [Next]_vars, ~Calls, ~StoreCreated, ~Restart, ~StoreCreatedFails
  PROVE  TrackInv'
<1>1. DOMAIN store' = DOMAIN store /\ StoredStay /\ UNCHANGED restarts
  BY OtherSteps
<1>2. UNCHANGED creating /\ DOMAIN exchange' = DOMAIN exchange
  <2>1. CASE Update
    BY <2>1 DEF Update, UpdateBegin, UpdateProcesses, UpdateEnd, UpdateSkips, UpdateStores
  <2>2. CASE \E id \in DOMAIN store : Cancel(id)
    BY <2>2 DEF Cancel, volatile
  <2>3. CASE ExchangeStep
    BY <2>3 DEF ExchangeStep, Execute, Drop, volatile
  <2>4. CASE UNCHANGED vars
    BY <2>4 DEF vars
  <2>. QED  BY <2>1, <2>2, <2>3, <2>4 DEF Next
<1>3. \A e : InStore(e)' <=> InStore(e)
  BY <1>1 DEF InStore, StoredStay
<1>. QED  BY <1>1, <1>2, <1>3 DEF TrackInv, StoredStay

\* Every order that the exchange accepted is stored, once, or about to be: no
\* order is unknown to updateOrders and none is asked for twice.  It takes a
\* store that does not fail and a process that is not restarted: either one
\* loses the answers that a create call still holds (order/controller.go,
\* 139-255).
THEOREM EveryOrderTracked ==
  ASSUME StoreFails = FALSE, MaxRestarts = 0
  PROVE  Spec => []OrdersTracked
<1> DEFINE Inv == ControllerInv /\ IdsInv /\ TrackInv
<1>1. Init => TrackInv
  <2>1. SUFFICES ASSUME Init PROVE TrackInv
    OBVIOUS
  <2>2. /\ restarts = 0 /\ creating = << >> /\ exchange = << >> /\ store = << >>
        /\ DOMAIN store = {} /\ DOMAIN exchange = {} /\ DOMAIN creating = {}
    BY <2>1 DEF Init
  <2>. QED  BY <2>2 DEF TrackInv
<1>2. Inv /\ [Next]_vars => Inv'
  <2>1. SUFFICES ASSUME Inv, [Next]_vars PROVE TrackInv'
    BY NextKeeps, NextIds
  <2>2. ~Restart /\ ~StoreCreatedFails
    BY <2>1 DEF Restart, StoreCreatedFails, TrackInv
  <2>3. CASE Calls
    <3>1. PICK new : Sendable(new) /\ Accepted(new)
      BY <2>1, <2>3, CallsSend
    <3>2. creating = << >>
      BY <2>3 DEF Calls, CreateOrderLimit, CreateOrderMarket, CreateOrderStop, CreateOrderOCO,
                  MayCreate, Unlocked
    <3>. QED  BY <2>1, <3>1, <3>2, AcceptedTracks
  <2>4. CASE StoreCreated
    BY <2>1, <2>4, StoreCreatedTracks
  <2>5. CASE ~Calls /\ ~StoreCreated
    BY <2>1, <2>2, <2>5, OtherTracks
  <2>. QED  BY <2>3, <2>4, <2>5
<1>3. Init => Inv
  BY <1>1, InitHolds, InitIds
<1>4. Inv => OrdersTracked
  BY TrackedIsTracked
<1>. QED  BY <1>2, <1>3, <1>4, PTL DEF Spec
=============================================================================
