------------------------ MODULE BinanceOrdersProofs -------------------------
(***************************************************************************)
(* The controller's books of a Binance account, for any filter, prices,    *)
(* quantities and holding: what the position follows, what is stored of a  *)
(* finished order, and that rounding never leads out of the filter.        *)
(***************************************************************************)
EXTENDS BinanceOrders, BookkeepingTheorems, SequenceTheorems

-----------------------------------------------------------------------------
(* The filter and the rounding of quantities *)

LEMMA ProductsAreNat == \A a, b \in Nat : a * b \in Nat
BY SMT

LEMMA Division ==
  ASSUME NEW x \in Nat, NEW s \in Nat \ {0}
  PROVE  /\ x \div s \in Nat /\ x % s \in Nat /\ x % s < s
         /\ x = (x \div s) * s + (x % s)
BY SMT

LEMMA MultipleOf ==
  ASSUME NEW x \in Nat, NEW s \in Nat \ {0}, x % s = 0
  PROVE  \E k \in Nat : x = k * s
<1> DEFINE k == x \div s
           r == x % s
<1>1. k \in Nat /\ x = k * s + r /\ k * s \in Nat
  BY Division, ProductsAreNat
<1>2. r = 0
  OBVIOUS
<1> HIDE DEF k, r
<1>. QED  BY <1>1, <1>2

LEMMA MultiplesDivide ==
  ASSUME NEW k \in Nat, NEW s \in Nat \ {0}
  PROVE  (k * s) % s = 0
BY SMT

\* Of two multiples, the one with the larger factor is larger by a step or more.
LEMMA NextMultiple ==
  ASSUME NEW a \in Nat, NEW b \in Nat, NEW s \in Nat, a < b
  PROVE  a * s + s <= b * s
<1>1. PICK d \in Nat : b = a + 1 + d
  <2>1. b - a - 1 \in Nat /\ b = a + 1 + (b - a - 1)
    OBVIOUS
  <2>. QED  BY <2>1
<1>2. b * s = a * s + s + d * s
  BY <1>1, SMT
<1>3. d * s \in Nat /\ a * s \in Nat
  BY ProductsAreNat
<1>. QED  BY <1>2, <1>3

\* A rounded quantity is a multiple of the step, at most a step away.
LEMMA FormattedIs ==
  ASSUME NEW q \in Nat
  PROVE  \E k \in Nat, h \in Nat :
           /\ Formatted(q) = k * StepSize /\ k * StepSize \in Nat
           /\ h < StepSize /\ k * StepSize <= q + h /\ q + h < k * StepSize + StepSize
<1> DEFINE h == StepSize \div 2
           k == (q + h) \div StepSize
<1>1. StepSize \in Nat \ {0}
  BY BinanceAssumption
<1>2. h \in Nat /\ h < StepSize
  BY <1>1
<1> HIDE DEF h
<1>3. /\ k \in Nat /\ (q + h) % StepSize \in Nat /\ (q + h) % StepSize < StepSize
      /\ q + h = k * StepSize + ((q + h) % StepSize)
  BY <1>1, <1>2, Division
<1>4. Formatted(q) = k * StepSize
  BY DEF Formatted, AssetInfo, h
<1> DEFINE r == (q + h) % StepSize
           m == k * StepSize
<1>5. m \in Nat
  BY <1>1, <1>3, ProductsAreNat
<1>6. k \in Nat /\ r \in Nat /\ r < StepSize /\ q + h = m + r /\ Formatted(q) = m
  BY <1>3, <1>4
<1> HIDE DEF r
<1>7. m <= q + h /\ q + h < m + StepSize
  <2> HIDE DEF m
  <2>. QED  BY <1>1, <1>2, <1>5, <1>6
<1> HIDE DEF k
<1>. QED  BY <1>2, <1>5, <1>6, <1>7

\* What validateOrder lets through still meets the filter once it is rounded.
LEMMA FilterPasses ==
  ASSUME NEW q \in Nat, Validates(q)
  PROVE  MeetsLotSize(Formatted(q)) /\ Formatted(q) \in Nat \ {0}
<1>1. /\ StepSize \in Nat \ {0} /\ MinQuantity \in Nat \ {0} /\ MaxQuantity \in Nat
      /\ MinQuantity % StepSize = 0 /\ MaxQuantity % StepSize = 0
  BY BinanceAssumption
<1>2. PICK k \in Nat, h \in Nat :
        /\ Formatted(q) = k * StepSize /\ k * StepSize \in Nat
        /\ h < StepSize /\ k * StepSize <= q + h /\ q + h < k * StepSize + StepSize
  BY FormattedIs
<1>3. PICK a \in Nat : MinQuantity = a * StepSize
  BY <1>1, MultipleOf
<1>4. PICK b \in Nat : MaxQuantity = b * StepSize
  BY <1>1, MultipleOf
<1>5. a * StepSize <= q /\ q <= b * StepSize /\ a * StepSize \in Nat /\ b * StepSize \in Nat
  BY <1>1, <1>3, <1>4 DEF Validates, AssetInfo
<1>6. ~(k < a)
  <2>1. SUFFICES ASSUME k < a PROVE FALSE
    OBVIOUS
  <2>2. k * StepSize + StepSize <= a * StepSize
    BY <1>1, <2>1, NextMultiple
  <2>. QED  BY <1>1, <1>2, <1>5, <2>2
<1>7. ~(b < k)
  <2>1. SUFFICES ASSUME b < k PROVE FALSE
    OBVIOUS
  <2>2. b * StepSize + StepSize <= k * StepSize
    BY <1>1, <2>1, NextMultiple
  <2>. QED  BY <1>1, <1>2, <1>5, <2>2
<1>8. a * StepSize <= k * StepSize
  <2>1. CASE a = k
    BY <1>2, <2>1
  <2>2. CASE a < k
    <3>1. a * StepSize + StepSize <= k * StepSize
      BY <1>1, <2>2, NextMultiple
    <3>. QED  BY <1>1, <1>2, <1>5, <3>1
  <2>. QED  BY <1>6, <2>1, <2>2
<1>9. k * StepSize <= b * StepSize
  <2>1. CASE b = k
    BY <1>2, <2>1
  <2>2. CASE k < b
    <3>1. k * StepSize + StepSize <= b * StepSize
      BY <1>1, <2>2, NextMultiple
    <3>. QED  BY <1>1, <1>2, <1>5, <3>1
  <2>. QED  BY <1>7, <2>1, <2>2
<1>10. (k * StepSize) % StepSize = 0
  BY <1>1, MultiplesDivide
<1>. QED  BY <1>1, <1>2, <1>3, <1>4, <1>5, <1>8, <1>9, <1>10 DEF MeetsLotSize

-----------------------------------------------------------------------------
(* Orders and what is stored of them *)

OrderStatuses == {New, PartiallyFilled, Filled, Canceled, Expired}
Placed  == [side : Sides, sent : Nat \ {0}, price : Nat, executed : Nat, cost : Nat,
            status : OrderStatuses, group : Nat]
Entries == [status : OrderStatuses \cup {PendingCancel}, qty : Nat]

\* An order executes up to what was sent, and is filled with exactly that.
Sound(o) == o.executed <= o.sent /\ (o.status = Filled => o.executed = o.sent)

\* An entry that is final says what the exchange decided and executed.
Agrees(entry, o) ==
  entry.status \in {Filled, Canceled} =>
    entry.status = o.status /\ (o.executed > 0 => entry.qty = o.executed)

\* Beside an executed leg of an OCO none is open.
OneLeg(o, q) == SameGroup(o, q) /\ o.status = Filled => q.status \notin Live

\* The exchange's orders and the controller's store, one entry for each order.
OrdersInv ==
  /\ orders \in Seq(Placed) /\ store \in Seq(Entries) /\ Len(store) = Len(orders)
  /\ \A e \in 1 .. Len(orders) :
       /\ orders[e].group <= Len(orders) /\ Sound(orders[e]) /\ Agrees(store[e], orders[e])
       /\ \A f \in 1 .. Len(orders) : e # f => OneLeg(orders[e], orders[f])

LEMMA Sizes ==
  ASSUME OrdersInv
  PROVE  /\ Len(orders) \in Nat
         /\ DOMAIN orders = 1 .. Len(orders) /\ DOMAIN store = 1 .. Len(orders)
         /\ orders \in [1 .. Len(orders) -> Placed] /\ store \in [1 .. Len(orders) -> Entries]
         /\ \A e \in 1 .. Len(orders) : orders[e] \in Placed /\ store[e] \in Entries
BY LenProperties, ElementOfSeq DEF OrdersInv

\* Functions on the numbers of the orders, with the same facts, are such orders.
LEMMA SameSizes ==
  ASSUME OrdersInv, orders' \in [1 .. Len(orders) -> Placed], store' \in [1 .. Len(orders) -> Entries],
         \A e \in 1 .. Len(orders) :
           /\ orders'[e].group = orders[e].group /\ Sound(orders'[e]) /\ Agrees(store'[e], orders'[e])
           /\ \A f \in 1 .. Len(orders) : e # f => OneLeg(orders'[e], orders'[f])
  PROVE  OrdersInv' /\ Len(orders') = Len(orders)
<1>1. Len(orders) \in Nat
  BY Sizes
<1>2. orders' \in Seq(Placed) /\ store' \in Seq(Entries)
  BY <1>1, SeqDef
<1>3. Len(orders') = Len(orders) /\ Len(store') = Len(orders)
  BY <1>1, <1>2, LenProperties
<1>. QED  BY <1>2, <1>3 DEF OrdersInv

\* New orders, each with its entry: alone or as open legs of a new group.
LEMMA OrdersExtend ==
  ASSUME OrdersInv, NEW new \in Seq(Placed), NEW told \in Seq(Entries), Len(told) = Len(new),
         orders' = orders \o new, store' = store \o told, Len(new) > 0,
         \A i \in 1 .. Len(new) :
           /\ Sound(new[i]) /\ Agrees(told[i], new[i])
           /\ new[i].group = None \/ (new[i].group = Len(orders) + 1 /\ new[i].status = New)
  PROVE  /\ OrdersInv' /\ Len(orders') = Len(orders) + Len(new)
         /\ \A e \in 1 .. Len(orders) : orders'[e] = orders[e] /\ store'[e] = store[e]
         /\ \A i \in 1 .. Len(new) :
              orders'[Len(orders) + i] = new[i] /\ store'[Len(orders) + i] = told[i]
<1> DEFINE n == Len(orders)
           k == Len(new)
<1>1. /\ n \in Nat /\ k \in Nat /\ k > 0
      /\ \A i \in 1 .. k : new[i] \in Placed /\ told[i] \in Entries
      /\ \A e \in 1 .. n : orders[e] \in Placed /\ store[e] \in Entries
  BY Sizes, LenProperties, ElementOfSeq
<1>2. /\ orders' \in Seq(Placed) /\ Len(orders') = n + k
      /\ \A e \in 1 .. n + k : orders'[e] = IF e <= n THEN orders[e] ELSE new[e - n]
  BY ConcatProperties DEF OrdersInv
<1>3. /\ store' \in Seq(Entries) /\ Len(store') = n + k
      /\ \A e \in 1 .. n + k : store'[e] = IF e <= n THEN store[e] ELSE told[e - n]
  <2>1. store \in Seq(Entries) /\ Len(store) = n /\ Len(told) = k
    BY DEF OrdersInv
  <2>2. /\ store' \in Seq(Entries) /\ Len(store') = Len(store) + Len(told)
        /\ \A e \in 1 .. Len(store) + Len(told) :
             store'[e] = IF e <= Len(store) THEN store[e] ELSE told[e - Len(store)]
    <3> HIDE DEF n, k
    <3>1. store \in Seq(Entries) /\ told \in Seq(Entries) /\ store' = store \o told
      BY <2>1
    <3>2. ASSUME NEW a \in Seq(Entries), NEW b \in Seq(Entries)
          PROVE  /\ a \o b \in Seq(Entries) /\ Len(a \o b) = Len(a) + Len(b)
                 /\ \A e \in 1 .. Len(a) + Len(b) :
                      (a \o b)[e] = IF e <= Len(a) THEN a[e] ELSE b[e - Len(a)]
      BY ConcatProperties
    <3>3. /\ store \o told \in Seq(Entries) /\ Len(store \o told) = Len(store) + Len(told)
          /\ \A e \in 1 .. Len(store) + Len(told) :
               (store \o told)[e] = IF e <= Len(store) THEN store[e] ELSE told[e - Len(store)]
      BY <3>1, <3>2, Zenon
    <3>. QED  BY <3>1, <3>3, Zenon
  <2>. QED  BY <2>1, <2>2
<1>4. /\ \A e \in 1 .. n : /\ e \in 1 .. n + k /\ e <= n
      /\ \A i \in 1 .. k : n + i \in 1 .. n + k /\ ~(n + i <= n) /\ (n + i) - n = i
      /\ \A e \in 1 .. n + k : e \in 1 .. n \/ (e - n \in 1 .. k /\ ~(e <= n))
  BY <1>1
<1>5. /\ \A e \in 1 .. n : orders'[e] = orders[e] /\ store'[e] = store[e]
      /\ \A i \in 1 .. k : orders'[n + i] = new[i] /\ store'[n + i] = told[i]
      /\ \A e \in 1 .. n + k : e \in 1 .. n \/
           (e - n \in 1 .. k /\ orders'[e] = new[e - n] /\ store'[e] = told[e - n])
  BY <1>2, <1>3, <1>4
<1>6. /\ \A e \in 1 .. n : orders[e].group \in Nat /\ orders[e].group <= n
      /\ \A i \in 1 .. k : new[i].group \in Nat
      /\ None = 0
  BY <1>1 DEF OrdersInv, Placed, None
<1>7. \A e \in 1 .. n + k : Sound(orders'[e]) /\ Agrees(store'[e], orders'[e])
  BY <1>5 DEF OrdersInv
<1>8. \A e \in 1 .. n + k : orders'[e].group <= n + k
  <2>1. \A e \in 1 .. n : orders'[e].group <= n + k
    BY <1>1, <1>5, <1>6
  <2>2. ASSUME NEW i \in 1 .. k PROVE new[i].group <= n + k
    <3>1. n \in Nat /\ k \in Nat /\ k > 0
      BY <1>1
    <3>2. new[i].group = 0 \/ new[i].group = n + 1
      BY <1>6
    <3> HIDE DEF n, k
    <3>. QED  BY <3>1, <3>2
  <2>. QED  BY <1>5, <2>1, <2>2
<1>9. ASSUME NEW e \in 1 .. n + k, NEW f \in 1 .. n + k, e # f
      PROVE  OneLeg(orders'[e], orders'[f])
  <2>1. SUFFICES ASSUME SameGroup(orders'[e], orders'[f]), orders'[e].status = Filled
                 PROVE  orders'[f].status \notin Live
    BY DEF OneLeg
  <2>2. e \in 1 .. n
    BY <1>5, <2>1 DEF SameGroup, New, Filled
  <2>3. orders'[f].group # None /\ orders'[f].group <= n
    BY <1>5, <1>6, <2>1, <2>2 DEF SameGroup
  <2>4. f \in 1 .. n
    <3>1. SUFFICES ASSUME f \notin 1 .. n PROVE FALSE
      OBVIOUS
    <3>2. PICK i \in 1 .. k : orders'[f] = new[i]
      BY <1>5, <3>1
    <3>3. new[i].group = None \/ new[i].group = n + 1
      OBVIOUS
    <3>4. n + 1 <= n
      BY <2>3, <3>2, <3>3
    <3>. QED  BY <1>1, <3>4
  <2>5. OneLeg(orders[e], orders[f])
    BY <1>9, <2>2, <2>4 DEF OrdersInv
  <2>. QED  BY <1>5, <2>1, <2>2, <2>4, <2>5 DEF OneLeg
<1>10. OrdersInv'
  <2> HIDE DEF n, k
  <2>. QED  BY <1>2, <1>3, <1>7, <1>8, <1>9 DEF OrdersInv
<1>. QED  BY <1>2, <1>5, <1>10

\* One order on its own.
LEMMA OrderPlaced ==
  ASSUME OrdersInv, NEW o \in Placed, NEW entry \in Entries, Sound(o), Agrees(entry, o),
         o.group = None, orders' = Append(orders, o), store' = Append(store, entry)
  PROVE  /\ OrdersInv' /\ Len(orders') = Len(orders) + 1
         /\ \A e \in 1 .. Len(orders) : orders'[e] = orders[e] /\ store'[e] = store[e]
         /\ orders'[Len(orders) + 1] = o /\ store'[Len(orders) + 1] = entry
<1>1. orders \in Seq(Placed) /\ store \in Seq(Entries)
  BY DEF OrdersInv
<1>2. orders' = orders \o <<o>> /\ store' = store \o <<entry>>
  BY <1>1, AppendIsConcat
<1>3. /\ <<o>> \in Seq(Placed) /\ Len(<<o>>) = 1 /\ <<o>>[1] = o
      /\ <<entry>> \in Seq(Entries) /\ Len(<<entry>>) = 1 /\ <<entry>>[1] = entry
  OBVIOUS
<1>4. PICK new \in Seq(Placed), told \in Seq(Entries) :
        /\ Len(new) = 1 /\ new[1] = o /\ Len(told) = 1 /\ told[1] = entry
        /\ orders' = orders \o new /\ store' = store \o told
  BY <1>2, <1>3
<1>5. \A i \in 1 .. Len(new) :
        /\ Sound(new[i]) /\ Agrees(told[i], new[i])
        /\ new[i].group = None \/ (new[i].group = Len(orders) + 1 /\ new[i].status = New)
  BY <1>4
<1>6. Len(told) = Len(new) /\ Len(new) > 0 /\ 1 \in 1 .. Len(new)
  BY <1>4
<1>. QED  BY <1>4, <1>5, <1>6, OrdersExtend

-----------------------------------------------------------------------------
(* The sum of what is executed and not counted *)

Outstanding == SumFunctionOnSet(Executions, Uncounted)

LEMMA SumsOfOrders ==
  ASSUME NEW os \in Seq(Placed), NEW f, NEW U, U \subseteq 1 .. Len(os),
         \A e \in 1 .. Len(os) : f[e] = Signed(os[e].side, os[e].executed)
  PROVE  /\ IsFiniteSet(U) /\ SumFunctionOnSet(f, U) \in Int
         /\ \A e \in 1 .. Len(os) : f[e] \in Int
<1>1. Len(os) \in Nat
  BY LenProperties
<1>2. IsFiniteSet(U)
  <2>1. IsFiniteSet(1 .. Len(os))
    BY <1>1, FS_Interval
  <2>. QED  BY <2>1, FS_Subset
<1>3. ASSUME NEW e \in 1 .. Len(os)
      PROVE  f[e] \in Int
  <2>1. os[e] \in Placed
    BY ElementOfSeq
  <2>2. os[e].executed \in Nat
    BY <2>1 DEF Placed
  <2>3. Signed(os[e].side, os[e].executed) \in Int
    BY <2>2 DEF Signed
  <2>. QED  BY <2>3
<1>4. \A e \in U : f[e] \in Int
  BY <1>3
<1>5. SumFunctionOnSet(f, U) \in Int
  BY <1>2, <1>4, SumInt
<1>. QED  BY <1>2, <1>3, <1>5

LEMMA Uncounteds ==
  ASSUME OrdersInv
  PROVE  /\ Uncounted \subseteq 1 .. Len(orders) /\ IsFiniteSet(Uncounted)
         /\ \A e \in 1 .. Len(orders) :
              /\ Executions[e] = Signed(orders[e].side, orders[e].executed)
              /\ Executions[e] \in Int
              /\ (e \in Uncounted) <=> (store[e].status # Filled)
         /\ Outstanding \in Int
<1> DEFINE os == orders
           st == store
           f  == Executions
           U  == Uncounted
<1>1. os \in Seq(Placed) /\ DOMAIN os = 1 .. Len(os)
  BY LenProperties DEF OrdersInv
<1>2. /\ f = [e \in DOMAIN os |-> Signed(os[e].side, os[e].executed)]
      /\ U = {e \in DOMAIN os : st[e].status # Filled}
  BY DEF Executions, Uncounted
<1>3. Outstanding = SumFunctionOnSet(f, U)
  BY DEF Outstanding
<1> HIDE DEF os, st, f, U
<1>4. U \subseteq 1 .. Len(os)
  BY <1>1, <1>2
<1>5. \A e \in 1 .. Len(os) : f[e] = Signed(os[e].side, os[e].executed)
  BY <1>1, <1>2
<1>6. \A e \in 1 .. Len(os) : (e \in U) <=> (st[e].status # Filled)
  BY <1>1, <1>2
<1>7. /\ IsFiniteSet(U) /\ SumFunctionOnSet(f, U) \in Int
      /\ \A e \in 1 .. Len(os) : f[e] \in Int
  BY <1>1, <1>4, <1>5, SumsOfOrders, Zenon
<1>8. \A e \in 1 .. Len(os) : /\ f[e] = Signed(os[e].side, os[e].executed)
                              /\ f[e] \in Int
                              /\ (e \in U) <=> (st[e].status # Filled)
  BY <1>5, <1>6, <1>7, Zenon
<1>. QED  BY <1>3, <1>4, <1>7, <1>8, Zenon DEF os, st, f, U

\* The same of the next state.
LEMMA UncountedsNext ==
  ASSUME OrdersInv'
  PROVE  /\ Uncounted' \subseteq 1 .. Len(orders') /\ IsFiniteSet(Uncounted')
         /\ \A e \in 1 .. Len(orders') :
              /\ Executions'[e] = Signed(orders'[e].side, orders'[e].executed)
              /\ Executions'[e] \in Int
              /\ (e \in Uncounted') <=> (store'[e].status # Filled)
         /\ Outstanding' = SumFunctionOnSet(Executions', Uncounted')
         /\ Outstanding' \in Int
<1> DEFINE os == orders'
           st == store'
           f  == Executions'
           U  == Uncounted'
<1>1. os \in Seq(Placed) /\ DOMAIN os = 1 .. Len(os)
  BY LenProperties DEF OrdersInv
<1>2. /\ f = [e \in DOMAIN os |-> Signed(os[e].side, os[e].executed)]
      /\ U = {e \in DOMAIN os : st[e].status # Filled}
  BY DEF Executions, Uncounted
<1>3. Outstanding' = SumFunctionOnSet(f, U)
  BY DEF Outstanding
<1> HIDE DEF os, st, f, U
<1>4. U \subseteq 1 .. Len(os)
  BY <1>1, <1>2
<1>5. \A e \in 1 .. Len(os) : f[e] = Signed(os[e].side, os[e].executed)
  BY <1>1, <1>2
<1>6. \A e \in 1 .. Len(os) : (e \in U) <=> (st[e].status # Filled)
  BY <1>1, <1>2
<1>7. /\ IsFiniteSet(U) /\ SumFunctionOnSet(f, U) \in Int
      /\ \A e \in 1 .. Len(os) : f[e] \in Int
  BY <1>1, <1>4, <1>5, SumsOfOrders, Zenon
<1>8. \A e \in 1 .. Len(os) : /\ f[e] = Signed(os[e].side, os[e].executed)
                              /\ f[e] \in Int
                              /\ (e \in U) <=> (st[e].status # Filled)
  BY <1>5, <1>6, <1>7, Zenon
<1>. QED  BY <1>3, <1>4, <1>7, <1>8, Zenon DEF os, st, f, U

\* A new order adds what it has executed, unless it is counted at once.
LEMMA PlacedAdds ==
  ASSUME OrdersInv, OrdersInv', Len(orders') = Len(orders) + 1,
         \A e \in 1 .. Len(orders) : orders'[e] = orders[e] /\ store'[e] = store[e]
  PROVE  /\ store'[Len(orders) + 1].status = Filled => Outstanding' = Outstanding
         /\ store'[Len(orders) + 1].status # Filled =>
              Outstanding' = Outstanding + Executions'[Len(orders) + 1]
<1>1. /\ Uncounted \subseteq 1 .. Len(orders) /\ IsFiniteSet(Uncounted) /\ Len(orders) \in Nat
      /\ \A e \in Uncounted : Executions[e] \in Int
      /\ Outstanding = SumFunctionOnSet(Executions, Uncounted)
  BY Uncounteds, Sizes DEF Outstanding
<1>2. PICK n : n = Len(orders) + 1 /\ n \notin 1 .. Len(orders)
  BY <1>1
<1>3. 1 .. Len(orders') = (1 .. Len(orders)) \cup {n}
  BY <1>1, <1>2
<1>4. \A e \in 1 .. Len(orders) :
        Executions'[e] = Executions[e] /\ ((e \in Uncounted') <=> (e \in Uncounted))
  BY <1>3, Uncounteds, UncountedsNext
<1>5. \A e \in Uncounted : Executions[e] \in Int /\ Executions'[e] = Executions[e]
  BY <1>1, <1>4
<1>6. /\ SumFunctionOnSet(Executions', Uncounted) = SumFunctionOnSet(Executions, Uncounted)
      /\ \A x : x \notin Uncounted /\ Executions'[x] \in Int =>
           SumFunctionOnSet(Executions', Uncounted \cup {x})
             = SumFunctionOnSet(Executions, Uncounted) + Executions'[x]
  <2>1. PICK f, g, U : f = Executions /\ g = Executions' /\ U = Uncounted
    OBVIOUS
  <2>2. IsFiniteSet(U) /\ \A x \in U : f[x] \in Int /\ g[x] = f[x]
    BY <1>1, <1>5, <2>1
  <2>3. /\ SumFunctionOnSet(g, U) = SumFunctionOnSet(f, U)
        /\ \A x : x \notin U /\ g[x] \in Int =>
             SumFunctionOnSet(g, U \cup {x}) = SumFunctionOnSet(f, U) + g[x]
    BY <2>2, SumMoves
  <2>. QED  BY <2>1, <2>3
<1>7. /\ Executions'[n] \in Int /\ ((n \in Uncounted') <=> (store'[n].status # Filled))
      /\ Uncounted' \subseteq (1 .. Len(orders)) \cup {n}
  BY <1>3, UncountedsNext
<1>8. ASSUME store'[n].status = Filled PROVE Outstanding' = Outstanding
  <2>1. Uncounted' = Uncounted
    BY <1>1, <1>2, <1>4, <1>7, <1>8
  <2>. QED  BY <1>1, <1>6, <2>1, UncountedsNext
<1>9. ASSUME store'[n].status # Filled PROVE Outstanding' = Outstanding + Executions'[n]
  <2>1. Uncounted' = Uncounted \cup {n} /\ n \notin Uncounted
    BY <1>1, <1>2, <1>4, <1>7, <1>9
  <2>. QED  BY <1>1, <1>6, <1>7, <2>1, UncountedsNext
<1>. QED  BY <1>2, <1>8, <1>9

\* What happens to one order that is not counted moves the sum by that order.
LEMMA ChangeMoves ==
  ASSUME OrdersInv, OrdersInv', Len(orders') = Len(orders),
         NEW a \in 1 .. Len(orders), store[a].status # Filled,
         \A e \in 1 .. Len(orders) : e # a =>
           /\ orders'[e].side = orders[e].side /\ orders'[e].executed = orders[e].executed
           /\ (store'[e].status = Filled) <=> (store[e].status = Filled)
  PROVE  /\ store'[a].status = Filled => Outstanding' = Outstanding - Executions[a]
         /\ store'[a].status # Filled =>
              Outstanding' = Outstanding - Executions[a] + Executions'[a]
<1> DEFINE rest == Uncounted \ {a}
<1>1. /\ Uncounted \subseteq 1 .. Len(orders) /\ IsFiniteSet(Uncounted) /\ a \in Uncounted
      /\ \A e \in Uncounted : Executions[e] \in Int
      /\ Outstanding = SumFunctionOnSet(Executions, Uncounted)
  BY Uncounteds DEF Outstanding
<1>2. Outstanding = Executions[a] + SumFunctionOnSet(Executions, rest)
  BY <1>1, SumRemove
<1>3. /\ Uncounted' \subseteq 1 .. Len(orders) /\ IsFiniteSet(Uncounted')
      /\ Executions'[a] \in Int
      /\ \A e \in Uncounted' : Executions'[e] \in Int
      /\ (a \in Uncounted') <=> (store'[a].status # Filled)
      /\ Outstanding' = SumFunctionOnSet(Executions', Uncounted')
  BY UncountedsNext
<1>4. \A e \in 1 .. Len(orders) : e # a =>
        Executions'[e] = Executions[e] /\ ((e \in Uncounted') <=> (e \in Uncounted))
  BY Uncounteds, UncountedsNext
<1>5. IsFiniteSet(rest) /\ \A e \in rest : Executions[e] \in Int /\ Executions'[e] = Executions[e]
  BY <1>1, <1>4, FS_RemoveElement
<1>6. /\ SumFunctionOnSet(Executions, rest) \in Int
      /\ SumFunctionOnSet(Executions', rest) = SumFunctionOnSet(Executions, rest)
  <2> HIDE DEF rest
  <2>. QED  BY <1>5, SumMoves
<1>7. Uncounted' \ {a} = rest
  BY <1>1, <1>3, <1>4
<1>8. ASSUME store'[a].status = Filled PROVE Outstanding' = SumFunctionOnSet(Executions', rest)
  <2>1. Uncounted' = rest
    BY <1>3, <1>7, <1>8
  <2>. QED  BY <1>3, <2>1
<1>9. ASSUME store'[a].status # Filled
      PROVE  Outstanding' = Executions'[a] + SumFunctionOnSet(Executions', rest)
  <2>1. a \in Uncounted'
    BY <1>3, <1>9
  <2>2. PICK g, U : g = Executions' /\ U = Uncounted'
    OBVIOUS
  <2>3. IsFiniteSet(U) /\ a \in U /\ \A e \in U : g[e] \in Int
    BY <1>3, <2>1, <2>2
  <2>4. SumFunctionOnSet(g, U) = g[a] + SumFunctionOnSet(g, U \ {a})
    <3>1. ASSUME NEW T, IsFiniteSet(T), NEW c \in T, \A e \in T : g[e] \in Int
          PROVE  SumFunctionOnSet(g, T) = g[c] + SumFunctionOnSet(g, T \ {c})
      BY <3>1, SumRemove
    <3>. QED  BY <2>3, <3>1
  <2>. QED  BY <1>3, <1>7, <2>2, <2>4
<1>10. Executions[a] \in Int
  BY <1>1
<1> HIDE DEF rest
<1>. QED  BY <1>2, <1>3, <1>6, <1>8, <1>9, <1>10

\* Two new orders that have executed nothing leave the sum as it is.
LEMMA TwoPlaced ==
  ASSUME OrdersInv, OrdersInv', Len(orders') = Len(orders) + 2,
         \A e \in 1 .. Len(orders) : orders'[e] = orders[e] /\ store'[e] = store[e],
         \A i \in 1 .. 2 : /\ orders'[Len(orders) + i].executed = 0
                           /\ store'[Len(orders) + i].status # Filled
  PROVE  Outstanding' = Outstanding
<1>1. /\ Uncounted \subseteq 1 .. Len(orders) /\ IsFiniteSet(Uncounted) /\ Len(orders) \in Nat
      /\ \A e \in Uncounted : Executions[e] \in Int
      /\ Outstanding = SumFunctionOnSet(Executions, Uncounted) /\ Outstanding \in Int
  BY Uncounteds, Sizes DEF Outstanding
<1>2. PICK m, n : /\ m = Len(orders) + 1 /\ m \notin 1 .. Len(orders)
                  /\ n = Len(orders) + 2 /\ n \notin 1 .. Len(orders) /\ m # n
  BY <1>1
<1>3. /\ 1 .. Len(orders') = (1 .. Len(orders)) \cup {m, n}
      /\ orders'[m].executed = 0 /\ store'[m].status # Filled
      /\ orders'[n].executed = 0 /\ store'[n].status # Filled
  BY <1>1, <1>2
<1>4. PICK f, g, U, V : /\ f = Executions /\ g = Executions' /\ U = Uncounted
                        /\ V = Uncounted \cup {m}
  OBVIOUS
<1>5. \A e \in 1 .. Len(orders) : g[e] = f[e] /\ ((e \in Uncounted') <=> (e \in U))
  BY <1>3, <1>4, Uncounteds, UncountedsNext
<1>6. /\ g[m] = 0 /\ g[n] = 0 /\ m \in Uncounted' /\ n \in Uncounted'
      /\ Uncounted' \subseteq (1 .. Len(orders)) \cup {m, n}
      /\ Outstanding' = SumFunctionOnSet(g, Uncounted')
  BY <1>3, <1>4, UncountedsNext DEF Signed
<1>7. IsFiniteSet(U) /\ \A e \in U : f[e] \in Int /\ g[e] = f[e]
  BY <1>1, <1>4, <1>5
<1>8. /\ m \notin U /\ n \notin V /\ IsFiniteSet(V) /\ \A e \in V \cup {n} : g[e] \in Int
      /\ V = U \cup {m} /\ Uncounted' = V \cup {n}
  <2>1. m \notin U /\ n \notin V /\ V = U \cup {m}
    BY <1>1, <1>2, <1>4
  <2>2. IsFiniteSet(V)
    BY <1>7, <2>1, FS_AddElement
  <2>3. \A e \in V \cup {n} : g[e] \in Int
    BY <1>6, <1>7, <2>1
  <2>4. Uncounted' = V \cup {n}
    BY <1>1, <1>4, <1>5, <1>6, <2>1
  <2>. QED  BY <2>1, <2>2, <2>3, <2>4
<1>9. SumFunctionOnSet(g, V) = SumFunctionOnSet(f, U) + g[m]
  <2>1. g[m] \in Int /\ V = U \cup {m} /\ m \notin U
    BY <1>6, <1>8
  <2>2. \A x : x \notin U /\ g[x] \in Int =>
          SumFunctionOnSet(g, U \cup {x}) = SumFunctionOnSet(f, U) + g[x]
    BY <1>7, SumMoves
  <2>. QED  BY <2>1, <2>2
<1>10. SumFunctionOnSet(g, V \cup {n}) = g[n] + SumFunctionOnSet(g, V)
  BY <1>8, SumAdd
<1>. QED  BY <1>1, <1>4, <1>6, <1>8, <1>9, <1>10

-----------------------------------------------------------------------------
(* The books *)

BooksInv ==
  /\ market \in {"spot", "futures"} /\ asset \in Int /\ position \in Positions
  /\ PositionFollowsAccount /\ FilterNeverRejects

\* The books still agree when position, sum and account move by the same.
LEMMA BooksFollow ==
  ASSUME OrdersInv, OrdersInv', BooksInv, UNCHANGED <<market, rejected>>,
         asset' \in Int, position' \in Positions,
         Net(position') - Net(position) + (Outstanding' - Outstanding) = asset' - asset
  PROVE  BooksInv'
<1>1. \A p \in Positions : Net(p) \in Int
  BY DEF Positions, Net, Signed
<1>2. /\ Net(position) \in Int /\ Net(position') \in Int /\ asset \in Int
      /\ Outstanding \in Int /\ Outstanding' \in Int
      /\ Spot' = Spot /\ (IF Spot THEN Holding ELSE 0) \in Int
  BY <1>1, Uncounteds, UncountedsNext, BinanceAssumption DEF BooksInv, Spot
<1>3. Net(position) + Outstanding = asset - (IF Spot THEN Holding ELSE 0)
  BY DEF BooksInv, PositionFollowsAccount, Outstanding
<1> DEFINE h == IF Spot THEN Holding ELSE 0
<1>4. Net(position') + Outstanding' = asset' - h
  <2>1. h \in Int /\ Net(position) + Outstanding = asset - h
    BY <1>2, <1>3
  <2> HIDE DEF h
  <2>. QED  BY <1>2, <2>1
<1>5. PositionFollowsAccount'
  BY <1>2, <1>4 DEF PositionFollowsAccount, Outstanding
<1>. QED  BY <1>5 DEF BooksInv, FilterNeverRejects

LEMMA NothingChanges ==
  ASSUME OrdersInv, BooksInv, UNCHANGED vars
  PROVE  OrdersInv' /\ BooksInv'
<1>1. OrdersInv'
  BY DEF vars, OrdersInv
<1>2. BooksInv'
  BY DEF vars, BooksInv, PositionFollowsAccount, FilterNeverRejects, Executions, Uncounted, Spot
<1>. QED  BY <1>1, <1>2

-----------------------------------------------------------------------------
(* What is stored of an order *)

\* An average price is a price.
LEMMA Averages == \A a \in Nat, b \in Nat \ {0} : a \div b \in Nat
BY SMT

LEMMA ConvertedFits ==
  ASSUME NEW o \in Placed, Sound(o)
  PROVE  /\ Stored(Converted(o)) \in Entries /\ Agrees(Stored(Converted(o)), o)
         /\ Stored(Converted(o)).status = o.status /\ Converted(o).status = o.status
         /\ o.status = Filled =>
              /\ IsFill(Converted(o))
              /\ Converted(o).side = o.side /\ Converted(o).qty = o.executed
<1>1. /\ o.side \in Sides /\ o.sent \in Nat \ {0} /\ o.price \in Nat
      /\ o.executed \in Nat /\ o.cost \in Nat /\ o.status \in OrderStatuses
  BY DEF Placed
<1>2. o.executed > 0 => o.cost \div o.executed \in Nat
  BY <1>1, Averages
<1>3. /\ Converted(o).side = o.side /\ Converted(o).status = o.status
      /\ Converted(o).stop = 0 /\ Converted(o).qty \in Nat
      /\ Converted(o).price \in Nat
      /\ o.executed > 0 => Converted(o).qty = o.executed
  BY <1>1, <1>2 DEF Converted, None
<1>4. Stored(Converted(o)) = [status |-> o.status, qty |-> Converted(o).qty]
  BY <1>3 DEF Stored
<1>5. Stored(Converted(o)) \in Entries /\ Agrees(Stored(Converted(o)), o)
  BY <1>1, <1>3, <1>4 DEF Entries, Agrees
<1>6. o.status = Filled => o.executed > 0 /\ o.executed \in Nat \ {0}
  BY <1>1 DEF Sound
<1>. QED  BY <1>1, <1>3, <1>4, <1>5, <1>6 DEF IsFill

-----------------------------------------------------------------------------
(* The create methods *)

\* A new order that has executed nothing.
LEMMA NewOrder ==
  ASSUME NEW side \in Sides, NEW q \in Nat, Validates(q), NEW price \in Prices, NEW group \in Nat
  PROVE  /\ Order(side, q, price, 0, New, group) \in Placed
         /\ Sound(Order(side, q, price, 0, New, group))
         /\ Order(side, q, price, 0, New, group).executed = 0
         /\ Order(side, q, price, 0, New, group).status = New
         /\ Order(side, q, price, 0, New, group).group = group
<1> DEFINE o == Order(side, q, price, 0, New, group)
<1>1. Formatted(q) \in Nat \ {0} /\ price \in Nat /\ price * 0 \in Nat
  BY FilterPasses, BinanceAssumption, ProductsAreNat
<1>2. o = [side |-> side, sent |-> Formatted(q), price |-> price, executed |-> 0,
           cost |-> price * 0, status |-> New, group |-> group]
  BY DEF Order
<1> HIDE DEF o
<1>3. o \in Placed
  BY <1>1, <1>2 DEF Placed, OrderStatuses
<1>4. Sound(o) /\ o.executed = 0 /\ o.status = New /\ o.group = group
  BY <1>1, <1>2 DEF Sound, New, Filled
<1>. QED  BY <1>3, <1>4 DEF o

\* Nothing validated is rejected for its lot size: what is left is a refusal or
\* what the method does with an accepted order.
LEMMA LimitStep ==
  ASSUME OrdersInv, BooksInv, NEW side \in Sides, NEW q \in Nat, NEW price \in Prices,
         CreateOrderLimit(side, q, price)
  PROVE  OrdersInv' /\ BooksInv'
<1> DEFINE o == Order(side, q, price, 0, New, None)
           entry == Stored(Converted(o))
<1>1. CASE UNCHANGED vars
  BY <1>1, NothingChanges
<1>2. CASE /\ Validates(q) /\ orders' = Append(orders, o) /\ store' = Append(store, entry)
           /\ UNCHANGED <<asset, position, market, rejected>>
  <2>1. None \in Nat
    BY DEF None
  <2>2. o \in Placed /\ Sound(o) /\ o.executed = 0 /\ o.status = New /\ o.group = None
    BY <1>2, <2>1, NewOrder
  <2> HIDE DEF o
  <2>3. entry \in Entries /\ Agrees(entry, o) /\ entry.status = New
    BY <2>2, ConvertedFits
  <2> HIDE DEF entry
  <2>4. /\ OrdersInv' /\ Len(orders') = Len(orders) + 1
        /\ \A e \in 1 .. Len(orders) : orders'[e] = orders[e] /\ store'[e] = store[e]
        /\ orders'[Len(orders) + 1] = o /\ store'[Len(orders) + 1] = entry
    BY <1>2, <2>2, <2>3, OrderPlaced
  <2>5. Len(orders) + 1 \in 1 .. Len(orders')
    BY <2>4, Sizes
  <2>6. Outstanding' = Outstanding + Executions'[Len(orders) + 1]
    BY <2>3, <2>4, PlacedAdds DEF New, Filled
  <2>7. Executions'[Len(orders) + 1] = 0
    BY <2>2, <2>4, <2>5, UncountedsNext DEF Signed
  <2>8. Outstanding' = Outstanding /\ Outstanding \in Int
    BY <2>6, <2>7, Uncounteds
  <2>9. asset' = asset /\ position' = position /\ UNCHANGED <<market, rejected>>
    BY <1>2
  <2>10. Net(position) \in Int /\ asset \in Int /\ position \in Positions
    BY DEF BooksInv, Positions, Net, Signed
  <2>11. BooksInv'
    BY <2>4, <2>8, <2>9, <2>10, BooksFollow
  <2>. QED  BY <2>4, <2>11
<1>. QED
  BY <1>1, <1>2, FilterPasses DEF CreateOrderLimit, Requested, Refused

\* A market order: what it executed is counted if it is filled, and waits for a
\* poll, or is dropped as expired, if not.
LEMMA AnsweredStep ==
  ASSUME OrdersInv, BooksInv, NEW side \in Sides, NEW q, NEW sent \in Nat \ {0},
         NEW price \in Prices, NEW x \in Answerable(sent),
         AnsweredMarket(side, q, sent, price, x), UNCHANGED <<market, rejected>>
  PROVE  OrdersInv' /\ BooksInv'
<1> DEFINE status == IF x = sent THEN Filled ELSE IF Spot THEN Expired ELSE New
           o == [Order(side, q, price, x, status, None) EXCEPT !.sent = sent]
           answer == MarketAnswer(q, o)
           entry == Stored(answer)
<1>1. x \in Nat /\ x <= sent /\ price \in Nat /\ price * x \in Nat
  <2>1. x \in Nat /\ x <= sent /\ price \in Nat
    BY BinanceAssumption DEF Answerable
  <2>. QED  BY <2>1, ProductsAreNat
<1>2. o = [side |-> side, sent |-> sent, price |-> price, executed |-> x,
           cost |-> price * x, status |-> status, group |-> None]
  BY DEF Order
<1>3. status \in OrderStatuses /\ ((status = Filled) <=> (x = sent))
  BY DEF OrderStatuses, New, Filled, Expired
<1>4. /\ orders' = Append(orders, o) /\ store' = Append(store, entry)
      /\ asset' = asset + Signed(side, x) /\ ProcessTrade(answer)
  BY DEF AnsweredMarket
<1> HIDE DEF status, o
<1>5. o \in Placed /\ Sound(o) /\ o.group = None /\ o.executed = x /\ o.side = side
  BY <1>1, <1>2, <1>3 DEF Placed, Sound, None
<1>6. /\ answer.side = side /\ answer.status = status /\ answer.qty = x /\ answer.stop = 0
      /\ x > 0 => answer.price \in Nat
  <2>1. o.status = status /\ o.cost = price * x
    BY <1>2
  <2>2. x > 0 => o.cost \div x \in Nat
    BY <1>1, <2>1, Averages
  <2>. QED  BY <1>5, <2>1, <2>2 DEF MarketAnswer, None
<1>7. entry = [status |-> status, qty |-> x]
  BY <1>6 DEF Stored
<1> HIDE DEF answer, entry
<1>8. entry \in Entries /\ Agrees(entry, o) /\ entry.status = status
  BY <1>1, <1>2, <1>3, <1>7 DEF Entries, Agrees
<1>9. /\ OrdersInv' /\ Len(orders') = Len(orders) + 1
      /\ \A e \in 1 .. Len(orders) : orders'[e] = orders[e] /\ store'[e] = store[e]
      /\ orders'[Len(orders) + 1] = o /\ store'[Len(orders) + 1] = entry
  BY <1>4, <1>5, <1>8, OrderPlaced
<1>10. Len(orders) + 1 \in 1 .. Len(orders')
  BY <1>9, Sizes
<1>11. Executions'[Len(orders) + 1] = Signed(side, x)
  BY <1>5, <1>9, <1>10, UncountedsNext
<1>12. Signed(side, x) \in Int /\ asset \in Int /\ position \in Positions /\ asset' \in Int
  BY <1>1, <1>4 DEF Signed, BooksInv
<1>13. /\ Net(position) \in Int /\ Outstanding \in Int
  BY <1>12, Uncounteds DEF Positions, Net, Signed
<1>14. CASE x = sent
  <2>1. IsFill(answer) /\ Counts(answer)
    BY <1>1, <1>3, <1>6, <1>14 DEF IsFill, Counts
  <2>2. position' = AfterOrder(position, answer)
    BY <1>4, <2>1 DEF ProcessTrade
  <2>3. position' \in Positions /\ Net(position') = Net(position) + Signed(side, x)
    BY <1>6, <1>12, <2>1, <2>2, OrderNets
  <2>4. Outstanding' = Outstanding
    BY <1>3, <1>8, <1>9, <1>14, PlacedAdds
  <2>. QED  BY <1>4, <1>9, <1>12, <1>13, <2>3, <2>4, BooksFollow
<1>15. CASE x # sent
  <2>1. ~Counts(answer)
    BY <1>3, <1>6, <1>15 DEF Counts
  <2>2. position' = position
    BY <1>4, <2>1 DEF ProcessTrade
  <2>3. Outstanding' = Outstanding + Signed(side, x)
    BY <1>3, <1>8, <1>9, <1>11, <1>15, PlacedAdds
  <2>. QED  BY <1>4, <1>9, <1>12, <1>13, <2>2, <2>3, BooksFollow
<1>. QED  BY <1>14, <1>15

LEMMA MarketStep ==
  ASSUME OrdersInv, BooksInv, NEW side \in Sides, NEW q \in Nat, NEW price \in Prices,
         CreateOrderMarket(side, q, price)
  PROVE  OrdersInv' /\ BooksInv'
<1>1. CASE UNCHANGED vars
  BY <1>1, NothingChanges
<1>2. CASE /\ Validates(q) /\ UNCHANGED <<market, rejected>>
           /\ \E x \in Answerable(Formatted(q)) : AnsweredMarket(side, q, Formatted(q), price, x)
  <2>1. PICK x \in Answerable(Formatted(q)) : AnsweredMarket(side, q, Formatted(q), price, x)
    BY <1>2
  <2>2. Formatted(q) \in Nat \ {0}
    BY <1>2, FilterPasses
  <2>. QED  BY <1>2, <2>1, <2>2, AnsweredStep
<1>. QED
  BY <1>1, <1>2, FilterPasses DEF CreateOrderMarket, Requested, Refused

\* Whole lots of a quantity are a quantity.
LEMMA TruncatedIsNat ==
  ASSUME NEW q \in Nat
  PROVE  Truncated(q) \in Nat
<1> DEFINE m == (q \div StepSize) * StepSize
           r == q % StepSize
<1>1. StepSize \in Nat \ {0}
  BY BinanceAssumption
<1>2. q \div StepSize \in Nat /\ r \in Nat /\ q = m + r
  BY <1>1, Division
<1>3. m \in Nat
  BY <1>1, <1>2, ProductsAreNat
<1>4. Truncated(q) = q - r
  BY DEF Truncated
<1> HIDE DEF m, r
<1>. QED  BY <1>2, <1>3, <1>4

LEMMA MarketQuoteStep ==
  ASSUME OrdersInv, BooksInv, NEW side \in Sides, NEW amount \in Nat, NEW price \in Prices,
         CreateOrderMarketQuote(side, amount, price)
  PROVE  OrdersInv' /\ BooksInv'
<1> DEFINE bought == Truncated(Formatted(amount) \div price)
<1>1. CASE UNCHANGED vars
  BY <1>1, NothingChanges
<1>2. CASE /\ Validates(amount) /\ bought # 0 /\ UNCHANGED <<market, rejected>>
           /\ \E x \in Answerable(bought) \ {0} : AnsweredMarket(side, bought, bought, price, x)
  <2>1. PICK x \in Answerable(bought) : AnsweredMarket(side, bought, bought, price, x)
    BY <1>2
  <2>2. bought \in Nat \ {0}
    <3>1. Formatted(amount) \in Nat /\ price \in Nat \ {0}
      BY <1>2, FilterPasses, BinanceAssumption
    <3>2. Formatted(amount) \div price \in Nat
      BY <3>1, Averages
    <3>. QED  BY <1>2, <3>2, TruncatedIsNat
  <2> HIDE DEF bought
  <2>. QED  BY <1>2, <2>1, <2>2, AnsweredStep
<1>. QED
  BY <1>1, <1>2 DEF CreateOrderMarketQuote, Refused

LEMMA OCOStep ==
  ASSUME OrdersInv, BooksInv, NEW side \in Sides, NEW q \in Nat, NEW price \in Prices,
         NEW stopLimit \in Prices, CreateOrderOCO(side, q, price, stopLimit)
  PROVE  OrdersInv' /\ BooksInv'
<1> DEFINE group == Len(orders) + 1
           o == Order(side, q, price, 0, New, group)
           p == Order(side, q, stopLimit, 0, New, group)
           legs == <<o, p>>
           entries == [i \in 1 .. 2 |-> Stored(Converted(legs[i]))]
<1>1. CASE UNCHANGED vars
  BY <1>1, NothingChanges
<1>2. CASE /\ Validates(q) /\ orders' = orders \o legs /\ store' = store \o entries
           /\ UNCHANGED <<asset, position, market, rejected>>
  <2>1. group \in Nat
    BY Sizes
  <2>2. /\ o \in Placed /\ Sound(o) /\ o.executed = 0 /\ o.status = New /\ o.group = group
        /\ p \in Placed /\ Sound(p) /\ p.executed = 0 /\ p.status = New /\ p.group = group
    <3> HIDE DEF group
    <3>. QED  BY <1>2, <2>1, NewOrder
  <2> HIDE DEF o, p
  <2>3. /\ legs \in Seq(Placed) /\ Len(legs) = 2 /\ legs[1] = o /\ legs[2] = p
    BY <2>2
  <2> HIDE DEF legs
  <2>4. \A i \in 1 .. 2 :
          /\ legs[i] \in Placed /\ Sound(legs[i]) /\ legs[i].executed = 0
          /\ legs[i].status = New /\ legs[i].group = group
    BY <2>2, <2>3
  <2>5. \A i \in 1 .. 2 :
          /\ Stored(Converted(legs[i])) \in Entries
          /\ Agrees(Stored(Converted(legs[i])), legs[i])
          /\ Stored(Converted(legs[i])).status = New
    BY <2>4, ConvertedFits
  <2>6. entries \in [1 .. 2 -> Entries] /\ \A i \in 1 .. 2 : entries[i] = Stored(Converted(legs[i]))
    BY <2>5
  <2> HIDE DEF entries
  <2>7. entries \in Seq(Entries) /\ Len(entries) = 2
    <3>1. entries \in Seq(Entries)
      BY <2>6, SeqDef
    <3>. QED  BY <2>6, <3>1, LenProperties
  <2>8. PICK new \in Seq(Placed), told \in Seq(Entries) :
          /\ Len(new) = 2 /\ Len(told) = Len(new)
          /\ orders' = orders \o new /\ store' = store \o told
          /\ \A i \in 1 .. 2 :
               /\ Sound(new[i]) /\ Agrees(told[i], new[i]) /\ new[i].executed = 0
               /\ told[i].status = New /\ new[i].status = New /\ new[i].group = group
    BY <1>2, <2>3, <2>4, <2>5, <2>6, <2>7
  <2>9. /\ OrdersInv' /\ Len(orders') = Len(orders) + 2
        /\ \A e \in 1 .. Len(orders) : orders'[e] = orders[e] /\ store'[e] = store[e]
        /\ \A i \in 1 .. 2 :
             orders'[Len(orders) + i] = new[i] /\ store'[Len(orders) + i] = told[i]
    <3>1. /\ Len(new) > 0
          /\ \A i \in 1 .. Len(new) :
               /\ Sound(new[i]) /\ Agrees(told[i], new[i])
               /\ new[i].group = None \/ (new[i].group = Len(orders) + 1 /\ new[i].status = New)
      BY <2>8
    <3>2. /\ OrdersInv' /\ Len(orders') = Len(orders) + Len(new)
          /\ \A e \in 1 .. Len(orders) : orders'[e] = orders[e] /\ store'[e] = store[e]
          /\ \A i \in 1 .. Len(new) :
               orders'[Len(orders) + i] = new[i] /\ store'[Len(orders) + i] = told[i]
      <4> HIDE DEF group
      <4>. QED  BY <2>8, <3>1, OrdersExtend
    <3>. QED  BY <2>8, <3>2
  <2>10. \A i \in 1 .. 2 : /\ orders'[Len(orders) + i].executed = 0
                           /\ store'[Len(orders) + i].status # Filled
    BY <2>8, <2>9 DEF New, Filled
  <2>11. Outstanding' = Outstanding /\ Outstanding \in Int
    BY <2>9, <2>10, TwoPlaced, Uncounteds
  <2>12. asset' = asset /\ position' = position /\ UNCHANGED <<market, rejected>>
    BY <1>2
  <2>13. Net(position) \in Int /\ asset \in Int /\ position \in Positions
    BY DEF BooksInv, Positions, Net, Signed
  <2>14. BooksInv'
    BY <2>9, <2>11, <2>12, <2>13, BooksFollow
  <2>. QED  BY <2>9, <2>14
<1>. QED
  BY <1>1, <1>2, FilterPasses DEF CreateOrderOCO, Requested, Refused

-----------------------------------------------------------------------------
(* Orders that change *)

\* The status of an order, and nothing else.
WithStatus(o, s) == [o EXCEPT !.status = s]

LEMMA StatusOnly ==
  ASSUME NEW o \in Placed, NEW s \in OrderStatuses
  PROVE  /\ WithStatus(o, s) \in Placed /\ WithStatus(o, s).status = s
         /\ WithStatus(o, s).side = o.side /\ WithStatus(o, s).sent = o.sent
         /\ WithStatus(o, s).price = o.price /\ WithStatus(o, s).executed = o.executed
         /\ WithStatus(o, s).cost = o.cost /\ WithStatus(o, s).group = o.group
BY DEF WithStatus, Placed

\* An order that is cancelled with another one, or stays.
Dropped(e, f) == f = e \/ (SameGroup(orders[e], orders[f]) /\ orders[f].status \in Live)

LEMMA CancelStep ==
  ASSUME OrdersInv, BooksInv, NEW a \in DOMAIN orders, Cancel(a)
  PROVE  OrdersInv' /\ BooksInv'
<1>1. CASE UNCHANGED vars
  BY <1>1, NothingChanges
<1>2. CASE orders[a].status \in Live
  <2> DEFINE n == Len(orders)
  <2>1. /\ n \in Nat /\ DOMAIN orders = 1 .. n /\ DOMAIN store = 1 .. n /\ a \in 1 .. n
        /\ \A e \in 1 .. n : orders[e] \in Placed /\ store[e] \in Entries
    BY Sizes
  <2>2. /\ orders' = [f \in 1 .. n |->
             IF Dropped(a, f) THEN WithStatus(orders[f], Canceled) ELSE orders[f]]
        /\ store' = [store EXCEPT ![a].status = PendingCancel]
        /\ UNCHANGED <<market, asset, position, rejected>>
    BY <1>2, <2>1 DEF Cancel, Dropped, WithStatus
  <2>3. Canceled \in OrderStatuses /\ Canceled \notin Live /\ Canceled # Filled
    BY DEF OrderStatuses, Live, Canceled, New, PartiallyFilled, Filled
  <2>4. \A f \in 1 .. n : Dropped(a, f) => orders[f].status \in Live
    BY <1>2 DEF Dropped
  <2>5. \A f \in 1 .. n :
          /\ orders'[f] \in Placed
          /\ orders'[f].side = orders[f].side /\ orders'[f].executed = orders[f].executed
          /\ orders'[f].sent = orders[f].sent /\ orders'[f].group = orders[f].group
          /\ Dropped(a, f) => orders'[f].status = Canceled
          /\ ~Dropped(a, f) => orders'[f].status = orders[f].status
    <3>1. SUFFICES ASSUME NEW f \in 1 .. n
                   PROVE  /\ orders'[f] \in Placed
                          /\ orders'[f].side = orders[f].side
                          /\ orders'[f].executed = orders[f].executed
                          /\ orders'[f].sent = orders[f].sent
                          /\ orders'[f].group = orders[f].group
                          /\ Dropped(a, f) => orders'[f].status = Canceled
                          /\ ~Dropped(a, f) => orders'[f].status = orders[f].status
      OBVIOUS
    <3>2. orders'[f] = IF Dropped(a, f) THEN WithStatus(orders[f], Canceled) ELSE orders[f]
      BY <2>2
    <3>. QED  BY <2>1, <2>3, <3>2, StatusOnly
  <2>6. /\ store' \in [1 .. n -> Entries]
        /\ \A f \in 1 .. n : f # a => store'[f] = store[f]
        /\ store'[a].status = PendingCancel
    <3>1. [store[a] EXCEPT !.status = PendingCancel] \in Entries
      BY <2>1 DEF Entries
    <3>2. [store[a] EXCEPT !.status = PendingCancel].status = PendingCancel
      BY <2>1 DEF Entries
    <3>3. store \in [1 .. n -> Entries]
      BY Sizes
    <3> HIDE DEF n
    <3>. QED  BY <2>1, <2>2, <3>1, <3>2, <3>3
  <2>7. ASSUME NEW e \in 1 .. n PROVE Sound(orders'[e]) /\ Agrees(store'[e], orders'[e])
    <3>1. Sound(orders[e]) /\ Agrees(store[e], orders[e])
      BY DEF OrdersInv
    <3>2. Sound(orders'[e])
      BY <2>3, <2>5, <3>1 DEF Sound
    <3>3. CASE e = a
      BY <2>6, <3>2, <3>3 DEF Agrees, PendingCancel, Filled, Canceled
    <3>4. CASE e # a /\ Dropped(a, e)
      BY <2>4, <2>6, <3>1, <3>2, <3>4
         DEF Agrees, Live, New, PartiallyFilled, Filled, Canceled
    <3>5. CASE e # a /\ ~Dropped(a, e)
      BY <2>5, <2>6, <3>1, <3>2, <3>5 DEF Agrees
    <3>. QED  BY <3>3, <3>4, <3>5
  <2>8. ASSUME NEW e \in 1 .. n, NEW f \in 1 .. n, e # f PROVE OneLeg(orders'[e], orders'[f])
    <3>1. OneLeg(orders[e], orders[f])
      BY <2>8 DEF OrdersInv
    <3>. QED  BY <2>3, <2>5, <3>1 DEF OneLeg, SameGroup
  <2>9. orders' \in [1 .. n -> Placed]
    <3> HIDE DEF n
    <3>. QED  BY <2>2, <2>5
  <2>10. OrdersInv' /\ Len(orders') = Len(orders)
    BY <2>5, <2>6, <2>7, <2>8, <2>9, SameSizes
  <2>11. store[a].status # Filled
    BY <1>2, <2>1 DEF OrdersInv, Agrees, Live, New, PartiallyFilled, Filled
  <2>12. Outstanding' = Outstanding - Executions[a] + Executions'[a]
    <3>1. store'[a].status # Filled
      BY <2>6 DEF PendingCancel, Filled
    <3>. QED  BY <2>1, <2>5, <2>6, <2>10, <2>11, <3>1, ChangeMoves
  <2>13. Executions'[a] = Executions[a] /\ Executions[a] \in Int /\ Outstanding \in Int
    BY <2>1, <2>5, <2>10, Uncounteds, UncountedsNext
  <2>14. Net(position) \in Int /\ asset \in Int /\ position \in Positions
    BY DEF BooksInv, Positions, Net, Signed
  <2>15. asset' = asset /\ position' = position /\ UNCHANGED <<market, rejected>>
    BY <2>2
  <2>16. BooksInv'
    BY <2>10, <2>12, <2>13, <2>14, <2>15, BooksFollow
  <2>. QED  BY <2>10, <2>16
<1>. QED  BY <1>1, <1>2 DEF Cancel, Refused

\* An order of which x more is executed.
MoreExecuted(o, x) ==
  [o EXCEPT !.executed = o.executed + x, !.cost = @ + x * o.price,
            !.status = IF o.executed + x = o.sent THEN Filled ELSE PartiallyFilled]

LEMMA ExecutedOnly ==
  ASSUME NEW o \in Placed, NEW x \in Nat, o.executed + x <= o.sent
  PROVE  /\ MoreExecuted(o, x) \in Placed /\ Sound(MoreExecuted(o, x))
         /\ MoreExecuted(o, x).side = o.side /\ MoreExecuted(o, x).group = o.group
         /\ MoreExecuted(o, x).executed = o.executed + x
<1>1. /\ o.executed \in Nat /\ o.cost \in Nat /\ o.price \in Nat /\ o.sent \in Nat
      /\ x * o.price \in Nat
  <2>1. o.executed \in Nat /\ o.cost \in Nat /\ o.price \in Nat /\ o.sent \in Nat
    BY DEF Placed
  <2>. QED  BY <2>1, ProductsAreNat
<1> DEFINE more == o.executed + x
           paid == o.cost + x * o.price
           status == IF more = o.sent THEN Filled ELSE PartiallyFilled
<1>2. more \in Nat /\ paid \in Nat /\ more <= o.sent
  BY <1>1
<1>3. status \in OrderStatuses /\ ((status = Filled) <=> (more = o.sent))
  BY DEF OrderStatuses, Filled, PartiallyFilled
<1>4. MoreExecuted(o, x) = [side |-> o.side, sent |-> o.sent, price |-> o.price,
        executed |-> more, cost |-> paid, status |-> status, group |-> o.group]
  <2>1. MoreExecuted(o, x) = [o EXCEPT !.executed = more, !.cost = paid, !.status = status]
    BY DEF MoreExecuted
  <2> HIDE DEF more, paid, status
  <2>. QED  BY <2>1 DEF Placed
<1> HIDE DEF more, paid, status
<1>5. MoreExecuted(o, x) \in Placed
  BY <1>2, <1>3, <1>4 DEF Placed
<1>6. Sound(MoreExecuted(o, x))
  BY <1>2, <1>3, <1>4 DEF Sound
<1>. QED  BY <1>4, <1>5, <1>6 DEF more

LEMMA ExecuteStep ==
  ASSUME OrdersInv, BooksInv, NEW a \in DOMAIN orders, NEW x \in Nat, Execute(a, x)
  PROVE  OrdersInv' /\ BooksInv'
<1> DEFINE n == Len(orders)
           Peer(f) == f # a /\ SameGroup(orders[a], orders[f])
<1>1. /\ n \in Nat /\ DOMAIN orders = 1 .. n /\ DOMAIN store = 1 .. n /\ a \in 1 .. n
      /\ \A e \in 1 .. n : orders[e] \in Placed /\ store[e] \in Entries
      /\ store \in [1 .. n -> Entries]
  BY Sizes
<1>2. /\ orders[a].status \in Live /\ orders[a].executed + x <= orders[a].sent
      /\ orders' = [f \in 1 .. n |->
           IF f = a THEN MoreExecuted(orders[a], x)
           ELSE IF Peer(f) THEN WithStatus(orders[f], Canceled) ELSE orders[f]]
      /\ asset' = asset + Signed(orders[a].side, x)
      /\ UNCHANGED <<market, store, position, rejected>>
  BY <1>1 DEF Execute, WithStatus, MoreExecuted
<1>3. Canceled \in OrderStatuses /\ Canceled \notin Live /\ Canceled # Filled
  BY DEF OrderStatuses, Live, Canceled, New, PartiallyFilled, Filled
<1>4. /\ orders'[a] \in Placed /\ Sound(orders'[a])
      /\ orders'[a].side = orders[a].side /\ orders'[a].group = orders[a].group
      /\ orders'[a].executed = orders[a].executed + x
  BY <1>1, <1>2, ExecutedOnly
<1>5. ASSUME NEW f \in 1 .. n, f # a
      PROVE  /\ orders'[f] \in Placed
             /\ orders'[f].side = orders[f].side /\ orders'[f].executed = orders[f].executed
             /\ orders'[f].sent = orders[f].sent /\ orders'[f].group = orders[f].group
             /\ Peer(f) => orders'[f].status = Canceled
             /\ ~Peer(f) => orders'[f].status = orders[f].status
  <2>1. orders'[f] = IF Peer(f) THEN WithStatus(orders[f], Canceled) ELSE orders[f]
    BY <1>2, <1>5
  <2> HIDE DEF Peer
  <2>. QED  BY <1>1, <1>3, <2>1, StatusOnly
<1>6. \A f \in 1 .. n : Peer(f) => orders[f].status # Filled
  <2>1. SUFFICES ASSUME NEW f \in 1 .. n, Peer(f), orders[f].status = Filled PROVE FALSE
    OBVIOUS
  <2>2. OneLeg(orders[f], orders[a])
    BY <1>1, <2>1 DEF OrdersInv
  <2>. QED  BY <1>2, <2>1, <2>2 DEF OneLeg, SameGroup
<1>7. store[a].status \notin {Filled, Canceled}
  BY <1>1, <1>2 DEF OrdersInv, Agrees, Live, New, PartiallyFilled, Filled, Canceled
<1>8. ASSUME NEW e \in 1 .. n PROVE Sound(orders'[e]) /\ Agrees(store'[e], orders'[e])
  <2>1. Sound(orders[e]) /\ Agrees(store[e], orders[e]) /\ store'[e] = store[e]
    BY <1>2 DEF OrdersInv
  <2>2. CASE e = a
    BY <1>4, <1>7, <2>1, <2>2 DEF Agrees
  <2>3. CASE e # a /\ Peer(e)
    <3>1. Sound(orders'[e])
      BY <1>3, <1>5, <2>1, <2>3 DEF Sound
    <3>2. Agrees(store'[e], orders'[e])
      BY <1>3, <1>5, <1>6, <2>1, <2>3 DEF Agrees
    <3>. QED  BY <3>1, <3>2
  <2>4. CASE e # a /\ ~Peer(e)
    BY <1>5, <2>1, <2>4 DEF Agrees, Sound
  <2>. QED  BY <2>2, <2>3, <2>4
<1>9. ASSUME NEW e \in 1 .. n, NEW f \in 1 .. n, e # f PROVE OneLeg(orders'[e], orders'[f])
  <2>1. OneLeg(orders[e], orders[f])
    BY <1>9 DEF OrdersInv
  <2>2. CASE e = a
    BY <1>3, <1>4, <1>5, <1>9, <2>2 DEF OneLeg, SameGroup
  <2>3. CASE f = a
    BY <1>3, <1>4, <1>5, <1>9, <2>3 DEF OneLeg, SameGroup
  <2>4. CASE e # a /\ f # a
    BY <1>3, <1>5, <2>1, <2>4 DEF OneLeg, SameGroup
  <2>. QED  BY <2>2, <2>3, <2>4
<1>10. \A e \in 1 .. n : orders'[e] \in Placed /\ orders'[e].group = orders[e].group
  BY <1>4, <1>5
<1>11. orders' \in [1 .. n -> Placed] /\ store' \in [1 .. n -> Entries]
  <2> HIDE DEF n, Peer
  <2>. QED  BY <1>1, <1>2, <1>10
<1>12. OrdersInv' /\ Len(orders') = Len(orders)
  BY <1>8, <1>9, <1>10, <1>11, SameSizes
<1>13. Outstanding' = Outstanding - Executions[a] + Executions'[a]
  <2>1. \A e \in 1 .. n : e # a =>
          /\ orders'[e].side = orders[e].side /\ orders'[e].executed = orders[e].executed
          /\ (store'[e].status = Filled) <=> (store[e].status = Filled)
    BY <1>2, <1>5
  <2>2. store[a].status # Filled /\ store'[a].status # Filled
    BY <1>2, <1>7
  <2>. QED  BY <1>1, <1>12, <2>1, <2>2, ChangeMoves
<1>14. /\ Executions[a] = Signed(orders[a].side, orders[a].executed)
       /\ Executions'[a] = Signed(orders[a].side, orders[a].executed + x)
       /\ Outstanding \in Int
  BY <1>1, <1>4, <1>12, Uncounteds, UncountedsNext
<1>15. /\ Net(position) \in Int /\ asset \in Int /\ position \in Positions
       /\ orders[a].executed \in Nat
  BY <1>1 DEF BooksInv, Positions, Net, Signed, Placed
<1>16. /\ Executions'[a] = Executions[a] + Signed(orders[a].side, x)
       /\ Executions[a] \in Int /\ Signed(orders[a].side, x) \in Int
  BY <1>14, <1>15 DEF Signed
<1>17. BooksInv'
  BY <1>2, <1>12, <1>13, <1>14, <1>15, <1>16, BooksFollow
<1>. QED  BY <1>12, <1>17

LEMMA PollStep ==
  ASSUME OrdersInv, BooksInv, NEW a \in DOMAIN orders, Polls(a)
  PROVE  OrdersInv' /\ BooksInv'
<1> DEFINE n == Len(orders)
           o == orders[a]
           answer == Converted(o)
<1>1. /\ n \in Nat /\ DOMAIN store = 1 .. n /\ a \in 1 .. n
      /\ \A e \in 1 .. n : orders[e] \in Placed
      /\ orders \in [1 .. n -> Placed] /\ store \in [1 .. n -> Entries]
  BY Sizes
<1>2. /\ store[a].status \in Pending /\ store' = [store EXCEPT ![a] = Stored(answer)]
      /\ ProcessTrade(answer) /\ UNCHANGED <<market, asset, orders, rejected>>
  BY DEF Polls
<1>3. o \in Placed /\ Sound(o)
  BY <1>1 DEF OrdersInv
<1>4. /\ Stored(answer) \in Entries /\ Agrees(Stored(answer), o)
      /\ Stored(answer).status = o.status /\ answer.status = o.status
      /\ o.status = Filled => /\ IsFill(answer)
                              /\ answer.side = o.side /\ answer.qty = o.executed
  <2> HIDE DEF o
  <2>. QED  BY <1>3, ConvertedFits
<1> HIDE DEF answer
<1>5. /\ store' \in [1 .. n -> Entries] /\ store'[a] = Stored(answer)
      /\ \A e \in 1 .. n : e # a => store'[e] = store[e]
  <2> HIDE DEF n, o
  <2>. QED  BY <1>1, <1>2, <1>4
<1>6. ASSUME NEW e \in 1 .. n
      PROVE  Sound(orders'[e]) /\ Agrees(store'[e], orders'[e]) /\ orders'[e].group = orders[e].group
  <2>1. Sound(orders[e]) /\ Agrees(store[e], orders[e])
    BY DEF OrdersInv
  <2>. QED  BY <1>2, <1>4, <1>5, <2>1
<1>7. \A e, f \in 1 .. n : e # f => OneLeg(orders'[e], orders'[f])
  BY <1>2 DEF OrdersInv
<1>8. orders' \in [1 .. n -> Placed]
  BY <1>1, <1>2
<1>9. OrdersInv' /\ Len(orders') = Len(orders)
  BY <1>5, <1>6, <1>7, <1>8, SameSizes
<1>10. store[a].status # Filled
  BY <1>2 DEF Pending, Live, New, PartiallyFilled, PendingCancel, Filled
<1>11. \A e \in 1 .. n : e # a =>
         /\ orders'[e].side = orders[e].side /\ orders'[e].executed = orders[e].executed
         /\ (store'[e].status = Filled) <=> (store[e].status = Filled)
  BY <1>2, <1>5
<1>12. /\ store'[a].status = Filled => Outstanding' = Outstanding - Executions[a]
       /\ store'[a].status # Filled =>
            Outstanding' = Outstanding - Executions[a] + Executions'[a]
  BY <1>1, <1>9, <1>10, <1>11, ChangeMoves
<1>13. /\ Executions[a] = Signed(o.side, o.executed) /\ Executions[a] \in Int
       /\ Executions'[a] = Signed(o.side, o.executed) /\ Outstanding \in Int
  BY <1>1, <1>2, <1>9, Uncounteds, UncountedsNext
<1>14. Net(position) \in Int /\ asset \in Int /\ position \in Positions
  BY DEF BooksInv, Positions, Net, Signed
<1>15. CASE o.status = Filled
  <2>1. IsFill(answer) /\ position' = AfterOrder(position, answer)
    BY <1>2, <1>4, <1>15 DEF ProcessTrade, Counts
  <2>2. /\ position' \in Positions
        /\ Net(position') = Net(position) + Signed(answer.side, answer.qty)
    BY <1>14, <2>1, OrderNets
  <2>3. Net(position') = Net(position) + Executions[a]
    BY <1>4, <1>13, <1>15, <2>2
  <2>4. Outstanding' = Outstanding - Executions[a]
    BY <1>4, <1>5, <1>12, <1>15
  <2>5. asset' = asset /\ UNCHANGED <<market, rejected>>
    BY <1>2
  <2>6. BooksInv'
    <3> HIDE DEF o
    <3>. QED  BY <1>9, <1>13, <1>14, <2>2, <2>3, <2>4, <2>5, BooksFollow
  <2>. QED  BY <1>9, <2>6
<1>16. CASE o.status # Filled
  <2>1. position' = position
    BY <1>2, <1>4, <1>16 DEF ProcessTrade, Counts
  <2>2. Outstanding' = Outstanding
    BY <1>4, <1>5, <1>12, <1>13, <1>16
  <2>3. asset' = asset /\ UNCHANGED <<market, rejected>>
    BY <1>2
  <2>. QED  BY <1>9, <1>13, <1>14, <2>1, <2>2, <2>3, BooksFollow
<1>. QED  BY <1>15, <1>16

-----------------------------------------------------------------------------
(* The theorems *)

\* Exchange, store and position agree between any two requests of the controller
\* to Binance: the strengthening from which the next three theorems follow.
THEOREM BinanceInvariant == BinanceSpec => [](OrdersInv /\ BooksInv)
<1>1. BinanceInit => OrdersInv /\ BooksInv
  <2>1. SUFFICES ASSUME BinanceInit PROVE OrdersInv /\ BooksInv
    OBVIOUS
  <2>2. orders = << >> /\ store = << >> /\ position = NoPosition /\ rejected = FALSE
    BY <2>1 DEF BinanceInit
  <2>3. OrdersInv
    BY <2>2 DEF OrdersInv
  <2>4. Uncounted = {}
    BY <2>2 DEF Uncounted
  <2>5. SumFunctionOnSet(Executions, Uncounted) = 0
    BY <2>4, SumEmpty
  <2>6. position \in Positions /\ Net(position) = 0
    BY <2>2 DEF NoPosition, Positions, Sides, Net, Signed
  <2>7. asset = (IF Spot THEN Holding ELSE 0) /\ market \in {"spot", "futures"}
    BY <2>1 DEF BinanceInit, Spot
  <2>8. asset \in Int /\ PositionFollowsAccount
    BY <2>5, <2>6, <2>7, BinanceAssumption DEF PositionFollowsAccount
  <2>. QED  BY <2>2, <2>3, <2>6, <2>7, <2>8 DEF BooksInv, FilterNeverRejects
<1>2. OrdersInv /\ BooksInv /\ [BinanceNext]_vars => (OrdersInv /\ BooksInv)'
  <2>1. SUFFICES ASSUME OrdersInv, BooksInv, [BinanceNext]_vars PROVE OrdersInv' /\ BooksInv'
    OBVIOUS
  <2>2. CASE UNCHANGED vars
    BY <2>1, <2>2, NothingChanges
  <2>3. ASSUME NEW side \in Sides, NEW price \in Prices,
               NEW q \in Quantities \cup ({AccountPosition} \cap Nat),
               \/ CreateOrderLimit(side, q, price)
               \/ CreateOrderMarket(side, q, price)
               \/ CreateOrderMarketQuote(side, q, price)
               \/ CreateOrderOCO(side, q, price, price)
        PROVE  OrdersInv' /\ BooksInv'
    <3>1. q \in Nat
      BY BinanceAssumption
    <3>. QED  BY <2>1, <2>3, <3>1, LimitStep, MarketStep, MarketQuoteStep, OCOStep
  <2>4. ASSUME NEW q \in Quantities, NEW limit \in Prices, CreateOrderStop(q, limit)
        PROVE  OrdersInv' /\ BooksInv'
    <3>1. q \in Nat /\ Sell \in Sides
      BY BinanceAssumption DEF Sides
    <3>. QED  BY <2>1, <2>4, <3>1, LimitStep DEF CreateOrderStop
  <2>5. ASSUME NEW e \in DOMAIN orders, Cancel(e) PROVE OrdersInv' /\ BooksInv'
    BY <2>1, <2>5, CancelStep
  <2>6. ASSUME NEW e \in DOMAIN orders, Polls(e) PROVE OrdersInv' /\ BooksInv'
    BY <2>1, <2>6, PollStep
  <2>7. ASSUME NEW e \in DOMAIN orders, NEW x \in 1 .. MaxQuantity, Execute(e, x)
        PROVE  OrdersInv' /\ BooksInv'
    <3>1. x \in Nat
      BY BinanceAssumption
    <3>. QED  BY <2>1, <2>7, <3>1, ExecuteStep
  <2>. QED  BY <2>1, <2>2, <2>3, <2>4, <2>5, <2>6, <2>7 DEF BinanceNext
<1>. QED  BY <1>1, <1>2, PTL DEF BinanceSpec

\* The position of the pair is what the account gained or lost of the asset but
\* for the orders not counted: updateOrders and processTrade (order/controller.go)
\* on what convertOrder and the market methods of exchange/binance return.
THEOREM PositionIsAccount == BinanceSpec => []PositionFollowsAccount
<1>1. OrdersInv /\ BooksInv => PositionFollowsAccount
  BY DEF BooksInv
<1>. QED  BY <1>1, BinanceInvariant, PTL

\* What the store has of a finished order is what was executed of it.
THEOREM HistoryIsTrue == BinanceSpec => []HistoryIsExecuted
<1>1. OrdersInv => HistoryIsExecuted
  <2>1. SUFFICES ASSUME OrdersInv, NEW e \in DOMAIN orders,
                        store[e].status \in {Filled, Canceled}, orders[e].executed > 0
                 PROVE  store[e].qty = orders[e].executed
    BY DEF HistoryIsExecuted
  <2>2. e \in 1 .. Len(orders)
    BY <2>1, Sizes
  <2>. QED  BY <2>1, <2>2 DEF OrdersInv, Agrees
<1>. QED  BY <1>1, BinanceInvariant, PTL

\* No request that validateOrder lets through and formatQuantity rounds fails
\* the exchange's own filter.
THEOREM FilterHolds == BinanceSpec => []FilterNeverRejects
<1>1. OrdersInv /\ BooksInv => FilterNeverRejects
  BY DEF BooksInv
<1>. QED  BY <1>1, BinanceInvariant, PTL
=============================================================================
