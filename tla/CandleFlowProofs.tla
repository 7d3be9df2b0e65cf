-------------------------- MODULE CandleFlowProofs --------------------------
(***************************************************************************)
(* Proofs about the way of a candle through the bot: the binary heap keeps *)
(* its order and its candles, the download and the resampling leave nothing*)
(* out, and with that every step of the feeds, the callbacks and the two   *)
(* loops keeps the candles where FlowInv says they are.                    *)
(*                                                                         *)
(* The recursive functions of the heap, the resampling and the batches are *)
(* first shown to exist; what they compute follows from a least or a       *)
(* greatest place where it would fail.                                     *)
(***************************************************************************)
EXTENDS CandleFlow, BookkeepingTheorems, SequenceTheorems

-----------------------------------------------------------------------------
(* The queue of candles (CandleQueue) *)

Comparable(S) == \A c \in S : c.time \in Int /\ c.pair \in Int

NotAfter(a, b) == ~Less(b, a)

\* Less is a strict weak order of the candles.
LEMMA LessOrders ==
  ASSUME NEW S, Comparable(S)
  PROVE  /\ \A a \in S : NotAfter(a, a)
         /\ \A a, b \in S : Less(a, b) => NotAfter(a, b)
         /\ \A a, b, c \in S : NotAfter(a, b) /\ NotAfter(b, c) => NotAfter(a, c)
<1>1. \A t1, p1, t2, p2, t3, p3 \in Int :
        /\ ~(t2 < t1 \/ (t2 = t1 /\ p2 < p1)) /\ ~(t3 < t2 \/ (t3 = t2 /\ p3 < p2))
        => ~(t3 < t1 \/ (t3 = t1 /\ p3 < p1))
  BY SMT
<1>2. \A t1, p1, t2, p2 \in Int : (t1 < t2 \/ (t1 = t2 /\ p1 < p2)) => ~(t2 < t1 \/ (t2 = t1 /\ p2 < p1))
  BY SMT
<1>3. ASSUME NEW a \in S PROVE NotAfter(a, a)
  BY SMT DEF NotAfter, Less, Comparable
<1>4. ASSUME NEW a \in S, NEW b \in S, Less(a, b) PROVE NotAfter(a, b)
  BY <1>2, <1>4 DEF NotAfter, Less, Comparable
<1>5. ASSUME NEW a \in S, NEW b \in S, NEW c \in S, NotAfter(a, b), NotAfter(b, c)
      PROVE  NotAfter(a, c)
  <2>1. a.time \in Int /\ a.pair \in Int /\ b.time \in Int /\ b.pair \in Int /\ c.time \in Int /\ c.pair \in Int
    BY DEF Comparable
  <2>2. /\ ~(b.time < a.time \/ (b.time = a.time /\ b.pair < a.pair))
        /\ ~(c.time < b.time \/ (c.time = b.time /\ c.pair < b.pair))
    BY <1>5 DEF NotAfter, Less
  <2>3. ~(c.time < a.time \/ (c.time = a.time /\ c.pair < a.pair))
    BY <2>1, <2>2, <1>1
  <2>. QED  BY <2>3 DEF NotAfter, Less
<1>. QED  BY <1>3, <1>4, <1>5

IsHeap(data) == \A j \in 2..Len(data) : NotAfter(data[j \div 2], data[j])

\* Nothing in a heap is smaller than its first item.
LEMMA HeapTop ==
  ASSUME NEW S, Comparable(S), NEW data \in Seq(S), IsHeap(data), NEW k \in 1..Len(data)
  PROVE  NotAfter(data[1], data[k])
<1> DEFINE Bad == {j \in 1..Len(data) : ~NotAfter(data[1], data[j])}
<1>1. SUFFICES ASSUME Bad # {} PROVE FALSE
  OBVIOUS
<1>2. Len(data) \in Nat /\ Bad \subseteq Nat
  OBVIOUS
<1>3. PICK j \in Bad : \A m \in Bad : j <= m
  BY <1>1, <1>2, SmallestNat
<1>4. j \in 1..Len(data) /\ ~NotAfter(data[1], data[j])
  BY <1>3
<1>5. \A m \in 1..Len(data) : data[m] \in S
  OBVIOUS
<1>6. j # 1
  BY <1>4, <1>5, LessOrders
<1>7. j \in 2..Len(data) /\ j \div 2 \in 1..Len(data) /\ j \div 2 < j /\ 1 \in 1..Len(data)
  BY <1>2, <1>4, <1>6, SMT
<1>8. j \div 2 \notin Bad
  BY <1>2, <1>3, <1>7, SMT
<1>9. NotAfter(data[1], data[j \div 2]) /\ NotAfter(data[j \div 2], data[j])
  BY <1>7, <1>8 DEF IsHeap
<1>10. data[1] \in S /\ data[j \div 2] \in S /\ data[j] \in S
  BY <1>4, <1>5, <1>7
<1>. QED  BY <1>4, <1>9, <1>10, LessOrders

-----------------------------------------------------------------------------
\* up[i] from the entries of up before i.
RiseFrom(up, data, item, i) ==
  IF i > 1 /\ Less(item, data[i \div 2])
  THEN [up[i \div 2] EXCEPT ![i] = data[i \div 2]]
  ELSE [data EXCEPT ![i] = item]

IsUp(up, data, item, n) == up = [i \in 1..n |-> RiseFrom(up, data, item, i)]

\* up is defined by what lies before it.
LEMMA UpExists ==
  ASSUME NEW data, NEW item, NEW n \in Nat
  PROVE  \E up : IsUp(up, data, item, n)
<1> DEFINE Bad == {m \in Nat : ~ \E up : IsUp(up, data, item, m)}
<1>1. SUFFICES ASSUME Bad # {} PROVE FALSE
  OBVIOUS
<1>2. PICK m \in Bad : \A k \in Bad : m <= k
  BY <1>1, SmallestNat
<1>3. m \in Nat /\ ~ \E up : IsUp(up, data, item, m)
  BY <1>2
<1>4. m # 0
  <2>1. IsUp([i \in 1..0 |-> 0], data, item, 0)
    BY SMT DEF IsUp
  <2>. QED  BY <1>3, <2>1
<1>5. m - 1 \in Nat /\ m - 1 \notin Bad
  BY <1>2, <1>3, <1>4, SMT
<1>6. PICK up : IsUp(up, data, item, m - 1)
  BY <1>5
<1> DEFINE longer == [i \in 1..m |-> RiseFrom(up, data, item, i)]
<1>7. \A i \in 1..(m - 1) : up[i] = RiseFrom(up, data, item, i)
  BY <1>6, Zenon DEF IsUp
<1>8. \A i \in 1..(m - 1) : longer[i] = up[i]
  BY <1>3, <1>7
<1>9. ASSUME NEW i \in 1..m PROVE longer[i] = RiseFrom(longer, data, item, i)
  <2>1. longer[i] = RiseFrom(up, data, item, i)
    OBVIOUS
  <2>2. CASE i > 1
    <3>1. i \div 2 \in 1..(m - 1)
      BY <1>3, <2>2, SMT
    <3>2. longer[i \div 2] = up[i \div 2]
      BY <1>8, <3>1
    <3> HIDE DEF longer
    <3>. QED  BY <2>1, <3>2, Zenon DEF RiseFrom
  <2>3. CASE ~(i > 1)
    <3> HIDE DEF longer
    <3>. QED  BY <2>1, <2>3, Zenon DEF RiseFrom
  <2>. QED  BY <2>2, <2>3
<1>10. longer = [i \in 1..m |-> longer[i]]
  OBVIOUS
<1>11. IsUp(longer, data, item, m)
  <2> HIDE DEF longer
  <2>. QED  BY <1>9, <1>10, Zenon DEF IsUp
<1>. QED  BY <1>3, <1>11

\* The array that Up makes is the last entry of such an up.
LEMMA UpIs ==
  ASSUME NEW data, NEW item, NEW n \in Nat \ {0}
  PROVE  \E up : IsUp(up, data, item, n) /\ Up(data, n, item) = up[n]
<1> DEFINE up == CHOOSE u : IsUp(u, data, item, n)
<1>1. Up(data, n, item) = up[n]
  BY Zenon DEF Up, IsUp, RiseFrom
<1>2. IsUp(up, data, item, n)
  BY UpExists
<1>. QED  BY <1>1, <1>2

\* Where the candles of the array lie once the item has risen from position i:
\* behind i nothing moved, up to i lie the item and what lay before i.
Risen(r, data, item, i) ==
  /\ \A j \in 1..Len(data) : j > i => r[j] = data[j]
  /\ \A j \in 1..i : r[j] = item \/ \E k \in 1..(i - 1) : r[j] = data[k]
  /\ \E j \in 1..i : r[j] = item
  /\ \A k \in 1..(i - 1) : \E j \in 1..i : r[j] = data[k]

\* And how they are ordered.
RisenInOrder(r, data, item, i) ==
  /\ \A j \in 1..(i - 1) : NotAfter(r[j], data[j])
  /\ r[i] = item \/ (i > 1 /\ r[i] = data[i \div 2])
  /\ i < Len(data) /\ Less(item, data[i]) => NotAfter(r[i], data[i])
  /\ \A j \in 2..i : NotAfter(r[j \div 2], r[j])

\* Rising keeps the array's length and items.
LEMMA UpShape ==
  ASSUME NEW S, NEW data \in Seq(S), NEW item \in S, NEW n \in 1..Len(data), NEW up, IsUp(up, data, item, n)
  PROVE  \A i \in 1..n : up[i] \in [1..Len(data) -> S]
<1> DEFINE Bad == {i \in 1..n : up[i] \notin [1..Len(data) -> S]}
<1>1. SUFFICES ASSUME Bad # {} PROVE FALSE
  OBVIOUS
<1>2. Len(data) \in Nat /\ n \in Nat /\ data \in [1..Len(data) -> S] /\ Bad \subseteq Nat
  OBVIOUS
<1>3. PICK i \in Bad : \A m \in Bad : i <= m
  BY <1>1, <1>2, SmallestNat
<1>4. i \in 1..n /\ up[i] \notin [1..Len(data) -> S]
  BY <1>3
<1>5. up[i] = RiseFrom(up, data, item, i)
  BY <1>4, Zenon DEF IsUp
<1>6. CASE i > 1 /\ Less(item, data[i \div 2])
  <2>1. i \div 2 \in 1..n /\ i \div 2 < i
    BY <1>2, <1>4, <1>6, SMT
  <2>2. i \div 2 \notin Bad
    BY <1>2, <1>3, <2>1, SMT
  <2>3. up[i \div 2] \in [1..Len(data) -> S] /\ data[i \div 2] \in S /\ i \in 1..Len(data)
    BY <2>1, <2>2, <1>2, <1>4
  <2>4. up[i] = [up[i \div 2] EXCEPT ![i] = data[i \div 2]]
    BY <1>5, <1>6 DEF RiseFrom
  <2>. QED  BY <1>4, <2>3, <2>4, Zenon
<1>7. CASE ~(i > 1 /\ Less(item, data[i \div 2]))
  BY <1>2, <1>4, <1>5, <1>7, Zenon DEF RiseFrom
<1>. QED  BY <1>6, <1>7

\* The two forms of a turn, entry by entry.
LEMMA UpTurn ==
  ASSUME NEW S, NEW data \in Seq(S), NEW item \in S, NEW n \in 1..Len(data), NEW up, IsUp(up, data, item, n),
         NEW i \in 1..n
  PROVE  /\ i > 1 /\ Less(item, data[i \div 2]) =>
              /\ up[i][i] = data[i \div 2]
              /\ \A j \in 1..Len(data) : j # i => up[i][j] = up[i \div 2][j]
         /\ ~(i > 1 /\ Less(item, data[i \div 2])) =>
              /\ up[i][i] = item
              /\ \A j \in 1..Len(data) : j # i => up[i][j] = data[j]
<1>1. up[i] = RiseFrom(up, data, item, i)
  BY Zenon DEF IsUp
<1>2. Len(data) \in Nat /\ i \in 1..Len(data) /\ data \in [1..Len(data) -> S]
  OBVIOUS
<1>3. CASE i > 1 /\ Less(item, data[i \div 2])
  <2>1. i \div 2 \in 1..n
    BY <1>2, <1>3, SMT
  <2>2. up[i \div 2] \in [1..Len(data) -> S]
    BY <2>1, UpShape
  <2>3. up[i] = [up[i \div 2] EXCEPT ![i] = data[i \div 2]]
    BY <1>1, <1>3 DEF RiseFrom
  <2>. QED  BY <1>2, <1>3, <2>2, <2>3
<1>4. CASE ~(i > 1 /\ Less(item, data[i \div 2]))
  <2>1. up[i] = [data EXCEPT ![i] = item]
    BY <1>1, <1>4, Zenon DEF RiseFrom
  <2>. QED  BY <1>2, <1>4, <2>1
<1>. QED  BY <1>3, <1>4

\* Every entry of up is the array with the item risen that far.
LEMMA UpRises ==
  ASSUME NEW S, NEW data \in Seq(S), NEW item \in S, NEW n \in 1..Len(data), NEW up, IsUp(up, data, item, n)
  PROVE  \A i \in 1..n : Risen(up[i], data, item, i)
<1> DEFINE Bad == {i \in 1..n : ~Risen(up[i], data, item, i)}
<1>1. SUFFICES ASSUME Bad # {} PROVE FALSE
  OBVIOUS
<1>2. Len(data) \in Nat /\ n \in Nat /\ Bad \subseteq Nat
  OBVIOUS
<1>3. PICK i \in Bad : \A m \in Bad : i <= m
  BY <1>1, <1>2, SmallestNat
<1>4. i \in 1..n /\ ~Risen(up[i], data, item, i) /\ i \in Nat
  BY <1>3
<1> DEFINE r == up[i]
<1> HIDE DEF r
<1>5. CASE i > 1 /\ Less(item, data[i \div 2])
  <2> DEFINE p == i \div 2
             q == up[p]
  <2>1. p \in 1..n /\ p < i /\ p \in Nat
    BY <1>2, <1>4, <1>5, SMT
  <2>2. p \notin Bad
    BY <1>2, <1>3, <2>1, SMT
  <2>3. Risen(q, data, item, p)
    BY <2>1, <2>2
  <2>4. r[i] = data[p] /\ \A j \in 1..Len(data) : j # i => r[j] = q[j]
    BY <1>4, <1>5, UpTurn DEF r
  <2> HIDE DEF p, q
  <2>5. \A j \in 1..Len(data) : j > i => r[j] = data[j]
    <3>1. ASSUME NEW j \in 1..Len(data), j > i PROVE r[j] = data[j]
      <4>1. j # i /\ j > p
        BY <2>1, <3>1, <1>4
      <4>2. q[j] = data[j]
        BY <4>1, <2>3 DEF Risen
      <4>. QED  BY <4>1, <4>2, <2>4
    <3>. QED  BY <3>1
  <2>6. \A j \in 1..i : r[j] = item \/ \E k \in 1..(i - 1) : r[j] = data[k]
    <3>1. SUFFICES ASSUME NEW j \in 1..i PROVE r[j] = item \/ \E k \in 1..(i - 1) : r[j] = data[k]
      OBVIOUS
    <3>2. j \in 1..Len(data) /\ p \in 1..(i - 1)
      BY <1>2, <1>4, <2>1
    <3>3. CASE j = i
      BY <2>4, <3>2, <3>3
    <3>4. CASE j > p /\ j # i
      <4>1. r[j] = data[j] /\ j \in 1..(i - 1)
        BY <2>3, <2>4, <3>2, <3>4, <1>4 DEF Risen
      <4>. QED  BY <4>1
    <3>5. CASE j <= p
      <4>1. j \in 1..p /\ j # i
        BY <3>5, <2>1
      <4>2. r[j] = q[j] /\ (q[j] = item \/ \E k \in 1..(p - 1) : q[j] = data[k])
        BY <4>1, <2>3, <2>4, <3>2 DEF Risen
      <4>3. \A k \in 1..(p - 1) : k \in 1..(i - 1)
        BY <2>1, <1>4
      <4>. QED  BY <4>2, <4>3
    <3>. QED  BY <3>3, <3>4, <3>5, <2>1, <1>4
  <2>7. \E j \in 1..i : r[j] = item
    <3>1. PICK j \in 1..p : q[j] = item
      BY <2>3 DEF Risen
    <3>2. j \in 1..i /\ j # i /\ j \in 1..Len(data)
      BY <2>1, <1>2, <1>4
    <3>. QED  BY <3>1, <3>2, <2>4
  <2>8. \A k \in 1..(i - 1) : \E j \in 1..i : r[j] = data[k]
    <3>1. SUFFICES ASSUME NEW k \in 1..(i - 1) PROVE \E j \in 1..i : r[j] = data[k]
      OBVIOUS
    <3>2. k \in 1..Len(data) /\ k # i /\ k \in 1..i /\ i \in 1..i
      BY <1>2, <1>4
    <3>3. CASE k = p
      BY <2>4, <3>2, <3>3
    <3>4. CASE k > p
      <4>1. r[k] = data[k]
        BY <2>3, <2>4, <3>2, <3>4 DEF Risen
      <4>. QED  BY <4>1, <3>2
    <3>5. CASE k < p
      <4>1. k \in 1..(p - 1)
        BY <2>1, <3>5
      <4>2. PICK j \in 1..p : q[j] = data[k]
        BY <4>1, <2>3 DEF Risen
      <4>3. j \in 1..i /\ j # i /\ j \in 1..Len(data)
        BY <2>1, <1>2, <1>4
      <4>. QED  BY <4>2, <4>3, <2>4
    <3>. QED  BY <3>3, <3>4, <3>5, <2>1
  <2>9. Risen(r, data, item, i)
    BY <2>5, <2>6, <2>7, <2>8, Zenon DEF Risen
  <2>. QED  BY <1>4, <2>9 DEF r
<1>6. CASE ~(i > 1 /\ Less(item, data[i \div 2]))
  <2>1. r[i] = item /\ \A j \in 1..Len(data) : j # i => r[j] = data[j]
    BY <1>4, <1>6, UpTurn DEF r
  <2>2. \A j \in 1..(i - 1) : j \in 1..i /\ j # i /\ j \in 1..Len(data)
    BY <1>2, <1>4
  <2>3. \A j \in 1..i : j = i \/ j \in 1..(i - 1)
    BY <1>4
  <2>4. i \in 1..i /\ \A j \in 1..Len(data) : j > i => j # i
    BY <1>4
  <2>5. Risen(r, data, item, i)
    BY <2>1, <2>2, <2>3, <2>4, Zenon DEF Risen
  <2>. QED  BY <1>4, <2>5 DEF r
<1>. QED  BY <1>5, <1>6

\* Rising keeps the items different from one another.
LEMMA UpDistinct ==
  ASSUME NEW S, NEW data \in Seq(S), NEW item \in S, NEW n \in 1..Len(data), NEW up, IsUp(up, data, item, n),
         \A j, k \in 1..(n - 1) : data[j] = data[k] => j = k,
         \A k \in 1..(n - 1) : data[k] # item
  PROVE  \A i \in 1..n : \A j, k \in 1..i : up[i][j] = up[i][k] => j = k
<1> DEFINE Bad == {i \in 1..n : ~ \A j, k \in 1..i : up[i][j] = up[i][k] => j = k}
<1>1. SUFFICES ASSUME Bad # {} PROVE FALSE
  OBVIOUS
<1>2. Len(data) \in Nat /\ n \in Nat /\ Bad \subseteq Nat
  OBVIOUS
<1>3. PICK i \in Bad : \A m \in Bad : i <= m
  BY <1>1, <1>2, SmallestNat
<1>4. i \in 1..n /\ i \in Nat
  BY <1>3
<1>5. PICK j \in 1..i, k \in 1..i : up[i][j] = up[i][k] /\ j # k
  BY <1>3
<1> DEFINE r == up[i]
<1>6. r[j] = r[k] /\ Risen(r, data, item, i)
  BY <1>4, <1>5, UpRises
<1> HIDE DEF r
<1>7. CASE i > 1 /\ Less(item, data[i \div 2])
  <2> DEFINE p == i \div 2
             q == up[p]
  <2>1. p \in 1..n /\ p < i /\ p \in Nat
    BY <1>2, <1>4, <1>7, SMT
  <2>2. p \notin Bad
    <3> HIDE DEF Bad
    <3>. QED  BY <1>2, <1>3, <2>1, SMT
  <2>3. Risen(q, data, item, p) /\ \A a, b \in 1..p : q[a] = q[b] => a = b
    BY <2>1, <2>2, UpRises
  <2>4. r[i] = data[p] /\ \A m \in 1..Len(data) : m # i => r[m] = q[m]
    <3> HIDE DEF Bad
    <3>. QED  BY <1>4, <1>7, UpTurn DEF r
  <2> HIDE DEF p, q
  <2>5. p \in 1..(n - 1)
    BY <2>1, <1>4
  \* What lies before p came from before p or is the item; the rest did not move.
  <2>6. ASSUME NEW a \in 1..p PROVE r[a] = q[a] /\ \A m \in p..(n - 1) : r[a] # data[m]
    <3>1. a \in 1..Len(data) /\ a # i
      BY <2>1, <1>2, <1>4
    <3>2. r[a] = q[a] /\ (q[a] = item \/ \E m \in 1..(p - 1) : q[a] = data[m])
      BY <2>3, <2>4, <3>1 DEF Risen
    <3>3. \A m \in 1..(p - 1) : m \in 1..(n - 1) /\ \A l \in p..(n - 1) : m # l /\ l \in 1..(n - 1)
      BY <2>1, <1>2, <1>4
    <3>4. \A l \in p..(n - 1) : l \in 1..(n - 1)
      BY <2>1, <1>2
    <3>. QED  BY <3>2, <3>3, <3>4
  <2>7. ASSUME NEW a \in 1..i, ~(a \in 1..p) PROVE
          \E m \in p..(n - 1) : r[a] = data[m] /\ (a = i => m = p) /\ (a # i => m = a /\ a # p)
    <3>1. CASE a = i
      BY <2>4, <2>5, <2>1, <1>2, <3>1
    <3>2. CASE a # i
      <4>1. a \in 1..Len(data) /\ a > p /\ a \in p..(n - 1)
        BY <2>1, <1>2, <1>4, <2>7, <3>2
      <4>2. r[a] = data[a]
        BY <2>3, <2>4, <3>2, <4>1 DEF Risen
      <4>. QED  BY <4>1, <4>2, <3>2, <2>1
    <3>. QED  BY <3>1, <3>2
  <2>8. CASE j \in 1..p /\ k \in 1..p
    BY <2>3, <2>6, <2>8, <1>5, <1>6
  <2>9. CASE j \in 1..p /\ k \notin 1..p
    BY <2>6, <2>7, <2>9, <1>5, <1>6
  <2>10. CASE j \notin 1..p /\ k \in 1..p
    BY <2>6, <2>7, <2>10, <1>5, <1>6
  <2>11. CASE j \notin 1..p /\ k \notin 1..p
    <3>1. PICK m \in p..(n - 1) : r[j] = data[m] /\ (j = i => m = p) /\ (j # i => m = j /\ j # p)
      BY <2>7, <2>11
    <3>2. PICK l \in p..(n - 1) : r[k] = data[l] /\ (k = i => l = p) /\ (k # i => l = k /\ k # p)
      BY <2>7, <2>11
    <3>3. m \in 1..(n - 1) /\ l \in 1..(n - 1)
      BY <2>1, <1>2
    <3>4. m = l
      BY <3>1, <3>2, <3>3, <1>6
    <3>. QED  BY <3>1, <3>2, <3>4, <1>5
  <2>. QED  BY <2>8, <2>9, <2>10, <2>11
<1>8. CASE ~(i > 1 /\ Less(item, data[i \div 2]))
  <2>1. r[i] = item /\ \A m \in 1..Len(data) : m # i => r[m] = data[m]
    <3> HIDE DEF Bad
    <3>. QED  BY <1>4, <1>8, UpTurn DEF r
  <2>2. \A m \in 1..i : m # i => m \in 1..(n - 1) /\ m \in 1..Len(data)
    BY <1>2, <1>4
  <2>. QED  BY <2>1, <2>2, <1>5, <1>6
<1>. QED  BY <1>7, <1>8

\* Rising restores the order of a heap up to the item's place.
LEMMA UpOrders ==
  ASSUME NEW S, Comparable(S), NEW data \in Seq(S), NEW item \in S, NEW n \in 1..Len(data), NEW up, IsUp(up, data, item, n),
         n = Len(data), \A j \in 2..(n - 1) : NotAfter(data[j \div 2], data[j])
  PROVE  \A i \in 1..n : RisenInOrder(up[i], data, item, i)
<1> DEFINE Bad == {i \in 1..n : ~RisenInOrder(up[i], data, item, i)}
<1>1. SUFFICES ASSUME Bad # {} PROVE FALSE
  OBVIOUS
<1>2. Len(data) \in Nat /\ n \in Nat /\ Bad \subseteq Nat /\ \A j \in 1..n : data[j] \in S
  OBVIOUS
<1>3. PICK i \in Bad : \A m \in Bad : i <= m
  BY <1>1, <1>2, SmallestNat
<1>4. i \in 1..n /\ ~RisenInOrder(up[i], data, item, i) /\ i \in Nat
  BY <1>3
<1> DEFINE r == up[i]
<1>5. \A j \in 1..n : r[j] \in S
  BY <1>4, UpShape
<1> HIDE DEF r
<1>6. CASE i > 1 /\ Less(item, data[i \div 2])
  <2> DEFINE p == i \div 2
             q == up[p]
  <2>1. p \in 1..n /\ p < i /\ p \in Nat /\ p < n /\ i \in 2..n
    BY <1>2, <1>4, <1>6, SMT
  <2>2. p \notin Bad
    BY <1>2, <1>3, <2>1, SMT
  <2>3. RisenInOrder(q, data, item, p) /\ Risen(q, data, item, p) /\ \A j \in 1..n : q[j] \in S
    BY <2>1, <2>2, UpRises, UpShape
  <2>4. r[i] = data[p] /\ \A j \in 1..n : j # i => r[j] = q[j]
    <3>1. r[i] = data[p] /\ \A j \in 1..Len(data) : j # i => r[j] = q[j]
      <4> HIDE DEF Bad
      <4>. QED  BY <1>4, <1>6, UpTurn DEF r
    <3>. QED  BY <3>1
  <2>5. NotAfter(q[p], data[p])
    BY <1>6, <2>1, <2>3 DEF RisenInOrder
  <2>6. \A j \in 2..i : j \div 2 \in 1..p /\ j \div 2 # i /\ j \in 1..n /\ j \div 2 \in 1..n
    BY <1>2, <1>4, SMT
  <2>12. i \div 2 = p
    OBVIOUS
  <2> HIDE DEF p, q
  <2>7. \A j \in 1..(i - 1) : NotAfter(r[j], data[j])
    <3>1. SUFFICES ASSUME NEW j \in 1..(i - 1) PROVE NotAfter(r[j], data[j])
      OBVIOUS
    <3>2. j \in 1..n /\ j # i /\ r[j] = q[j]
      BY <1>2, <1>4, <2>4
    <3>3. CASE j < p
      <4>1. j \in 1..(p - 1)
        BY <3>3, <2>1
      <4>. QED  BY <4>1, <3>2, <2>3 DEF RisenInOrder
    <3>4. CASE j = p
      BY <2>5, <3>2, <3>4
    <3>5. CASE j > p
      <4>1. q[j] = data[j]
        BY <2>3, <3>2, <3>5 DEF Risen
      <4>. QED  BY <4>1, <3>2, <1>2, LessOrders
    <3>. QED  BY <3>3, <3>4, <3>5, <2>1
  <2>8. r[i] = item \/ (i > 1 /\ r[i] = data[i \div 2])
    BY <2>4, <2>12, <1>6
  <2>9. i < Len(data) /\ Less(item, data[i]) => NotAfter(r[i], data[i])
    <3>1. SUFFICES ASSUME i < Len(data) PROVE NotAfter(r[i], data[i])
      OBVIOUS
    <3>2. i \in 2..(n - 1)
      BY <3>1, <2>1
    <3>. QED  BY <3>2, <2>4, <2>12
  <2>10. \A j \in 2..i : NotAfter(r[j \div 2], r[j])
    <3>1. SUFFICES ASSUME NEW j \in 2..i PROVE NotAfter(r[j \div 2], r[j])
      OBVIOUS
    <3> DEFINE h == j \div 2
    <3>2. h \in 1..p /\ h # i /\ j \in 1..n /\ h \in 1..n /\ r[h] = q[h]
      BY <2>4, <2>6
    <3>3. CASE j = i
      BY <2>4, <2>5, <2>12, <3>2, <3>3
    <3>4. CASE j <= p
      <4>1. j \in 2..p /\ j # i /\ r[j] = q[j]
        BY <3>4, <2>1, <2>4, <3>2
      <4>. QED  BY <4>1, <3>2, <2>3 DEF RisenInOrder
    <3>5. CASE j > p /\ j # i
      <4>1. r[j] = data[j] /\ j \in 2..(n - 1)
        BY <3>5, <3>2, <2>3, <2>4, <1>2, <1>4 DEF Risen
      <4>2. NotAfter(data[h], data[j])
        BY <4>1
      <4> HIDE DEF h
      <4>3. NotAfter(q[h], data[h])
        <5>1. h = p \/ h \in 1..(p - 1)
          BY <3>2, <2>1
        <5>. QED  BY <5>1, <2>5, <2>3 DEF RisenInOrder
      <4>4. q[h] \in S /\ data[h] \in S /\ data[j] \in S
        BY <3>2, <2>3, <1>2
      <4>5. NotAfter(r[h], r[j])
        BY <4>1, <4>2, <4>3, <4>4, <3>2, LessOrders
      <4>. QED  BY <4>5 DEF h
    <3>. QED  BY <3>3, <3>4, <3>5, <2>1
  <2>11. RisenInOrder(r, data, item, i)
    BY <2>7, <2>8, <2>9, <2>10, Zenon DEF RisenInOrder
  <2>. QED  BY <1>4, <2>11 DEF r
<1>7. CASE ~(i > 1 /\ Less(item, data[i \div 2]))
  <2>1. r[i] = item /\ \A j \in 1..n : j # i => r[j] = data[j]
    <3>1. r[i] = item /\ \A j \in 1..Len(data) : j # i => r[j] = data[j]
      BY <1>4, <1>7, UpTurn DEF r
    <3>. QED  BY <3>1
  <2>2. \A j \in 1..(i - 1) : j # i /\ j \in 1..n
    BY <1>2, <1>4
  <2>3. \A j \in 1..(i - 1) : NotAfter(r[j], data[j])
    BY <2>1, <2>2, <1>2, LessOrders
  <2>4. Less(item, data[i]) => NotAfter(r[i], data[i])
    BY <2>1, <1>2, <1>4, LessOrders
  <2>5. \A j \in 2..i : NotAfter(r[j \div 2], r[j])
    <3>1. SUFFICES ASSUME NEW j \in 2..i PROVE NotAfter(r[j \div 2], r[j])
      OBVIOUS
    <3>2. j \div 2 \in 1..n /\ j \div 2 # i /\ r[j \div 2] = data[j \div 2]
      <4>1. j \div 2 \in 1..n /\ j \div 2 # i
        BY <1>2, <1>4, SMT
      <4>. QED  BY <4>1, <2>1
    <3>3. CASE j = i
      <4>1. i > 1
        BY <3>3
      <4>. QED  BY <4>1, <3>2, <3>3, <2>1, <1>7 DEF NotAfter
    <3>4. CASE j # i
      <4>1. j \in 2..(n - 1) /\ j \in 1..n
        BY <3>4, <1>2, <1>4
      <4>. QED  BY <4>1, <3>2, <3>4, <2>1
    <3>. QED  BY <3>3, <3>4
  <2>6. RisenInOrder(r, data, item, i)
    BY <2>1, <2>3, <2>4, <2>5, Zenon DEF RisenInOrder
  <2>. QED  BY <1>4, <2>6 DEF r
<1>. QED  BY <1>6, <1>7

IsDistinct(data) == \A i, j \in 1..Len(data) : data[i] = data[j] => i = j

Holds(data, x) == \E i \in 1..Len(data) : data[i] = x

\* Push: whatever the heap holds, one item more, and still a heap.
LEMMA PushKeepsHeap ==
  ASSUME NEW S, Comparable(S), NEW data \in Seq(S), NEW item \in S, IsHeap(data)
  PROVE  /\ Pushed(data, item) \in Seq(S)
         /\ Len(Pushed(data, item)) = Len(data) + 1
         /\ IsHeap(Pushed(data, item))
         /\ \A x : Holds(Pushed(data, item), x) <=> x = item \/ Holds(data, x)
         /\ IsDistinct(data) /\ ~Holds(data, item) => IsDistinct(Pushed(data, item))
<1> DEFINE long == Append(data, item)
           n == Len(data) + 1
           r == Pushed(data, item)
<1>1. /\ long \in Seq(S) /\ Len(long) = n /\ Len(data) \in Nat /\ n \in Nat \ {0} /\ n \in 1..Len(long)
      /\ \A j \in 1..Len(data) : long[j] = data[j]
  BY AppendProperties
<1>2. PICK up : IsUp(up, long, item, n) /\ Up(long, n, item) = up[n]
  BY <1>1, UpIs
<1>3. r = up[n] /\ Len(data) = n - 1 /\ n \in 1..n
  BY <1>1, <1>2 DEF Pushed
<1> HIDE DEF long, n, r
<1>4. \A j \in 2..(n - 1) : NotAfter(long[j \div 2], long[j])
  <2>1. \A j \in 2..(n - 1) : j \in 1..Len(data) /\ j \div 2 \in 1..Len(data)
    BY <1>1, <1>3, SMT
  <2>. QED  BY <1>1, <1>3, <2>1 DEF IsHeap
<1>5. r \in [1..n -> S]
  BY <1>1, <1>2, <1>3, UpShape
<1>6. r \in Seq(S) /\ Len(r) = n
  <2>1. \A j \in 1..n : r[j] \in S
    BY <1>5
  <2>2. r \in UNION {[1..m -> S] : m \in Nat}
    BY <1>1, <1>5
  <2>3. r \in Seq(S)
    BY <2>2, SeqDef
  <2>4. DOMAIN r = 1..n /\ DOMAIN r = 1..Len(r) /\ Len(r) \in Nat
    BY <1>5, <2>3, LenProperties
  <2>5. Len(r) = n
    BY <2>4, <1>1, SMT
  <2>. QED  BY <2>3, <2>5
<1>7. IsHeap(r)
  <2>1. RisenInOrder(r, long, item, n)
    BY <1>1, <1>2, <1>3, <1>4, UpOrders
  <2>. QED  BY <2>1, <1>6 DEF IsHeap, RisenInOrder
<1>8. Risen(r, long, item, n)
  BY <1>1, <1>2, <1>3, UpRises
<1>9. ASSUME NEW x PROVE Holds(r, x) <=> x = item \/ Holds(data, x)
  <2>1. \A j \in 1..n : r[j] = item \/ \E k \in 1..(n - 1) : r[j] = data[k]
    BY <1>8, <1>1, <1>3 DEF Risen
  <2>2. \E j \in 1..n : r[j] = item
    BY <1>8 DEF Risen
  <2>3. \A k \in 1..(n - 1) : \E j \in 1..n : r[j] = data[k]
    BY <1>8, <1>1, <1>3 DEF Risen
  <2>4. ASSUME Holds(r, x) PROVE x = item \/ Holds(data, x)
    <3>1. PICK j \in 1..n : r[j] = x
      BY <1>6, <2>4 DEF Holds
    <3>. QED  BY <2>1, <3>1, <1>3 DEF Holds
  <2>5. ASSUME Holds(data, x) PROVE Holds(r, x)
    <3>1. PICK k \in 1..(n - 1) : data[k] = x
      BY <1>3, <2>5 DEF Holds
    <3>. QED  BY <2>3, <3>1, <1>6 DEF Holds
  <2>6. ASSUME x = item PROVE Holds(r, x)
    BY <2>2, <2>6, <1>6 DEF Holds
  <2>. QED  BY <2>4, <2>5, <2>6
<1>10. ASSUME IsDistinct(data), ~Holds(data, item) PROVE IsDistinct(r)
  <2>1. \A j, k \in 1..(n - 1) : long[j] = long[k] => j = k
    BY <1>1, <1>3, <1>10 DEF IsDistinct
  <2>2. \A k \in 1..(n - 1) : long[k] # item
    BY <1>1, <1>3, <1>10 DEF Holds
  <2>3. \A j, k \in 1..n : up[n][j] = up[n][k] => j = k
    BY <2>1, <2>2, <1>1, <1>2, <1>3, UpDistinct
  <2>. QED  BY <2>3, <1>3, <1>6 DEF IsDistinct
<1>. QED  BY <1>1, <1>3, <1>6, <1>7, <1>9, <1>10 DEF r, n

-----------------------------------------------------------------------------
\* down[i] from the entries of down behind i.
FallFrom(down, data, item, i) ==
  IF \/ i > Len(data) \div 2
     \/ ~Less(data[LeastChild(data, i)], item)
  THEN [data EXCEPT ![i] = item]
  ELSE [down[LeastChild(data, i)] EXCEPT ![i] = data[LeastChild(data, i)]]

IsDown(down, data, item, pos) ==
  down = [i \in pos..Len(data) |-> FallFrom(down, data, item, i)]

\* A position with a child has a least one, further down.
LEMMA LeastChildIs ==
  ASSUME NEW S, Comparable(S), NEW data \in Seq(S), NEW i \in 1..Len(data), ~(i > Len(data) \div 2)
  PROVE  /\ LeastChild(data, i) \in (i + 1)..Len(data)
         /\ LeastChild(data, i) \div 2 = i
         /\ \A j \in 1..Len(data) : j \div 2 = i => NotAfter(data[LeastChild(data, i)], data[j])
<1>1. Len(data) \in Nat /\ \A j \in 1..Len(data) : data[j] \in S
  OBVIOUS
<1>2. /\ 2 * i \in (i + 1)..Len(data) /\ 2 * i \in 1..Len(data) /\ i \in 1..Len(data)
      /\ (2 * i) \div 2 = i /\ (2 * i + 1) \div 2 = i
  BY <1>1, SMT
<1>3. \A j \in 1..Len(data) : j \div 2 = i => j = 2 * i \/ j = 2 * i + 1
  BY <1>1, SMT
<1>4. CASE 2 * i < Len(data) /\ Less(data[2 * i + 1], data[2 * i])
  <2>1. LeastChild(data, i) = 2 * i + 1 /\ 2 * i + 1 \in (i + 1)..Len(data) /\ 2 * i + 1 \in 1..Len(data)
    BY <1>1, <1>2, <1>4 DEF LeastChild
  <2>2. data[2 * i + 1] \in S /\ data[2 * i] \in S
    BY <1>1, <1>2, <2>1, Zenon
  <2>3. NotAfter(data[2 * i + 1], data[2 * i]) /\ NotAfter(data[2 * i + 1], data[2 * i + 1])
    BY <1>4, <2>2, LessOrders
  <2>4. \A j \in 1..Len(data) : j \div 2 = i => NotAfter(data[2 * i + 1], data[j])
    BY <1>3, <2>3, Zenon
  <2>. QED  BY <1>2, <2>1, <2>4
<1>5. CASE ~(2 * i < Len(data) /\ Less(data[2 * i + 1], data[2 * i]))
  <2>1. LeastChild(data, i) = 2 * i /\ 2 * i \in 1..Len(data)
    BY <1>1, <1>2, <1>5 DEF LeastChild
  <2>2. NotAfter(data[2 * i], data[2 * i])
    BY <1>1, <2>1, LessOrders
  <2>3. \A j \in 1..Len(data) : j = 2 * i + 1 => NotAfter(data[2 * i], data[j])
    BY <1>1, <1>5 DEF NotAfter
  <2>4. \A j \in 1..Len(data) : j \div 2 = i => NotAfter(data[2 * i], data[j])
    BY <1>3, <2>2, <2>3
  <2>. QED  BY <1>2, <2>1, <2>4
<1>. QED  BY <1>4, <1>5

\* down is defined by what lies behind it.
LEMMA DownExists ==
  ASSUME NEW S, Comparable(S), NEW data \in Seq(S), NEW item, NEW pos \in 1..Len(data)
  PROVE  \E down : IsDown(down, data, item, pos)
<1> DEFINE n == Len(data)
           Bad == {m \in 0..n : ~ \E down : IsDown(down, data, item, n + 1 - m)}
<1>1. n \in Nat /\ Bad \subseteq Nat
  OBVIOUS
<1>2. ASSUME Bad # {} PROVE FALSE
  <2>1. PICK m \in Bad : \A k \in Bad : m <= k
    BY <1>1, <1>2, SmallestNat
  <2>2. m \in 0..n /\ ~ \E down : IsDown(down, data, item, n + 1 - m)
    BY <2>1
  <2>3. m # 0
    <3>1. IsDown([i \in (n + 1)..n |-> 0], data, item, n + 1)
      BY <1>1, SMT DEF IsDown
    <3>2. n + 1 - 0 = n + 1
      BY <1>1
    <3>. QED  BY <2>2, <3>1, <3>2
  <2> DEFINE p == n + 1 - m
  <2>4. m - 1 \in 0..n /\ m - 1 \notin Bad /\ n + 1 - (m - 1) = p + 1 /\ p \in 1..n
    <3>1. m - 1 \in 0..n /\ ~(m <= m - 1) /\ n + 1 - (m - 1) = p + 1 /\ p \in 1..n
      BY <1>1, <2>2, <2>3, SMT
    <3>. QED  BY <2>1, <3>1
  <2>5. PICK down : IsDown(down, data, item, p + 1)
    BY <2>4
  <2>6. ~ \E d : IsDown(d, data, item, p)
    BY <2>2
  <2> HIDE DEF n, p
  <2> DEFINE longer == [i \in p..n |-> FallFrom(down, data, item, i)]
  <2>7. \A i \in (p + 1)..n : down[i] = FallFrom(down, data, item, i) /\ i \in p..n
    <3>1. \A i \in (p + 1)..n : i \in p..n
      BY <2>4, <1>1
    <3>2. \A i \in (p + 1)..n : down[i] = FallFrom(down, data, item, i)
      BY <2>5, Zenon DEF IsDown, n
    <3>. QED  BY <3>1, <3>2
  <2>8. \A i \in (p + 1)..n : longer[i] = down[i]
    BY <2>7
  <2>9. ASSUME NEW i \in p..n PROVE longer[i] = FallFrom(longer, data, item, i)
    <3>1. longer[i] = FallFrom(down, data, item, i)
      OBVIOUS
    <3>2. CASE i > n \div 2
      <4> HIDE DEF longer
      <4>. QED  BY <3>1, <3>2, Zenon DEF FallFrom, n
    <3>3. CASE ~(i > n \div 2)
      <4>1. i \in 1..Len(data) /\ ~(i > Len(data) \div 2)
        BY <2>4, <1>1, <3>3 DEF n
      <4>2. LeastChild(data, i) \in (i + 1)..Len(data)
        BY <4>1, LeastChildIs
      <4>3. \A k \in (i + 1)..Len(data) : k \in (p + 1)..n
        BY <2>4, <1>1 DEF n
      <4>4. longer[LeastChild(data, i)] = down[LeastChild(data, i)]
        BY <2>8, <4>2, <4>3
      <4> HIDE DEF longer
      <4>. QED  BY <3>1, <4>4, Zenon DEF FallFrom
    <3>. QED  BY <3>2, <3>3
  <2>10. longer = [i \in p..n |-> longer[i]]
    OBVIOUS
  <2>11. IsDown(longer, data, item, p)
    <3> HIDE DEF longer
    <3>. QED  BY <2>9, <2>10, Zenon DEF IsDown, n
  <2>. QED  BY <2>6, <2>11
<1>3. n + 1 - pos \in 0..n /\ n + 1 - (n + 1 - pos) = pos
  BY <1>1, SMT
<1>4. n + 1 - pos \notin Bad
  BY <1>2
<1>. QED  BY <1>3, <1>4

\* The array that Down makes is the first entry of such a down.
LEMMA DownIs ==
  ASSUME NEW S, Comparable(S), NEW data \in Seq(S), NEW item, NEW pos \in 1..Len(data)
  PROVE  \E down : IsDown(down, data, item, pos) /\ Down(data, pos, item) = down[pos]
<1> DEFINE down == CHOOSE d : IsDown(d, data, item, pos)
<1>1. Down(data, pos, item) = down[pos]
  BY Zenon DEF Down, IsDown, FallFrom
<1>2. IsDown(down, data, item, pos)
  BY DownExists
<1>. QED  BY <1>1, <1>2

\* Where the candles of the array lie once the item has fallen from position i:
\* before i nothing moved, from i on lie the item and what lay behind i.
Fallen(r, data, item, i) ==
  /\ \A j \in 1..Len(data) : j < i => r[j] = data[j]
  /\ \A j \in i..Len(data) : r[j] = item \/ \E k \in (i + 1)..Len(data) : r[j] = data[k]
  /\ \E j \in i..Len(data) : r[j] = item
  /\ \A k \in (i + 1)..Len(data) : \E j \in i..Len(data) : r[j] = data[k]

\* And how they are ordered.
FallenInOrder(r, data, item, i) ==
  /\ \A j \in (i + 1)..Len(data) : NotAfter(data[j], r[j])
  /\ r[i] = item \/ \E j \in 1..Len(data) : j \div 2 = i /\ r[i] = data[j]
  /\ \A j \in 1..Len(data) : j \div 2 >= i => NotAfter(r[j \div 2], r[j])

\* The entries at which a property of the falling item fails: the last of them.
LEMMA LargestNat ==
  ASSUME NEW n \in Nat, NEW Bad, Bad \subseteq 1..n, Bad # {}
  PROVE  \E i \in Bad : \A m \in Bad : m <= i
<1> DEFINE Mirror == {n - i : i \in Bad}
<1>1. Mirror \subseteq Nat /\ Mirror # {}
  <2>1. \A i \in Bad : n - i \in Nat
    BY SMT
  <2>. QED  BY <2>1
<1>2. PICK k \in Mirror : \A m \in Mirror : k <= m
  BY <1>1, SmallestNat
<1>3. PICK i \in Bad : k = n - i
  BY <1>2
<1>4. ASSUME NEW m \in Bad PROVE m <= i
  <2>1. n - m \in Mirror
    OBVIOUS
  <2>2. n - i <= n - m
    BY <1>2, <1>3, <2>1
  <2>. QED  BY <2>2, SMT
<1>. QED  BY <1>4

\* Falling keeps the array's length and items.
LEMMA DownShape ==
  ASSUME NEW S, Comparable(S), NEW data \in Seq(S), NEW item \in S, NEW pos \in 1..Len(data),
         NEW down, IsDown(down, data, item, pos)
  PROVE  \A i \in pos..Len(data) : down[i] \in [1..Len(data) -> S]
<1> DEFINE Bad == {i \in pos..Len(data) : down[i] \notin [1..Len(data) -> S]}
<1>1. SUFFICES ASSUME Bad # {} PROVE FALSE
  OBVIOUS
<1>2. Len(data) \in Nat /\ data \in [1..Len(data) -> S] /\ Bad \subseteq 1..Len(data)
  OBVIOUS
<1>3. PICK i \in Bad : \A m \in Bad : m <= i
  BY <1>1, <1>2, LargestNat
<1>4. i \in pos..Len(data) /\ i \in 1..Len(data) /\ down[i] \notin [1..Len(data) -> S]
  BY <1>2, <1>3
<1>5. down[i] = FallFrom(down, data, item, i)
  BY <1>4, Zenon DEF IsDown
<1>6. CASE i > Len(data) \div 2 \/ ~Less(data[LeastChild(data, i)], item)
  <2>1. down[i] = [data EXCEPT ![i] = item]
    BY <1>5, <1>6, Zenon DEF FallFrom
  <2>. QED  BY <1>2, <1>4, <2>1, Zenon
<1>7. CASE ~(i > Len(data) \div 2) /\ Less(data[LeastChild(data, i)], item)
  <2> DEFINE b == LeastChild(data, i)
  <2>1. b \in (i + 1)..Len(data)
    BY <1>4, <1>7, LeastChildIs
  <2>2. down[i] = [down[b] EXCEPT ![i] = data[b]]
    BY <1>5, <1>7, Zenon DEF FallFrom
  <2> HIDE DEF b
  <2>3. b \in pos..Len(data) /\ b \in 1..Len(data) /\ b > i
    BY <2>1, <1>2, <1>4
  <2>4. b \notin Bad
    BY <1>2, <1>3, <2>3
  <2>5. down[b] \in [1..Len(data) -> S] /\ data[b] \in S
    BY <1>2, <2>3, <2>4
  <2>. QED  BY <1>4, <2>2, <2>5, Zenon
<1>. QED  BY <1>6, <1>7

\* The two forms of a turn: the item stays at i, or the least child b rises there.
Stays(r, data, item, i) ==
  /\ i > Len(data) \div 2 \/ ~Less(data[LeastChild(data, i)], item)
  /\ r[i] = item
  /\ \A j \in 1..Len(data) : j # i => r[j] = data[j]

Sinks(r, q, data, item, i, b) ==
  /\ b \div 2 = i /\ Less(data[b], item)
  /\ \A j \in 1..Len(data) : j \div 2 = i => NotAfter(data[b], data[j])
  /\ r[i] = data[b]
  /\ \A j \in 1..Len(data) : j # i => r[j] = q[j]

\* Every entry of down takes one of the two forms.
LEMMA DownTurn ==
  ASSUME NEW S, Comparable(S), NEW data \in Seq(S), NEW item \in S, NEW pos \in 1..Len(data),
         NEW down, IsDown(down, data, item, pos), NEW i \in pos..Len(data)
  PROVE  \/ Stays(down[i], data, item, i)
         \/ \E b \in (i + 1)..Len(data) : b \in pos..Len(data) /\ Sinks(down[i], down[b], data, item, i, b)
<1>1. down[i] = FallFrom(down, data, item, i)
  BY Zenon DEF IsDown
<1>2. Len(data) \in Nat /\ i \in 1..Len(data) /\ data \in [1..Len(data) -> S]
  OBVIOUS
<1>3. CASE i > Len(data) \div 2 \/ ~Less(data[LeastChild(data, i)], item)
  <2>1. down[i] = [data EXCEPT ![i] = item]
    BY <1>1, <1>3, Zenon DEF FallFrom
  <2>. QED  BY <1>2, <1>3, <2>1 DEF Stays
<1>4. CASE ~(i > Len(data) \div 2) /\ Less(data[LeastChild(data, i)], item)
  <2> DEFINE b == LeastChild(data, i)
  <2>1. /\ b \in (i + 1)..Len(data) /\ b \div 2 = i
        /\ \A j \in 1..Len(data) : j \div 2 = i => NotAfter(data[b], data[j])
    BY <1>2, <1>4, LeastChildIs
  <2>2. down[i] = [down[b] EXCEPT ![i] = data[b]] /\ Less(data[b], item)
    BY <1>1, <1>4, Zenon DEF FallFrom
  <2> HIDE DEF b
  <2>3. b \in pos..Len(data) /\ b \in 1..Len(data)
    BY <2>1, <1>2
  <2>4. down[b] \in [1..Len(data) -> S]
    BY <2>3, DownShape
  <2>5. down[i][i] = data[b] /\ \A j \in 1..Len(data) : j # i => down[i][j] = down[b][j]
    BY <1>2, <2>2, <2>4
  <2>6. Sinks(down[i], down[b], data, item, i, b)
    BY <2>1, <2>2, <2>5, Zenon DEF Sinks
  <2>. QED  BY <2>1, <2>3, <2>6
<1>. QED  BY <1>3, <1>4

\* Every entry of down is the array with the item fallen that far.
LEMMA DownFalls ==
  ASSUME NEW S, Comparable(S), NEW data \in Seq(S), NEW item \in S, NEW pos \in 1..Len(data),
         NEW down, IsDown(down, data, item, pos)
  PROVE  \A i \in pos..Len(data) : Fallen(down[i], data, item, i)
<1> DEFINE Bad == {i \in pos..Len(data) : ~Fallen(down[i], data, item, i)}
<1>1. SUFFICES ASSUME Bad # {} PROVE FALSE
  OBVIOUS
<1>2. Len(data) \in Nat /\ Bad \subseteq 1..Len(data)
  OBVIOUS
<1>3. PICK i \in Bad : \A m \in Bad : m <= i
  BY <1>1, <1>2, LargestNat
<1>4. i \in pos..Len(data) /\ i \in 1..Len(data) /\ i \in Nat /\ ~Fallen(down[i], data, item, i)
  BY <1>2, <1>3
<1> DEFINE r == down[i]
<1> HIDE DEF r
<1>5. CASE Stays(down[i], data, item, i)
  <2>1. r[i] = item /\ \A j \in 1..Len(data) : j # i => r[j] = data[j]
    BY <1>5 DEF r, Stays
  <2>2. \A j \in (i + 1)..Len(data) : j \in i..Len(data) /\ j # i /\ j \in 1..Len(data)
    BY <1>2, <1>4
  <2>3. \A j \in i..Len(data) : j = i \/ j \in (i + 1)..Len(data)
    BY <1>2, <1>4
  <2>4. i \in i..Len(data) /\ \A j \in 1..Len(data) : j < i => j # i
    BY <1>4
  <2>5. Fallen(r, data, item, i)
    BY <2>1, <2>2, <2>3, <2>4, Zenon DEF Fallen
  <2>. QED  BY <1>4, <2>5 DEF r
<1>6. ASSUME NEW b \in (i + 1)..Len(data), b \in pos..Len(data), Sinks(down[i], down[b], data, item, i, b)
      PROVE  FALSE
  <2> DEFINE q == down[b]
  <2>1. r[i] = data[b] /\ \A j \in 1..Len(data) : j # i => r[j] = q[j]
    BY <1>6 DEF r, Sinks
  <2>2. b > i /\ b \notin Bad /\ b \in 1..Len(data)
    BY <1>2, <1>3, <1>4, <1>6
  <2>3. Fallen(q, data, item, b)
    BY <1>6, <2>2
  <2> HIDE DEF q
  <2>4. \A j \in 1..Len(data) : j < i => r[j] = data[j]
    <3>1. \A j \in 1..Len(data) : j < i => j # i /\ j < b
      BY <2>2, <1>2, <1>4, <1>6
    <3>2. \A j \in 1..Len(data) : j < b => q[j] = data[j]
      BY <2>3 DEF Fallen
    <3>. QED  BY <2>1, <3>1, <3>2
  <2>5. \A j \in i..Len(data) : r[j] = item \/ \E k \in (i + 1)..Len(data) : r[j] = data[k]
    <3>1. SUFFICES ASSUME NEW j \in i..Len(data)
                   PROVE  r[j] = item \/ \E k \in (i + 1)..Len(data) : r[j] = data[k]
      OBVIOUS
    <3>2. j \in 1..Len(data)
      BY <1>2, <1>4
    <3>3. CASE j = i
      BY <2>1, <3>3
    <3>4. CASE j < b /\ j # i
      <4>1. r[j] = data[j] /\ j \in (i + 1)..Len(data)
        BY <2>1, <2>3, <3>2, <3>4, <1>4 DEF Fallen
      <4>. QED  BY <4>1
    <3>5. CASE j >= b
      <4>1. j \in b..Len(data) /\ j # i
        BY <3>5, <2>2, <1>2, <1>4
      <4>2. r[j] = q[j] /\ (q[j] = item \/ \E k \in (b + 1)..Len(data) : q[j] = data[k])
        BY <4>1, <2>1, <2>3, <3>2 DEF Fallen
      <4>3. \A k \in (b + 1)..Len(data) : k \in (i + 1)..Len(data)
        BY <2>2, <1>2, <1>4
      <4>. QED  BY <4>2, <4>3
    <3>. QED  BY <3>3, <3>4, <3>5
  <2>6. \E j \in i..Len(data) : r[j] = item
    <3>1. PICK j \in b..Len(data) : q[j] = item
      BY <2>3 DEF Fallen
    <3>2. j \in i..Len(data) /\ j # i /\ j \in 1..Len(data)
      BY <2>2, <1>2, <1>4
    <3>. QED  BY <3>1, <3>2, <2>1
  <2>7. \A k \in (i + 1)..Len(data) : \E j \in i..Len(data) : r[j] = data[k]
    <3>1. SUFFICES ASSUME NEW k \in (i + 1)..Len(data) PROVE \E j \in i..Len(data) : r[j] = data[k]
      OBVIOUS
    <3>2. k \in 1..Len(data) /\ k # i /\ k \in i..Len(data) /\ i \in i..Len(data)
      BY <1>2, <1>4
    <3>3. CASE k = b
      BY <2>1, <3>2, <3>3
    <3>4. CASE k < b
      <4>1. r[k] = data[k]
        BY <2>1, <2>3, <3>2, <3>4 DEF Fallen
      <4>. QED  BY <4>1, <3>2
    <3>5. CASE k > b
      <4>1. k \in (b + 1)..Len(data)
        BY <3>5
      <4>2. PICK j \in b..Len(data) : q[j] = data[k]
        BY <4>1, <2>3 DEF Fallen
      <4>3. j \in i..Len(data) /\ j # i /\ j \in 1..Len(data)
        BY <2>2, <1>2, <1>4
      <4>. QED  BY <4>2, <4>3, <2>1
    <3>. QED  BY <3>3, <3>4, <3>5
  <2>8. Fallen(r, data, item, i)
    BY <2>4, <2>5, <2>6, <2>7, Zenon DEF Fallen
  <2>. QED  BY <1>4, <2>8 DEF r
<1>. QED  BY <1>4, <1>5, <1>6, DownTurn

\* Falling keeps the items different from one another.
LEMMA DownDistinct ==
  ASSUME NEW S, Comparable(S), NEW data \in Seq(S), NEW item \in S, NEW pos \in 1..Len(data),
         NEW down, IsDown(down, data, item, pos),
         \A j, k \in (pos + 1)..Len(data) : data[j] = data[k] => j = k,
         \A k \in (pos + 1)..Len(data) : data[k] # item
  PROVE  \A i \in pos..Len(data) : \A j, k \in i..Len(data) : down[i][j] = down[i][k] => j = k
<1> DEFINE n == Len(data)
           Bad == {i \in pos..n : ~ \A j, k \in i..n : down[i][j] = down[i][k] => j = k}
<1>1. SUFFICES ASSUME Bad # {} PROVE FALSE
  OBVIOUS
<1>2. n \in Nat /\ Bad \subseteq 1..n /\ pos \in 1..n
  OBVIOUS
<1>3. PICK i \in Bad : \A m \in Bad : m <= i
  BY <1>1, <1>2, LargestNat
<1>4. i \in pos..n /\ i \in 1..n /\ i \in Nat
  BY <1>2, <1>3
<1>5. PICK j \in i..n, k \in i..n : down[i][j] = down[i][k] /\ j # k
  BY <1>3
<1> DEFINE r == down[i]
<1>6. r[j] = r[k]
  BY <1>5
<1> HIDE DEF r, n
<1>7. CASE Stays(down[i], data, item, i)
  <2>1. r[i] = item /\ \A m \in 1..n : m # i => r[m] = data[m]
    BY <1>7 DEF r, n, Stays
  <2>2. \A m \in i..n : m # i => m \in (pos + 1)..n /\ m \in 1..n
    BY <1>2, <1>4
  <2>3. \A m \in i..n : m # i => r[m] = data[m] /\ r[m] # item
    BY <2>1, <2>2 DEF n
  <2>4. \A l, m \in i..n : l # i /\ m # i /\ r[l] = r[m] => l = m
    BY <2>2, <2>3 DEF n
  <2>. QED  BY <2>1, <2>3, <2>4, <1>5, <1>6
<1>8. ASSUME NEW b \in (i + 1)..Len(data), b \in pos..Len(data), Sinks(down[i], down[b], data, item, i, b)
      PROVE  FALSE
  <2> DEFINE q == down[b]
  <2>1. r[i] = data[b] /\ \A m \in 1..n : m # i => r[m] = q[m]
    BY <1>8 DEF r, n, Sinks
  <2>2. b > i /\ b \notin Bad /\ b \in pos..n /\ b \in 1..n
    <3>1. b > i /\ b \in pos..n /\ b \in 1..n
      BY <1>2, <1>4, <1>8 DEF n
    <3>2. b \notin Bad
      <4> HIDE DEF Bad
      <4>. QED  BY <1>2, <1>3, <1>4, <3>1
    <3>. QED  BY <3>1, <3>2
  <2>3. Fallen(q, data, item, b) /\ \A l, m \in b..n : q[l] = q[m] => l = m
    BY <1>8, <2>2, DownFalls
  <2> HIDE DEF q
  \* What lies from b on came from behind b or is the item; the rest did not move.
  <2>4. ASSUME NEW a \in b..n PROVE r[a] = q[a] /\ \A m \in (pos + 1)..b : r[a] # data[m]
    <3>1. a \in 1..n /\ a # i /\ r[a] = q[a]
      BY <2>1, <2>2, <1>2, <1>4
    <3>2. q[a] = item \/ \E m \in (b + 1)..n : q[a] = data[m]
      BY <2>3 DEF Fallen, n
    <3>3. \A m \in (b + 1)..n : m \in (pos + 1)..n /\ \A l \in (pos + 1)..b : m # l
      BY <2>2, <1>2, <1>4
    <3>4. \A l \in (pos + 1)..b : l \in (pos + 1)..n
      BY <2>2, <1>2
    <3>. QED  BY <3>1, <3>2, <3>3, <3>4 DEF n
  <2>5. ASSUME NEW a \in i..n, ~(a \in b..n) PROVE
          \E m \in (pos + 1)..b : r[a] = data[m] /\ (a = i => m = b) /\ (a # i => m = a /\ a # b)
    <3>1. CASE a = i
      <4>1. b \in (pos + 1)..b
        BY <2>2, <1>2, <1>4
      <4>. QED  BY <2>1, <3>1, <4>1
    <3>2. CASE a # i
      <4>1. a \in 1..n /\ a < b /\ a \in (pos + 1)..b /\ a # b
        BY <2>2, <2>5, <3>2, <1>2, <1>4
      <4>2. r[a] = data[a]
        BY <2>1, <2>3, <3>2, <4>1 DEF Fallen, n
      <4>. QED  BY <4>1, <4>2, <3>2
    <3>. QED  BY <3>1, <3>2
  <2>6. CASE j \in b..n /\ k \in b..n
    BY <2>3, <2>4, <2>6, <1>5, <1>6
  <2>7. CASE j \in b..n /\ k \notin b..n
    BY <2>4, <2>5, <2>7, <1>5, <1>6
  <2>8. CASE j \notin b..n /\ k \in b..n
    BY <2>4, <2>5, <2>8, <1>5, <1>6
  <2>9. CASE j \notin b..n /\ k \notin b..n
    <3>1. PICK m \in (pos + 1)..b : r[j] = data[m] /\ (j = i => m = b) /\ (j # i => m = j /\ j # b)
      BY <2>5, <2>9
    <3>2. PICK l \in (pos + 1)..b : r[k] = data[l] /\ (k = i => l = b) /\ (k # i => l = k /\ k # b)
      BY <2>5, <2>9
    <3>3. m \in (pos + 1)..n /\ l \in (pos + 1)..n
      BY <2>2, <1>2
    <3>4. m = l
      BY <3>1, <3>2, <3>3, <1>6 DEF n
    <3>. QED  BY <3>1, <3>2, <3>4, <1>5
  <2>. QED  BY <2>6, <2>7, <2>8, <2>9
<1>9. i \in pos..Len(data)
  BY <1>4 DEF n
<1>10. \/ Stays(down[i], data, item, i)
       \/ \E b \in (i + 1)..Len(data) : b \in pos..Len(data) /\ Sinks(down[i], down[b], data, item, i, b)
  BY <1>9, DownTurn
<1>. QED  BY <1>7, <1>8, <1>10, Zenon

\* Falling restores the order of a heap from the item's place on.
LEMMA DownOrders ==
  ASSUME NEW S, Comparable(S), NEW data \in Seq(S), NEW item \in S, NEW pos \in 1..Len(data),
         NEW down, IsDown(down, data, item, pos),
         \A j \in 1..Len(data) : j \div 2 > pos => NotAfter(data[j \div 2], data[j])
  PROVE  \A i \in pos..Len(data) : FallenInOrder(down[i], data, item, i)
<1> DEFINE n == Len(data)
           Bad == {i \in pos..n : ~FallenInOrder(down[i], data, item, i)}
<1>1. SUFFICES ASSUME Bad # {} PROVE FALSE
  OBVIOUS
<1>2. n \in Nat /\ Bad \subseteq 1..n /\ pos \in 1..n /\ \A j \in 1..n : data[j] \in S
  OBVIOUS
<1>3. PICK i \in Bad : \A m \in Bad : m <= i
  BY <1>1, <1>2, LargestNat
<1>4. i \in pos..n /\ i \in 1..n /\ i \in Nat /\ ~FallenInOrder(down[i], data, item, i) /\ i \in pos..Len(data)
  BY <1>2, <1>3
<1> DEFINE r == down[i]
<1>5. \A j \in 1..n : r[j] \in S
  BY <1>4, DownShape
\* The order that the array had already.
<1>6. \A j \in 1..n : j \div 2 > i => NotAfter(data[j \div 2], data[j])
  <2>1. \A j \in 1..n : j \div 2 > i => j \div 2 > pos
    BY <1>2, <1>4, SMT
  <2>. QED  BY <2>1
<1>7. \A j \in 1..n : (j \div 2 >= i => j # i /\ j > i) /\ j \div 2 < j /\ (j \div 2 >= i => j \div 2 \in 1..n)
  BY <1>2, <1>4, SMT
<1> HIDE DEF r, n
<1>8. CASE Stays(down[i], data, item, i)
  <2>1. r[i] = item /\ \A m \in 1..n : m # i => r[m] = data[m]
    BY <1>8 DEF r, n, Stays
  <2>2. \A j \in (i + 1)..n : NotAfter(data[j], r[j])
    <3>1. \A j \in (i + 1)..n : j \in 1..n /\ j # i
      BY <1>2, <1>4
    <3>. QED  BY <2>1, <3>1, <1>2, LessOrders
  <2>3. \A j \in 1..n : j \div 2 >= i => NotAfter(r[j \div 2], r[j])
    <3>1. SUFFICES ASSUME NEW j \in 1..n, j \div 2 >= i PROVE NotAfter(r[j \div 2], r[j])
      OBVIOUS
    <3>2. r[j] = data[j] /\ j \div 2 \in 1..n
      BY <2>1, <1>7, <3>1
    <3>3. CASE j \div 2 > i
      <4>1. r[j \div 2] = data[j \div 2]
        BY <2>1, <3>2, <3>3, <1>4
      <4>. QED  BY <3>2, <3>3, <4>1, <1>6
    <3>4. CASE j \div 2 = i
      <4>1. ~(i > n \div 2)
        BY <3>4, <1>2, SMT
      <4>2. ~Less(data[LeastChild(data, i)], item)
        BY <1>8, <4>1 DEF n, Stays
      <4>3. /\ LeastChild(data, i) \in (i + 1)..n
            /\ NotAfter(data[LeastChild(data, i)], data[j])
        BY <1>4, <3>4, <4>1, LeastChildIs DEF n
      <4>4. data[LeastChild(data, i)] \in S /\ data[j] \in S
        BY <4>3, <1>2, <1>4
      <4>5. NotAfter(item, data[j])
        BY <4>2, <4>3, <4>4, LessOrders DEF NotAfter
      <4>. QED  BY <2>1, <3>2, <3>4, <4>5
    <3>. QED  BY <3>1, <3>2, <3>3, <3>4, <1>2, <1>4
  <2>4. FallenInOrder(r, data, item, i)
    BY <2>1, <2>2, <2>3, Zenon DEF FallenInOrder, n
  <2>. QED  BY <1>4, <2>4 DEF r
<1>9. ASSUME NEW b \in (i + 1)..Len(data), b \in pos..Len(data), Sinks(down[i], down[b], data, item, i, b)
      PROVE  FALSE
  <2> DEFINE q == down[b]
  <2>1. r[i] = data[b] /\ (\A m \in 1..n : m # i => r[m] = q[m]) /\ \A j \in 1..n : j \div 2 = i => NotAfter(data[b], data[j])
    BY <1>9 DEF r, n, Sinks
  <2>2. b > i /\ b \notin Bad /\ b \in pos..n /\ b \in 1..n
    BY <1>2, <1>3, <1>4, <1>9 DEF n
  <2>3. Fallen(q, data, item, b) /\ FallenInOrder(q, data, item, b) /\ \A j \in 1..n : q[j] \in S
    BY <1>9, <2>2, DownFalls, DownShape DEF n
  <2> HIDE DEF q
  <2>4. \A j \in (i + 1)..n : NotAfter(data[j], r[j])
    <3>1. SUFFICES ASSUME NEW j \in (i + 1)..n PROVE NotAfter(data[j], r[j])
      OBVIOUS
    <3>2. j \in 1..n /\ j # i /\ r[j] = q[j]
      BY <2>1, <1>2, <1>4
    <3>3. CASE j > b
      <4>1. j \in (b + 1)..n
        BY <3>3, <3>2, <2>2
      <4>. QED  BY <4>1, <3>2, <2>3 DEF FallenInOrder, n
    <3>4. CASE j < b
      <4>1. q[j] = data[j]
        BY <3>2, <3>4, <2>3 DEF Fallen, n
      <4>. QED  BY <4>1, <3>2, <1>2, LessOrders
    <3>5. CASE j = b
      <4>1. q[b] = item \/ \E c \in 1..n : c \div 2 = b /\ q[b] = data[c]
        BY <2>3 DEF FallenInOrder, n
      <4>2. CASE q[b] = item
        <5>1. NotAfter(data[b], item)
          <6>1. Less(data[b], item)
            BY <1>9 DEF Sinks
          <6>. QED  BY <6>1, <1>2, <2>2, LessOrders
        <5>. QED  BY <3>2, <3>5, <4>2, <5>1
      <4>3. ASSUME NEW c \in 1..n, c \div 2 = b, q[b] = data[c] PROVE NotAfter(data[j], r[j])
        <5>1. NotAfter(data[b], data[c])
          BY <1>6, <2>2, <4>3
        <5>. QED  BY <3>2, <3>5, <4>3, <5>1
      <4>. QED  BY <4>1, <4>2, <4>3
    <3>. QED  BY <3>2, <3>3, <3>4, <3>5, <2>2
  <2>5. \A j \in 1..n : j \div 2 >= i => NotAfter(r[j \div 2], r[j])
    <3>1. SUFFICES ASSUME NEW j \in 1..n, j \div 2 >= i PROVE NotAfter(r[j \div 2], r[j])
      OBVIOUS
    <3> DEFINE h == j \div 2
    <3>2. r[j] = q[j] /\ h \in 1..n /\ j > i /\ j \in (i + 1)..n /\ h < j
      BY <2>1, <1>2, <1>4, <1>7, <3>1
    <3>3. CASE h = i
      <4>1. NotAfter(data[b], data[j]) /\ NotAfter(data[j], r[j])
        BY <2>1, <2>4, <3>2, <3>3
      <4>2. data[b] \in S /\ data[j] \in S /\ r[j] \in S
        BY <1>2, <1>5, <2>2
      <4>3. NotAfter(data[b], r[j])
        BY <4>1, <4>2, LessOrders
      <4>. QED  BY <2>1, <3>3, <4>3
    <3>4. CASE h > i /\ h >= b
      <4>1. r[h] = q[h] /\ NotAfter(q[h], q[j])
        BY <2>1, <2>3, <3>2, <3>4, <1>4 DEF FallenInOrder, n
      <4>. QED  BY <3>2, <4>1
    <3>5. CASE h > i /\ h < b
      <4>1. r[h] = data[h]
        <5>1. r[h] = q[h]
          BY <2>1, <3>2, <3>5, <1>4
        <5>2. q[h] = data[h]
          BY <2>3, <3>2, <3>5 DEF Fallen, n
        <5>. QED  BY <5>1, <5>2
      <4>2. NotAfter(data[h], data[j]) /\ NotAfter(data[j], r[j])
        BY <1>6, <2>4, <3>2, <3>5
      <4>3. data[h] \in S /\ data[j] \in S /\ r[j] \in S
        BY <1>2, <1>5, <3>2
      <4>4. NotAfter(data[h], r[j])
        BY <4>2, <4>3, LessOrders
      <4>. QED  BY <4>1, <4>4
    <3>. QED  BY <3>1, <3>2, <3>3, <3>4, <3>5, <1>2, <1>4, <2>2
  <2>6. r[i] = item \/ \E j \in 1..n : j \div 2 = i /\ r[i] = data[j]
    BY <2>1, <2>2, <1>9 DEF Sinks
  <2>7. FallenInOrder(r, data, item, i)
    BY <2>4, <2>5, <2>6, Zenon DEF FallenInOrder, n
  <2>. QED  BY <1>4, <2>7 DEF r
<1>10. \/ Stays(down[i], data, item, i)
       \/ \E b \in (i + 1)..Len(data) : b \in pos..Len(data) /\ Sinks(down[i], down[b], data, item, i, b)
  BY <1>4, DownTurn
<1>. QED  BY <1>8, <1>9, <1>10, Zenon

\* Pop: one item less, of which nothing in the heap was smaller, and still a heap.
LEMMA PopKeepsHeap ==
  ASSUME NEW S, Comparable(S), NEW data \in Seq(S), data # <<>>, IsHeap(data), IsDistinct(data)
  PROVE  /\ Popped(data) \in Seq(S)
         /\ Len(Popped(data)) = Len(data) - 1
         /\ IsHeap(Popped(data)) /\ IsDistinct(Popped(data))
         /\ \A x : Holds(Popped(data), x) <=> x # data[1] /\ Holds(data, x)
<1>1. Len(data) \in Nat \ {0} /\ \A j \in 1..Len(data) : data[j] \in S
  BY EmptySeq
<1>2. CASE Len(data) = 1
  <2>1. Popped(data) = <<>> /\ Len(<<>>) = 0 /\ <<>> \in Seq(S)
    BY <1>2 DEF Popped
  <2>2. \A x : Holds(data, x) => x = data[1]
    BY <1>2 DEF Holds
  <2>3. \A x : ~Holds(<<>>, x)
    BY <2>1, SMT DEF Holds
  <2>4. IsHeap(<<>>) /\ IsDistinct(<<>>)
    BY <2>1, SMT DEF IsHeap, IsDistinct
  <2>. QED  BY <1>2, <2>1, <2>2, <2>3, <2>4
<1>3. CASE Len(data) > 1
  <2> DEFINE n == Len(data) - 1
             front == Front(data)
             item == Last(data)
             r == Popped(data)
  <2>1. n \in Nat \ {0} /\ 1 \in 1..n /\ Len(data) = n + 1
    BY <1>1, <1>3
  <2>2. front = SubSeq(data, 1, n) /\ item = data[n + 1]
    BY <2>1 DEF Front, Last
  <2>3. /\ front \in Seq(S) /\ Len(front) = n /\ item \in S
        /\ \A j \in 1..n : front[j] = data[j]
    BY <1>1, <2>1, <2>2, SubSeqProperties
  <2>4. r = Down(front, 1, item)
    BY <1>3 DEF Popped
  <2> HIDE DEF n, front, item, r
  <2>5. PICK down : IsDown(down, front, item, 1) /\ Down(front, 1, item) = down[1]
    BY <2>1, <2>3, DownIs
  <2>6. r = down[1] /\ 1 \in 1..Len(front)
    BY <2>1, <2>3, <2>4, <2>5
  <2>7. r \in [1..n -> S]
    BY <2>3, <2>5, <2>6, DownShape
  <2>8. r \in Seq(S) /\ Len(r) = n
    <3>1. r \in UNION {[1..m -> S] : m \in Nat}
      BY <2>1, <2>7
    <3>2. r \in Seq(S)
      BY <3>1, SeqDef
    <3>3. DOMAIN r = 1..n /\ DOMAIN r = 1..Len(r) /\ Len(r) \in Nat
      BY <2>7, <3>2, LenProperties
    <3>4. Len(r) = n
      BY <3>3, <2>1, SMT
    <3>. QED  BY <3>2, <3>4
  <2>9. \A j \in 1..n : j \div 2 > 1 => NotAfter(front[j \div 2], front[j])
    <3>1. \A j \in 1..n : j \div 2 > 1 => j \in 2..Len(data) /\ j \div 2 \in 1..n
      BY <2>1, SMT
    <3>. QED  BY <2>3, <3>1 DEF IsHeap
  <2>10. FallenInOrder(r, front, item, 1) /\ Fallen(r, front, item, 1)
    <3>1. \A j \in 1..Len(front) : j \div 2 > 1 => NotAfter(front[j \div 2], front[j])
      BY <2>3, <2>9
    <3>. QED  BY <2>3, <2>5, <2>6, <3>1, DownOrders, DownFalls
  <2>11. IsHeap(r)
    <3>1. \A j \in 1..n : j \div 2 >= 1 => NotAfter(r[j \div 2], r[j])
      BY <2>3, <2>10 DEF FallenInOrder
    <3>2. \A j \in 2..n : j \in 1..n /\ j \div 2 >= 1
      BY <2>1, SMT
    <3>. QED  BY <2>8, <3>1, <3>2 DEF IsHeap
  <2>12. \A j, k \in 2..n : front[j] = front[k] => j = k
    BY <2>1, <2>3 DEF IsDistinct
  <2>13. \A k \in 1..n : front[k] # item
    <3>1. \A k \in 1..n : k # n + 1 /\ k \in 1..Len(data) /\ n + 1 \in 1..Len(data)
      BY <2>1
    <3>. QED  BY <2>2, <2>3, <3>1 DEF IsDistinct
  <2>14. IsDistinct(r)
    <3>1. \A j, k \in (1 + 1)..Len(front) : front[j] = front[k] => j = k
      BY <2>3, <2>12
    <3>2. \A k \in (1 + 1)..Len(front) : front[k] # item
      BY <2>1, <2>3, <2>13
    <3>3. \A i \in 1..Len(front) : \A j, k \in i..Len(front) : down[i][j] = down[i][k] => j = k
      <4> DEFINE one == 1
      <4>1. one = 1 /\ one + 1 = 1 + 1
        OBVIOUS
      <4> HIDE DEF one
      <4>2. \A j, k \in (one + 1)..Len(front) : front[j] = front[k] => j = k
        BY <3>1, <4>1
      <4>3. \A k \in (one + 1)..Len(front) : front[k] # item
        BY <3>2, <4>1
      <4>4. one \in 1..Len(front) /\ IsDown(down, front, item, one)
        BY <2>5, <2>6, <4>1
      <4>5. \A i \in one..Len(front) : \A j, k \in i..Len(front) : down[i][j] = down[i][k] => j = k
        BY <2>3, <4>2, <4>3, <4>4, DownDistinct, SMTT(20)
      <4>. QED  BY <4>1, <4>5
    <3>4. \A j, k \in 1..Len(front) : down[1][j] = down[1][k] => j = k
      BY <2>6, <3>3, Zenon
    <3>. QED  BY <2>3, <2>6, <2>8, <3>4 DEF IsDistinct
  <2>15. ASSUME NEW x PROVE Holds(r, x) <=> x # data[1] /\ Holds(data, x)
    <3>1. \A j \in 1..n : r[j] = item \/ \E k \in 2..n : r[j] = data[k]
      <4>1. \A j \in 1..n : r[j] = item \/ \E k \in 2..n : r[j] = front[k]
        BY <2>3, <2>10 DEF Fallen
      <4>2. \A k \in 2..n : front[k] = data[k]
        BY <2>1, <2>3
      <4>. QED  BY <4>1, <4>2
    <3>2. \E j \in 1..n : r[j] = item
      BY <2>3, <2>10 DEF Fallen
    <3>3. \A k \in 2..n : \E j \in 1..n : r[j] = data[k]
      <4>1. \A k \in 2..n : \E j \in 1..n : r[j] = front[k]
        BY <2>3, <2>10 DEF Fallen
      <4>2. \A k \in 2..n : front[k] = data[k]
        BY <2>1, <2>3
      <4>. QED  BY <4>1, <4>2
    <3>4. \A k \in 1..(n + 1) : k = 1 \/ k \in 2..n \/ k = n + 1
      BY <2>1
    <3>5. \A k \in 2..n : k \in 1..(n + 1) /\ k # 1
      BY <2>1
    <3>6. 1 \in 1..(n + 1) /\ n + 1 \in 1..(n + 1) /\ n + 1 # 1
      BY <2>1
    <3>7. \A k \in 1..(n + 1) : data[k] = data[1] => k = 1
      BY <2>1, <3>6 DEF IsDistinct
    <3>8. Holds(r, x) <=> x = data[n + 1] \/ \E k \in 2..n : x = data[k]
      <4>1. ASSUME Holds(r, x) PROVE x = data[n + 1] \/ \E k \in 2..n : x = data[k]
        BY <2>2, <2>8, <3>1, <4>1 DEF Holds
      <4>2. ASSUME x = data[n + 1] PROVE Holds(r, x)
        BY <2>2, <2>8, <3>2, <4>2 DEF Holds
      <4>3. ASSUME NEW k \in 2..n, x = data[k] PROVE Holds(r, x)
        BY <2>8, <3>3, <4>3 DEF Holds
      <4>. QED  BY <4>1, <4>2, <4>3
    <3>9. Holds(data, x) <=> x = data[1] \/ x = data[n + 1] \/ \E k \in 2..n : x = data[k]
      BY <2>1, <3>4, <3>5, <3>6 DEF Holds
    <3>. QED  BY <3>5, <3>6, <3>7, <3>8, <3>9
  <2>. QED  BY <2>8, <2>11, <2>14, <2>15 DEF r, n
<1>4. Len(data) = 1 \/ Len(data) > 1
  <2>1. \A l \in Nat \ {0} : l = 1 \/ l > 1
    BY SMT
  <2>. QED  BY <1>1, <2>1, Zenon
<1>. QED  BY <1>2, <1>3, <1>4

-----------------------------------------------------------------------------
(* Induction *)

\* Induction on a range of numbers, the set standing for the property.
LEMMA Upwards ==
  ASSUME NEW m \in Int, NEW n \in Int, NEW Good, m \in Good,
         \A i \in m..(n - 1) : i \in Good => i + 1 \in Good
  PROVE  \A i \in m..n : i \in Good
<1> DEFINE Bad == {k \in Nat : m + k <= n /\ m + k \notin Good}
<1>1. ASSUME Bad # {} PROVE FALSE
  <2>1. PICK k \in Bad : \A l \in Bad : k <= l
    BY <1>1, SmallestNat
  <2>2. k \in Nat /\ m + k <= n /\ m + k \notin Good
    BY <2>1
  <2>3. k # 0
    <3>1. m + 0 = m
      OBVIOUS
    <3>. QED  BY <2>2, <3>1
  <2>4. k - 1 \in Nat /\ m + (k - 1) <= n /\ ~(k <= k - 1) /\ m + (k - 1) \in m..(n - 1) /\ m + (k - 1) + 1 = m + k
    BY <2>2, <2>3
  <2>5. m + (k - 1) \in Good
    BY <2>1, <2>4
  <2>. QED  BY <2>2, <2>4, <2>5
<1>2. ASSUME NEW i \in m..n PROVE i \in Good
  <2>1. i - m \in Nat /\ m + (i - m) <= n /\ m + (i - m) = i
    OBVIOUS
  <2>2. i - m \notin Bad
    BY <1>1
  <2>. QED  BY <2>1, <2>2
<1>. QED  BY <1>2

-----------------------------------------------------------------------------
(* Sequences of times *)

\* Increasing, with the positions as numbers.
LEMMA IncreasingIs ==
  ASSUME NEW s \in Seq(Int)
  PROVE  Increasing(s) <=> \A i, j \in 1..Len(s) : i < j => s[i] < s[j]
<1>1. DOMAIN s = 1..Len(s)
  BY LenProperties
<1>. QED  BY <1>1 DEF Increasing

\* An increasing sequence is known by what it holds.
LEMMA IncreasingUnique ==
  ASSUME NEW s \in Seq(Int), NEW t \in Seq(Int), Increasing(s), Increasing(t),
         \A x : Holds(s, x) <=> Holds(t, x)
  PROVE  s = t
<1>1. Len(s) \in Nat /\ Len(t) \in Nat /\ (\A i \in 1..Len(s) : s[i] \in Int) /\ (\A i \in 1..Len(t) : t[i] \in Int)
  BY LenProperties, ElementOfSeq
<1>2. (\A i, j \in 1..Len(s) : i < j => s[i] < s[j]) /\ (\A i, j \in 1..Len(t) : i < j => t[i] < t[j])
  BY IncreasingIs
<1>3. \A i \in 1..Len(s) : \E j \in 1..Len(t) : t[j] = s[i]
  BY DEF Holds
<1>4. \A i \in 1..Len(t) : \E j \in 1..Len(s) : s[j] = t[i]
  BY DEF Holds
<1> DEFINE Bad == {i \in 1..Len(s) : i <= Len(t) /\ s[i] # t[i]}
<1>5. ASSUME Bad # {} PROVE FALSE
  <2>1. Bad \subseteq Nat
    BY <1>1
  <2>2. PICK i \in Bad : \A m \in Bad : i <= m
    BY <1>5, <2>1, SmallestNat
  <2>3. i \in 1..Len(s) /\ i \in 1..Len(t) /\ s[i] # t[i] /\ i \in Nat
    BY <2>2, <1>1
  <2>4. \A j \in 1..(i - 1) : s[j] = t[j] /\ j \in 1..Len(s) /\ j \in 1..Len(t) /\ j < i
    <3>1. \A j \in 1..(i - 1) : j \in 1..Len(s) /\ j \in 1..Len(t) /\ ~(i <= j) /\ j < i /\ j <= Len(t)
      BY <2>3, <1>1
    <3>. QED  BY <3>1, <2>2
  <2>5. \A j \in 1..Len(s) : j \in 1..(i - 1) \/ j = i \/ i < j
    BY <2>3, <1>1
  <2>6. \A j \in 1..Len(t) : j \in 1..(i - 1) \/ j = i \/ i < j
    BY <2>3, <1>1
  <2>7. CASE s[i] < t[i]
    <3>1. PICK j \in 1..Len(t) : t[j] = s[i]
      BY <1>3, <2>3
    <3>2. CASE j \in 1..(i - 1)
      <4>1. s[j] < s[i]
        BY <1>2, <2>3, <2>4, <3>2
      <4>. QED  BY <4>1, <3>1, <3>2, <2>3, <2>4, <1>1
    <3>3. CASE i < j
      <4>1. t[i] < t[j]
        BY <1>2, <2>3, <3>3
      <4>. QED  BY <4>1, <3>1, <2>3, <2>7, <1>1
    <3>. QED  BY <3>1, <3>2, <3>3, <2>3, <2>6
  <2>8. CASE t[i] < s[i]
    <3>1. PICK j \in 1..Len(s) : s[j] = t[i]
      BY <1>4, <2>3
    <3>2. CASE j \in 1..(i - 1)
      <4>1. t[j] < t[i]
        BY <1>2, <2>3, <2>4, <3>2
      <4>. QED  BY <4>1, <3>1, <3>2, <2>3, <2>4, <1>1
    <3>3. CASE i < j
      <4>1. s[i] < s[j]
        BY <1>2, <2>3, <3>3
      <4>. QED  BY <4>1, <3>1, <2>3, <2>8, <1>1
    <3>. QED  BY <3>1, <3>2, <3>3, <2>3, <2>5
  <2>9. s[i] \in Int /\ t[i] \in Int
    BY <1>1, <2>3
  <2>. QED  BY <2>3, <2>7, <2>8, <2>9
<1>6. \A i \in 1..Len(s) : i <= Len(t) => s[i] = t[i]
  BY <1>5
<1>7. ~(Len(t) < Len(s))
  <2>1. SUFFICES ASSUME Len(t) < Len(s) PROVE FALSE
    OBVIOUS
  <2>2. Len(t) + 1 \in 1..Len(s) /\ \A j \in 1..Len(t) : j \in 1..Len(s) /\ j < Len(t) + 1 /\ j <= Len(t)
    BY <1>1, <2>1
  <2>3. PICK j \in 1..Len(t) : t[j] = s[Len(t) + 1]
    BY <1>3, <2>2
  <2>4. s[j] < s[Len(t) + 1] /\ s[j] = t[j]
    BY <1>2, <1>6, <2>2
  <2>. QED  BY <2>2, <2>3, <2>4, <1>1
<1>8. ~(Len(s) < Len(t))
  <2>1. SUFFICES ASSUME Len(s) < Len(t) PROVE FALSE
    OBVIOUS
  <2>2. Len(s) + 1 \in 1..Len(t) /\ \A j \in 1..Len(s) : j \in 1..Len(t) /\ j < Len(s) + 1 /\ j <= Len(t)
    BY <1>1, <2>1
  <2>3. PICK j \in 1..Len(s) : s[j] = t[Len(s) + 1]
    BY <1>4, <2>2
  <2>4. t[j] < t[Len(s) + 1] /\ s[j] = t[j]
    BY <1>2, <1>6, <2>2
  <2>. QED  BY <2>2, <2>3, <2>4, <1>1
<1>9. Len(s) = Len(t)
  BY <1>1, <1>7, <1>8
<1>10. \A i \in 1..Len(s) : s[i] = t[i]
  BY <1>6, <1>9, <1>1
<1>. QED  BY <1>9, <1>10, SeqEqual

-----------------------------------------------------------------------------
(* Joining sequences: FlattenSeq of the community modules *)

IsFlat(f, bs, n) == f = [i \in 1..n |-> IF i = 1 THEN bs[i] ELSE f[i - 1] \o bs[i]]

\* The prefixes of the join are defined.
LEMMA FlatExists ==
  ASSUME NEW bs, NEW n \in Nat
  PROVE  \E f : IsFlat(f, bs, n)
<1> DEFINE Good == {m \in Nat : \E f : IsFlat(f, bs, m)}
<1>1. 0 \in Good
  <2>1. IsFlat([i \in 1..0 |-> 0], bs, 0)
    BY SMT DEF IsFlat
  <2>. QED  BY <2>1
<1>2. ASSUME NEW m \in 0..(n - 1), m \in Good PROVE m + 1 \in Good
  <2>1. PICK f : IsFlat(f, bs, m)
    BY <1>2
  <2> DEFINE g == [i \in 1..(m + 1) |-> IF i = 1 THEN bs[i] ELSE f[i - 1] \o bs[i]]
  <2>2. \A i \in 1..m : f[i] = (IF i = 1 THEN bs[i] ELSE f[i - 1] \o bs[i]) /\ i \in 1..(m + 1)
    <3>1. \A i \in 1..m : f[i] = IF i = 1 THEN bs[i] ELSE f[i - 1] \o bs[i]
      BY <2>1, Zenon DEF IsFlat
    <3>2. \A i \in 1..m : i \in 1..(m + 1)
      OBVIOUS
    <3>. QED  BY <3>1, <3>2
  <2>3. \A i \in 1..m : g[i] = f[i]
    BY <2>2
  <2>4. ASSUME NEW i \in 1..(m + 1) PROVE g[i] = IF i = 1 THEN bs[i] ELSE g[i - 1] \o bs[i]
    <3>1. CASE i = 1
      BY <3>1
    <3>2. CASE i # 1
      <4>1. i - 1 \in 1..m
        BY <3>2
      <4>2. g[i - 1] = f[i - 1] /\ g[i] = f[i - 1] \o bs[i]
        BY <3>2, <4>1, <2>3
      <4>. QED  BY <3>2, <4>2
    <3>. QED  BY <3>1, <3>2
  <2>5. g = [i \in 1..(m + 1) |-> g[i]]
    OBVIOUS
  <2>6. IsFlat(g, bs, m + 1)
    <3> HIDE DEF g
    <3>. QED  BY <2>4, <2>5, Zenon DEF IsFlat
  <2>7. m + 1 \in Nat
    OBVIOUS
  <2>. QED  BY <2>6, <2>7
<1> HIDE DEF Good
<1>3. \A i \in 0..n : i \in Good
  BY <1>1, <1>2, Upwards
<1>4. n \in 0..n
  OBVIOUS
<1>. QED  BY <1>3, <1>4 DEF Good

\* The join of increasing sequences, each before the next, is increasing and
\* holds what they hold.
LEMMA FlattenIncreasing ==
  ASSUME NEW bs, NEW n \in Nat, Len(bs) = n, n # 0,
         \A k \in 1..n : bs[k] \in Seq(Int) /\ Increasing(bs[k]),
         \A k, l \in 1..n : k < l => \A x, y \in Int : Holds(bs[k], x) /\ Holds(bs[l], y) => x < y
  PROVE  /\ FlattenSeq(bs) \in Seq(Int) /\ Increasing(FlattenSeq(bs))
         /\ \A x : Holds(FlattenSeq(bs), x) <=> \E k \in 1..n : Holds(bs[k], x)
<1> DEFINE f == CHOOSE g : IsFlat(g, bs, n)
<1>1. FlattenSeq(bs) = f[n]
  BY Zenon DEF FlattenSeq, IsFlat
<1>2. IsFlat(f, bs, n)
  BY FlatExists
<1> HIDE DEF f
<1>3. \A i \in 1..n : f[i] = IF i = 1 THEN bs[i] ELSE f[i - 1] \o bs[i]
  BY <1>2, Zenon DEF IsFlat
<1> DEFINE Good == {k \in 1..n : /\ f[k] \in Seq(Int) /\ Increasing(f[k])
                                 /\ \A x : Holds(f[k], x) <=> \E l \in 1..k : Holds(bs[l], x)}
<1>4. 1 \in 1..n /\ n \in 1..n
  OBVIOUS
<1>5. 1 \in Good
  <2>1. f[1] = bs[1]
    BY <1>3, <1>4
  <2>2. \A l \in 1..1 : l = 1
    OBVIOUS
  <2>3. 1 \in 1..1
    OBVIOUS
  <2>. QED  BY <1>4, <2>1, <2>2, <2>3
<1>6. ASSUME NEW k \in 1..(n - 1), k \in Good PROVE k + 1 \in Good
  <2>1. k + 1 \in 1..n /\ k + 1 # 1 /\ (k + 1) - 1 = k
    OBVIOUS
  <2>2. f[k + 1] = f[k] \o bs[k + 1]
    BY <1>3, <2>1
  <2> DEFINE s == f[k]
             t == bs[k + 1]
             u == f[k + 1]
  <2>3. /\ s \in Seq(Int) /\ Increasing(s) /\ t \in Seq(Int) /\ Increasing(t)
        /\ \A x : Holds(s, x) <=> \E l \in 1..k : Holds(bs[l], x)
    BY <1>6, <2>1
  <2>4. \A x, y \in Int : Holds(s, x) /\ Holds(t, y) => x < y
    <3>1. \A l \in 1..k : l \in 1..n /\ l < k + 1
      OBVIOUS
    <3>. QED  BY <3>1, <2>1, <2>3
  <2>5. u = s \o t
    BY <2>2
  <2> HIDE DEF s, t, u
  <2>6. /\ u \in Seq(Int) /\ Len(u) = Len(s) + Len(t) /\ Len(s) \in Nat /\ Len(t) \in Nat
        /\ \A i \in 1..(Len(s) + Len(t)) : u[i] = IF i <= Len(s) THEN s[i] ELSE t[i - Len(s)]
    BY <2>3, <2>5, ConcatProperties, LenProperties
  <2>7. \A i \in 1..Len(s) : u[i] = s[i] /\ i \in 1..Len(u)
    BY <2>6
  <2>8. \A i \in 1..Len(t) : u[Len(s) + i] = t[i] /\ Len(s) + i \in 1..Len(u)
    <3>1. \A i \in 1..Len(t) : Len(s) + i \in 1..(Len(s) + Len(t)) /\ ~(Len(s) + i <= Len(s)) /\ (Len(s) + i) - Len(s) = i
      BY <2>6
    <3>. QED  BY <2>6, <3>1
  <2>9. \A i \in 1..Len(u) : i \in 1..Len(s) \/ \E j \in 1..Len(t) : i = Len(s) + j
    <3>1. SUFFICES ASSUME NEW i \in 1..Len(u), ~(i <= Len(s)) PROVE \E j \in 1..Len(t) : i = Len(s) + j
      BY <2>6
    <3>2. i - Len(s) \in 1..Len(t) /\ i = Len(s) + (i - Len(s))
      BY <2>6, <3>1
    <3>. QED  BY <3>2
  <2>10. \A x : Holds(u, x) <=> Holds(s, x) \/ Holds(t, x)
    <3>1. ASSUME NEW x, Holds(u, x) PROVE Holds(s, x) \/ Holds(t, x)
      <4>1. PICK i \in 1..Len(u) : u[i] = x
        BY <3>1 DEF Holds
      <4>2. CASE i \in 1..Len(s)
        BY <4>1, <4>2, <2>7 DEF Holds
      <4>3. CASE \E j \in 1..Len(t) : i = Len(s) + j
        <5>1. PICK j \in 1..Len(t) : i = Len(s) + j
          BY <4>3
        <5>2. t[j] = x
          BY <4>1, <5>1, <2>8
        <5>. QED  BY <5>2 DEF Holds
      <4>. QED  BY <2>9, <4>2, <4>3
    <3>2. ASSUME NEW x, Holds(s, x) PROVE Holds(u, x)
      BY <2>7, <3>2 DEF Holds
    <3>3. ASSUME NEW x, Holds(t, x) PROVE Holds(u, x)
      BY <2>8, <3>3 DEF Holds
    <3>. QED  BY <3>1, <3>2, <3>3
  <2>11. \A x : Holds(u, x) <=> \E l \in 1..(k + 1) : Holds(bs[l], x)
    <3>1. \A l \in 1..(k + 1) : l \in 1..k \/ l = k + 1
      OBVIOUS
    <3>2. k + 1 \in 1..(k + 1) /\ \A l \in 1..k : l \in 1..(k + 1)
      OBVIOUS
    <3>. QED  BY <3>1, <3>2, <2>3, <2>10 DEF t
  <2>12. Increasing(u)
    <3>1. (\A i, j \in 1..Len(s) : i < j => s[i] < s[j]) /\ (\A i, j \in 1..Len(t) : i < j => t[i] < t[j])
      BY <2>3, IncreasingIs
    <3>2. (\A i \in 1..Len(s) : s[i] \in Int /\ Holds(s, s[i])) /\ (\A i \in 1..Len(t) : t[i] \in Int /\ Holds(t, t[i]))
      BY <2>3, ElementOfSeq DEF Holds
    <3>3. SUFFICES ASSUME NEW i \in 1..Len(u), NEW j \in 1..Len(u), i < j PROVE u[i] < u[j]
      BY <2>6, IncreasingIs
    <3>4. CASE i \in 1..Len(s) /\ j \in 1..Len(s)
      BY <2>7, <3>1, <3>3, <3>4
    <3>5. ASSUME NEW b \in 1..Len(t), j = Len(s) + b, i \in 1..Len(s) PROVE u[i] < u[j]
      <4>1. s[i] < t[b]
        BY <2>4, <3>2, <3>5
      <4>. QED  BY <2>7, <2>8, <3>5, <4>1
    <3>6. ASSUME NEW a \in 1..Len(t), NEW b \in 1..Len(t), i = Len(s) + a, j = Len(s) + b PROVE u[i] < u[j]
      <4>1. a < b
        BY <2>6, <3>3, <3>6
      <4>2. t[a] < t[b]
        BY <3>1, <4>1
      <4>. QED  BY <2>8, <3>6, <4>2
    <3>7. ASSUME NEW a \in 1..Len(t), i = Len(s) + a, j \in 1..Len(s) PROVE FALSE
      BY <2>6, <3>3, <3>7
    <3>. QED  BY <2>9, <3>4, <3>5, <3>6, <3>7
  <2>. QED  BY <2>1, <2>6, <2>11, <2>12 DEF u
<1>7. \A k \in 1..n : k \in Good
  <2> HIDE DEF Good
  <2>1. \A k \in 1..(n - 1) : k \in Good => k + 1 \in Good
    BY <1>6
  <2>2. 1 \in Int /\ n \in Int
    OBVIOUS
  <2>. QED  BY <1>5, <2>1, <2>2, Upwards, Zenon
<1>8. n \in Good
  BY <1>4, <1>7
<1>. QED  BY <1>1, <1>8

-----------------------------------------------------------------------------
(* The download *)

\* Window: the candles of the period, in order.
LEMMA WindowIs ==
  ASSUME NEW h \in Seq(Int), Increasing(h), NEW from \in Int, NEW to \in Int
  PROVE  /\ Window(h, from, to) \in Seq(Int) /\ Increasing(Window(h, from, to))
         /\ \A x : Holds(Window(h, from, to), x) <=> Holds(h, x) /\ from <= x /\ x <= to
<1> DEFINE inside == {i \in DOMAIN h : from <= h[i] /\ h[i] <= to}
           w == Window(h, from, to)
<1>1. DOMAIN h = 1..Len(h) /\ Len(h) \in Nat /\ \A i \in 1..Len(h) : h[i] \in Int
  BY LenProperties, ElementOfSeq
<1>2. \A i, j \in 1..Len(h) : i < j => h[i] < h[j]
  BY IncreasingIs
<1>3. CASE inside = {}
  <2>1. w = <<>>
    BY <1>3 DEF Window
  <2>2. <<>> \in Seq(Int) /\ Len(<<>>) = 0
    OBVIOUS
  <2>3. \A i \in 1..Len(<<>>) : FALSE
    BY <2>2, SMT
  <2>4. Increasing(<<>>)
    BY <2>2, <2>3, IncreasingIs
  <2>5. \A x : ~Holds(<<>>, x)
    BY <2>3 DEF Holds
  <2>6. \A x : ~(Holds(h, x) /\ from <= x /\ x <= to)
    BY <1>1, <1>3 DEF Holds
  <2>. QED  BY <2>1, <2>2, <2>4, <2>5, <2>6
<1>4. CASE inside # {}
  <2>1. inside \subseteq Nat /\ inside \subseteq 1..Len(h)
    BY <1>1
  <2>2. PICK a \in inside : \A m \in inside : a <= m
    BY <1>4, <2>1, SmallestNat
  <2>3. PICK b \in inside : \A m \in inside : m <= b
    BY <1>1, <1>4, <2>1, LargestNat
  <2>4. Min(inside) = a
    <3>1. Min(inside) \in inside /\ \A y \in inside : Min(inside) <= y
      BY <2>2 DEF Min
    <3>2. Min(inside) <= a /\ a <= Min(inside) /\ a \in Nat /\ Min(inside) \in Nat
      BY <2>1, <2>2, <3>1
    <3> HIDE DEF inside
    <3>. QED  BY <3>2
  <2>5. Max(inside) = b
    <3>1. Max(inside) \in inside /\ \A y \in inside : Max(inside) >= y
      BY <2>3, <2>1 DEF Max
    <3>2. Max(inside) <= b /\ b <= Max(inside) /\ b \in Nat /\ Max(inside) \in Nat
      BY <2>1, <2>3, <3>1
    <3> HIDE DEF inside
    <3>. QED  BY <3>2
  <2>6. w = SubSeq(h, a, b)
    BY <1>4, <2>4, <2>5, Zenon DEF Window
  <2>7. a \in 1..Len(h) /\ b \in 1..Len(h) /\ a <= b /\ from <= h[a] /\ h[a] <= to /\ from <= h[b] /\ h[b] <= to
    BY <1>1, <2>1, <2>2, <2>3
  <2>8. \A i \in a..b : h[i] \in Int /\ i \in 1..Len(h)
    BY <1>1, <2>7
  <2> HIDE DEF w
  <2>9. /\ w \in Seq(Int) /\ Len(w) = b - a + 1
        /\ \A i \in 1..(b - a + 1) : w[i] = h[a + i - 1]
    <3>1. a \in Int /\ b \in Int /\ a <= b /\ \A i \in a..b : h[i] \in Int
      BY <1>1, <2>7, <2>8
    <3>2. LET u == SubSeq(h, a, b) IN
          u \in Seq(Int) /\ Len(u) = b - a + 1 /\ \A i \in 1..(b - a + 1) : u[i] = h[a + i - 1]
      BY <3>1, SubSeqProperties
    <3>. QED  BY <2>6, <3>2
  <2>10. \A i \in 1..Len(w) : w[i] = h[a + i - 1] /\ a + i - 1 \in a..b /\ a + i - 1 \in 1..Len(h)
    <3>1. \A l, c, d \in Nat : c <= d /\ 1 <= c /\ d <= l =>
            \A i \in 1..(d - c + 1) : c + i - 1 \in c..d /\ c + i - 1 \in 1..l
      BY SMT
    <3>2. a \in Nat /\ b \in Nat /\ a <= b /\ 1 <= a /\ b <= Len(h)
      BY <2>7, <1>1
    <3>3. \A i \in 1..(b - a + 1) : a + i - 1 \in a..b /\ a + i - 1 \in 1..Len(h)
      BY <1>1, <3>1, <3>2
    <3>. QED  BY <2>9, <3>3
  <2>11. Increasing(w)
    <3>1. SUFFICES ASSUME NEW i \in 1..Len(w), NEW j \in 1..Len(w), i < j PROVE w[i] < w[j]
      BY <2>9, IncreasingIs
    <3>2. a + i - 1 < a + j - 1
      BY <2>7, <2>9, <3>1
    <3>3. h[a + i - 1] < h[a + j - 1]
      BY <1>2, <2>10, <3>2
    <3>. QED  BY <2>10, <3>3
  <2>12. ASSUME NEW x PROVE Holds(w, x) <=> Holds(h, x) /\ from <= x /\ x <= to
    <3>1. ASSUME Holds(w, x) PROVE Holds(h, x) /\ from <= x /\ x <= to
      <4>1. PICK i \in 1..Len(w) : w[i] = x
        BY <3>1 DEF Holds
      <4>2. PICK k \in a..b : k \in 1..Len(h) /\ x = h[k]
        BY <2>10, <4>1
      <4>3. k = a \/ k = b \/ (a < k /\ k < b)
        BY <2>7, <1>1
      <4>4. h[a] <= h[k] /\ h[k] <= h[b] /\ h[a] \in Int /\ h[b] \in Int /\ h[k] \in Int
        BY <1>1, <1>2, <2>7, <4>2, <4>3
      <4>5. from <= h[k] /\ h[k] <= to
        BY <2>7, <4>4
      <4>. QED  BY <4>2, <4>5 DEF Holds
    <3>2. ASSUME Holds(h, x), from <= x, x <= to PROVE Holds(w, x)
      <4>1. PICK k \in 1..Len(h) : h[k] = x
        BY <3>2 DEF Holds
      <4>2. k \in inside
        BY <1>1, <3>2, <4>1
      <4>3. a <= k /\ k <= b
        BY <2>2, <2>3, <4>2
      <4>4. k - a + 1 \in 1..Len(w) /\ a + (k - a + 1) - 1 = k
        <5>1. a \in Nat /\ b \in Nat /\ k \in Nat /\ a <= b
          BY <2>7, <1>1
        <5>2. k - a + 1 \in 1..(b - a + 1) /\ a + (k - a + 1) - 1 = k
          BY <4>3, <5>1
        <5>. QED  BY <2>9, <5>2
      <4>5. w[k - a + 1] = x
        BY <2>10, <4>1, <4>4
      <4>. QED  BY <4>4, <4>5 DEF Holds
    <3>. QED  BY <3>1, <3>2
  <2>. QED  BY <2>9, <2>11, <2>12 DEF w
<1>. QED  BY <1>3, <1>4

\* Increasing times of an interval are no more than the interval is long, and
\* when they are as many, they are all of it.
LEMMA IncreasingSpan ==
  ASSUME NEW s \in Seq(Int), Increasing(s), NEW i \in 1..Len(s), NEW j \in 1..Len(s), i <= j
  PROVE  s[j] - s[i] >= j - i
<1>1. Len(s) \in Nat /\ \A k \in 1..Len(s) : s[k] \in Int
  BY ElementOfSeq
<1>2. \A k, l \in 1..Len(s) : k < l => s[k] < s[l]
  BY IncreasingIs
<1> DEFINE Good == {k \in i..j : s[k] - s[i] >= k - i}
<1>3. i \in Good
  BY <1>1
<1>4. ASSUME NEW k \in i..(j - 1), k \in Good PROVE k + 1 \in Good
  <2>1. k \in 1..Len(s) /\ k + 1 \in 1..Len(s) /\ k < k + 1 /\ k + 1 \in i..j
    BY <1>1
  <2>2. s[k] < s[k + 1] /\ s[k] - s[i] >= k - i
    BY <1>2, <1>4, <2>1
  <2>3. s[k + 1] - s[i] >= (k + 1) - i
    <3> DEFINE a == s[i]
               b == s[k]
               c == s[k + 1]
    <3>1. a \in Int /\ b \in Int /\ c \in Int /\ b < c /\ b - a >= k - i
      BY <1>1, <2>1, <2>2
    <3> HIDE DEF a, b, c
    <3>2. c - a >= (k + 1) - i
      BY <3>1
    <3>. QED  BY <3>2 DEF a, c
  <2>. QED  BY <2>1, <2>3
<1>5. \A k \in i..j : k \in Good
  <2> HIDE DEF Good
  <2>1. \A k \in i..(j - 1) : k \in Good => k + 1 \in Good
    BY <1>4
  <2>2. i \in Int /\ j \in Int
    OBVIOUS
  <2>. QED  BY <1>3, <2>1, <2>2, Upwards, Zenon
<1>6. j \in i..j
  BY <1>1
<1>. QED  BY <1>5, <1>6

\* Answered: the first candles, as many as the exchange answers.
LEMMA AnsweredIs ==
  ASSUME NEW s \in Seq(Int), Increasing(s)
  PROVE  /\ Answered(s) \in Seq(Int) /\ Increasing(Answered(s))
         /\ Len(s) <= AnswerLimit => Answered(s) = s
         /\ Len(s) > AnswerLimit => Len(Answered(s)) = AnswerLimit
         /\ \A i \in 1..Len(Answered(s)) : i \in 1..Len(s) /\ Answered(s)[i] = s[i]
<1> DEFINE n == IF Len(s) > AnswerLimit THEN AnswerLimit ELSE Len(s)
           r == Answered(s)
<1>1. Len(s) \in Nat /\ (\A i \in 1..Len(s) : s[i] \in Int) /\ AnswerLimit \in Nat
  BY ElementOfSeq, DownloadAssumption
<1>2. n \in Nat /\ n <= Len(s) /\ r = SubSeq(s, 1, n) /\ (Len(s) <= AnswerLimit => n = Len(s)) /\ (Len(s) > AnswerLimit => n = AnswerLimit)
  BY <1>1 DEF Answered
<1> HIDE DEF n, r
<1>3. \A i \in 1..n : i \in 1..Len(s) /\ s[i] \in Int
  BY <1>1, <1>2
<1>4. /\ r \in Seq(Int) /\ Len(r) = n
      /\ \A i \in 1..n : r[i] = s[i]
  <2>1. /\ SubSeq(s, 1, n) \in Seq(Int)
        /\ Len(SubSeq(s, 1, n)) = IF 1 <= n THEN n - 1 + 1 ELSE 0
        /\ \A i \in 1..(n - 1 + 1) : SubSeq(s, 1, n)[i] = s[1 + i - 1]
    BY <1>2, <1>3, SubSeqProperties
  <2>2. (IF 1 <= n THEN n - 1 + 1 ELSE 0) = n /\ n - 1 + 1 = n /\ \A i \in 1..n : 1 + i - 1 = i
    BY <1>2
  <2>. QED  BY <1>2, <2>1, <2>2
<1>5. Increasing(r)
  <2>1. \A i, j \in 1..Len(s) : i < j => s[i] < s[j]
    BY IncreasingIs
  <2>2. \A i, j \in 1..Len(r) : i < j => r[i] < r[j]
    BY <1>3, <1>4, <2>1
  <2>. QED  BY <1>4, <2>2, IncreasingIs
<1>6. Len(s) <= AnswerLimit => r = s
  BY <1>2, <1>4, SeqEqual
<1>. QED  BY <1>2, <1>3, <1>4, <1>5, <1>6 DEF r

\* The starts of the batches: BatchSize apart, the last less than a batch and
\* one before the end.
LEMMA StartsAre ==
  ASSUME NEW start \in Int, NEW end \in Int, start < end
  PROVE  \E n \in Nat \ {0} :
           /\ BatchStarts(start, end) = [k \in 1..n |-> start + (k - 1) * BatchSize]
           /\ Len(BatchStarts(start, end)) = n
           /\ BatchStarts(start, end)[1] = start
           /\ \A k \in 1..(n - 1) : /\ BatchStarts(start, end)[k + 1] = BatchStarts(start, end)[k] + BatchSize
                                    /\ BatchStarts(start, end)[k] + BatchSize < end
           /\ \A k \in 1..n : BatchStarts(start, end)[k] \in Int /\ start <= BatchStarts(start, end)[k]
           /\ \A k, l \in 1..n : k < l => BatchStarts(start, end)[k] + BatchSize <= BatchStarts(start, end)[l]
           /\ BatchStarts(start, end)[n] < end /\ BatchStarts(start, end)[n] + BatchSize >= end
<1> DEFINE B == BatchSize
           q == (end - start - 1) \div B
           n == q + 1
           s == [k \in 1..n |-> start + (k - 1) * B]
<1>1. B \in Nat \ {0} /\ end - start - 1 \in Nat
  BY DownloadAssumption
<1>2. q \in Nat /\ q * B <= end - start - 1 /\ end - start - 1 < q * B + B
  <2>1. \A x \in Nat, b \in Nat \ {0} : x \div b \in Nat /\ (x \div b) * b <= x /\ x < (x \div b) * b + b
    BY SMT
  <2> HIDE DEF B
  <2>. QED  BY <1>1, <2>1
<1>3. BatchStarts(start, end) = s
  BY DEF BatchStarts
<1> HIDE DEF B, q
<1>4. n \in Nat \ {0}
  BY <1>2
<1>5. \A k \in 1..n : (k - 1) * B \in Nat /\ s[k] = start + (k - 1) * B
  <2>1. \A a \in Nat, b \in Nat : a * b \in Nat
    BY SMT
  <2>2. \A k \in 1..n : k - 1 \in Nat
    BY <1>4
  <2>. QED  BY <1>1, <2>1, <2>2
<1>6. \A k \in 1..(n - 1) : (k * B = (k - 1) * B + B) /\ k * B <= q * B /\ k \in 1..n /\ k + 1 \in 1..n /\ (k + 1) - 1 = k
  <2>1. \A a \in Nat, b \in Nat : (a + 1) * b = a * b + b
    BY SMT
  <2>2. \A a \in Nat, c \in Nat, b \in Nat : a <= c => a * b <= c * b
    BY SMT
  <2>3. \A k \in 1..(n - 1) : k - 1 \in Nat /\ k \in Nat /\ (k - 1) + 1 = k /\ k <= q
    BY <1>2
  <2>4. \A k \in 1..(n - 1) : k \in 1..n /\ k + 1 \in 1..n /\ (k + 1) - 1 = k
    BY <1>2
  <2>5. \A k \in 1..(n - 1) : k * B = (k - 1) * B + B
    BY <1>1, <2>1, <2>3
  <2>6. \A k \in 1..(n - 1) : k * B <= q * B
    BY <1>1, <1>2, <2>2, <2>3
  <2>. QED  BY <2>4, <2>5, <2>6
<1> HIDE DEF s
<1>7. s[1] = start
  <2>1. 0 * B = 0 /\ 1 \in 1..n
    BY <1>1, <1>4
  <2>. QED  BY <1>5, <2>1
<1>8. ASSUME NEW k \in 1..(n - 1) PROVE s[k + 1] = s[k] + B /\ s[k] + B < end
  <2>1. s[k] = start + (k - 1) * B /\ s[k + 1] = start + k * B /\ (k - 1) * B \in Nat
    BY <1>5, <1>6
  <2>2. k * B = (k - 1) * B + B /\ k * B <= q * B
    BY <1>6
  <2> DEFINE x == (k - 1) * B
             y == k * B
             z == q * B
  <2>3. s[k] = start + x /\ s[k + 1] = start + y /\ x \in Nat /\ y = x + B /\ y <= z /\ z <= end - start - 1
    BY <2>1, <2>2, <1>2
  <2>4. z \in Int
    BY <1>1, <1>2
  <2> HIDE DEF x, y, z
  <2>. QED  BY <2>3, <2>4, <1>1
<1>9. \A k \in 1..n : s[k] \in Int /\ start <= s[k]
  <2>1. SUFFICES ASSUME NEW k \in 1..n PROVE s[k] \in Int /\ start <= s[k]
    OBVIOUS
  <2> DEFINE x == (k - 1) * B
  <2>2. x \in Nat /\ s[k] = start + x
    BY <1>5
  <2> HIDE DEF x
  <2>. QED  BY <2>2
<1>10. s[n] < end /\ s[n] + B >= end
  <2>1. n \in 1..n /\ n - 1 = q
    BY <1>2, <1>4
  <2> DEFINE z == q * B
  <2>2. s[n] = start + z /\ z <= end - start - 1 /\ end - start - 1 < z + B /\ z \in Int
    BY <1>2, <1>5, <2>1, <1>1
  <2> HIDE DEF z
  <2>. QED  BY <2>2, <1>1
<1>13. ASSUME NEW k \in 1..n, NEW l \in 1..n, k < l PROVE s[k] + B <= s[l]
  <2>1. k \in 1..(n - 1) /\ l - 1 \in Nat /\ k \in Nat /\ k <= l - 1
    BY <1>4, <1>13
  <2>2. \A a \in Nat, c \in Nat, b \in Nat : a <= c => a * b <= c * b
    BY SMT
  <2> DEFINE x == (k - 1) * B
             y == k * B
             z == (l - 1) * B
  <2>3. y <= z
    BY <1>1, <2>1, <2>2
  <2>4. y = x + B
    BY <1>6, <2>1
  <2>5. s[k] = start + x /\ s[l] = start + z /\ x \in Nat /\ z \in Nat
    BY <1>5
  <2> HIDE DEF x, y, z
  <2>. QED  BY <2>3, <2>4, <2>5, <1>1
<1>11. Len(s) = n
  BY <1>4 DEF s
<1>12. s = [k \in 1..n |-> start + (k - 1) * BatchSize]
  BY DEF s, B
<1> HIDE DEF n
<1>. QED  BY <1>3, <1>4, <1>7, <1>8, <1>9, <1>10, <1>11, <1>12, <1>13 DEF B

\* No batch but the last is cut short by the exchange.
LEMMA FullAnswer ==
  ASSUME NEW h \in Seq(Int), Increasing(h), NEW from \in Int
  PROVE  /\ Len(Window(h, from, from + BatchSize - 1)) <= BatchSize
         /\ CandlesByPeriod(h, from, from + BatchSize - 1) = Window(h, from, from + BatchSize - 1)
<1> DEFINE w == Window(h, from, from + BatchSize - 1)
<1>1. BatchSize \in Nat \ {0} /\ AnswerLimit \in Nat /\ AnswerLimit >= BatchSize /\ from + BatchSize - 1 \in Int
  BY DownloadAssumption
<1>2. /\ w \in Seq(Int) /\ Increasing(w)
      /\ \A x : Holds(w, x) => from <= x /\ x <= from + BatchSize - 1
  BY <1>1, WindowIs
<1> HIDE DEF w
<1>3. Len(w) \in Nat /\ \A i \in 1..Len(w) : w[i] \in Int /\ from <= w[i] /\ w[i] <= from + BatchSize - 1
  BY <1>2, ElementOfSeq DEF Holds
<1>4. Len(w) <= BatchSize
  <2>1. SUFFICES ASSUME Len(w) > BatchSize PROVE FALSE
    BY <1>1, <1>3
  <2>2. 1 \in 1..Len(w) /\ Len(w) \in 1..Len(w) /\ 1 <= Len(w)
    BY <1>1, <1>3, <2>1
  <2>3. w[Len(w)] - w[1] >= Len(w) - 1
    BY <1>2, <2>2, IncreasingSpan
  <2> DEFINE a == w[1]
             b == w[Len(w)]
             n == Len(w)
  <2>4. a \in Int /\ b \in Int /\ n \in Nat /\ from <= a /\ b <= from + BatchSize - 1 /\ b - a >= n - 1 /\ n > BatchSize
    BY <1>3, <2>1, <2>2, <2>3
  <2> HIDE DEF a, b, n
  <2>. QED  BY <1>1, <2>4
<1>5. Answered(w) = w
  <2>1. Len(w) <= AnswerLimit
    BY <1>1, <1>3, <1>4
  <2>. QED  BY <1>2, <2>1, AnsweredIs
<1>. QED  BY <1>4, <1>5 DEF w, CandlesByPeriod

\* Of the last batch only the candle at the very end may be cut.
LEMMA LastAnswer ==
  ASSUME NEW h \in Seq(Int), Increasing(h), NEW from \in Int, NEW end \in Int,
         from < end, from + BatchSize >= end
  PROVE  /\ CandlesByPeriod(h, from, end) \in Seq(Int) /\ Increasing(CandlesByPeriod(h, from, end))
         /\ \E top \in {end, end - 1} : \A x :
              Holds(CandlesByPeriod(h, from, end), x) <=> Holds(h, x) /\ from <= x /\ x <= top
<1> DEFINE w == Window(h, from, end)
           r == Answered(w)
<1>1. BatchSize \in Nat \ {0} /\ AnswerLimit \in Nat /\ AnswerLimit >= BatchSize
  BY DownloadAssumption
<1>2. /\ w \in Seq(Int) /\ Increasing(w)
      /\ \A x : Holds(w, x) <=> Holds(h, x) /\ from <= x /\ x <= end
  BY WindowIs
<1>3. CandlesByPeriod(h, from, end) = r
  BY DEF CandlesByPeriod
<1> HIDE DEF w
<1>4. /\ r \in Seq(Int) /\ Increasing(r)
      /\ Len(w) <= AnswerLimit => r = w
      /\ Len(w) > AnswerLimit => Len(r) = AnswerLimit
      /\ \A i \in 1..Len(r) : i \in 1..Len(w) /\ r[i] = w[i]
  BY <1>2, AnsweredIs
<1> HIDE DEF r
<1>5. Len(w) \in Nat /\ \A i \in 1..Len(w) : w[i] \in Int /\ from <= w[i] /\ w[i] <= end
  BY <1>2, ElementOfSeq DEF Holds
<1>6. CASE Len(w) <= AnswerLimit
  BY <1>2, <1>3, <1>4, <1>6
<1>7. CASE Len(w) > AnswerLimit
  <2>1. 1 \in 1..Len(w) /\ Len(w) \in 1..Len(w) /\ 1 <= Len(w)
    BY <1>1, <1>5, <1>7
  <2>2. w[Len(w)] - w[1] >= Len(w) - 1
    BY <1>2, <2>1, IncreasingSpan
  <2> DEFINE n == Len(w)
  <2>3. w[n] = end /\ Len(r) = n - 1
    <3> DEFINE a == w[1]
               b == w[n]
    <3>1. a \in Int /\ b \in Int /\ n \in Nat /\ from <= a /\ b <= end /\ b - a >= n - 1 /\ n > AnswerLimit
      BY <1>5, <1>7, <2>1, <2>2
    <3>2. Len(r) = AnswerLimit
      BY <1>4, <1>7
    <3> HIDE DEF a, b, n
    <3>3. b = end /\ n = AnswerLimit + 1
      BY <1>1, <3>1
    <3>. QED  BY <1>1, <3>2, <3>3 DEF b
  <2>4. \A i \in 1..(n - 1) : r[i] = w[i] /\ w[i] < end /\ w[i] <= end - 1 /\ i \in 1..n
    <3>1. \A i, j \in 1..n : i < j => w[i] < w[j]
      BY <1>2, IncreasingIs
    <3>2. \A i \in 1..(n - 1) : i \in 1..n /\ i < n
      BY <1>5
    <3>3. \A i \in 1..(n - 1) : w[i] < end /\ w[i] \in Int
      BY <1>5, <2>1, <2>3, <3>1, <3>2
    <3>4. \A i \in 1..(n - 1) : r[i] = w[i]
      BY <1>4, <2>3
    <3> HIDE DEF n
    <3>5. \A i \in 1..(n - 1) : w[i] <= end - 1
      BY <3>3
    <3>. QED  BY <3>2, <3>3, <3>4, <3>5
  <2>5. ASSUME NEW x PROVE Holds(r, x) <=> Holds(h, x) /\ from <= x /\ x <= end - 1
    <3>1. ASSUME Holds(r, x) PROVE Holds(w, x) /\ x <= end - 1
      BY <2>3, <2>4, <3>1 DEF Holds
    <3>2. ASSUME Holds(w, x), x <= end - 1 PROVE Holds(r, x)
      <4>1. PICK i \in 1..n : w[i] = x
        BY <3>2 DEF Holds
      <4>2. i # n
        BY <2>3, <3>2, <4>1
      <4>3. i \in 1..(n - 1)
        BY <4>2, <1>5
      <4>. QED  BY <2>3, <2>4, <4>1, <4>3 DEF Holds
    <3>3. Holds(h, x) => x \in Int
      BY ElementOfSeq DEF Holds
    <3>4. x \in Int /\ x <= end - 1 => x <= end
      OBVIOUS
    <3>. QED  BY <1>2, <3>1, <3>2, <3>3, <3>4
  <2>. QED  BY <1>3, <1>4, <2>5
<1>. QED  BY <1>1, <1>5, <1>6, <1>7

\* The file is the window that was asked for, but perhaps its very last candle.
LEMMA DownloadedIs ==
  ASSUME NEW h \in Seq(Int), Increasing(h), NEW start \in Int, NEW end \in Int, start < end
  PROVE  /\ Downloaded(h, start, end) \in Seq(Int) /\ Increasing(Downloaded(h, start, end))
         /\ Downloaded(h, start, end) \in {Window(h, start, end), Window(h, start, end - 1)}
<1> DEFINE s == BatchStarts(start, end)
           bs == BatchesOf(h, start, end)
           file == Downloaded(h, start, end)
<1>1. BatchSize \in Nat \ {0}
  BY DownloadAssumption
<1>2. PICK n \in Nat \ {0} :
           /\ s = [k \in 1..n |-> start + (k - 1) * BatchSize]
           /\ Len(s) = n
           /\ s[1] = start
           /\ \A k \in 1..(n - 1) : s[k + 1] = s[k] + BatchSize /\ s[k] + BatchSize < end
           /\ \A k \in 1..n : s[k] \in Int /\ start <= s[k]
           /\ \A k, l \in 1..n : k < l => s[k] + BatchSize <= s[l]
           /\ s[n] < end /\ s[n] + BatchSize >= end
  BY StartsAre
<1>3. DOMAIN s = 1..n
  BY <1>2
<1>4. bs = [k \in 1..n |-> CandlesByPeriod(h, s[k], BatchEnd(s[k], end))]
  BY <1>3, Zenon DEF BatchesOf
<1>5. Len(bs) = n /\ \A k \in 1..n : bs[k] = CandlesByPeriod(h, s[k], BatchEnd(s[k], end))
  <2> HIDE DEF s, bs
  <2>. QED  BY <1>2, <1>4
<1>6. file = FlattenSeq(bs)
  BY DEF Downloaded
<1> HIDE DEF s, bs, file
<1>7. n \in 1..n /\ 1 \in 1..n /\ \A k \in 1..n : k = n \/ (k \in 1..(n - 1) /\ k + 1 \in 1..n)
  BY <1>2
<1>8. \A k \in 1..(n - 1) : bs[k] = Window(h, s[k], s[k] + BatchSize - 1) /\ s[k] + BatchSize - 1 \in Int /\ s[k] + BatchSize - 1 < end
  <2>1. SUFFICES ASSUME NEW k \in 1..(n - 1)
                 PROVE bs[k] = Window(h, s[k], s[k] + BatchSize - 1) /\ s[k] + BatchSize - 1 \in Int /\ s[k] + BatchSize - 1 < end
    OBVIOUS
  <2>2. k \in 1..n /\ s[k] \in Int /\ s[k] + BatchSize < end
    <3>1. k \in 1..n
      OBVIOUS
    <3>2. \A i \in 1..(n - 1) : s[i] + BatchSize < end
      BY <1>2
    <3>3. \A i \in 1..n : s[i] \in Int
      BY <1>2
    <3>. QED  BY <3>1, <3>2, <3>3
  <2>3. BatchEnd(s[k], end) = s[k] + BatchSize - 1
    BY <2>2 DEF BatchEnd
  <2>4. CandlesByPeriod(h, s[k], s[k] + BatchSize - 1) = Window(h, s[k], s[k] + BatchSize - 1)
    BY <2>2, FullAnswer
  <2>. QED  BY <1>1, <1>5, <2>2, <2>3, <2>4
<1>9. bs[n] = CandlesByPeriod(h, s[n], end)
  <2>1. ~(s[n] + BatchSize < end) /\ s[n] \in Int
    BY <1>1, <1>2, <1>7
  <2>. QED  BY <1>5, <1>7, <2>1 DEF BatchEnd
<1>10. PICK top \in {end, end - 1} : \A x : Holds(bs[n], x) <=> Holds(h, x) /\ s[n] <= x /\ x <= top
  <2>1. s[n] \in Int /\ s[n] < end /\ s[n] + BatchSize >= end
    BY <1>2, <1>7
  <2>. QED  BY <1>9, <2>1, LastAnswer
<1>11. top \in Int /\ top <= end /\ s[n] <= top
  BY <1>2, <1>7
<1>12. \A k \in 1..(n - 1) : \A x : Holds(bs[k], x) <=> Holds(h, x) /\ s[k] <= x /\ x <= s[k] + BatchSize - 1
  <2>1. \A k \in 1..(n - 1) : s[k] \in Int
    BY <1>2
  <2>. QED  BY <1>8, <2>1, WindowIs
<1>13. \A k \in 1..n : bs[k] \in Seq(Int) /\ Increasing(bs[k])
  <2>1. \A k \in 1..(n - 1) : s[k] \in Int
    BY <1>2
  <2>2. \A k \in 1..(n - 1) : bs[k] \in Seq(Int) /\ Increasing(bs[k])
    BY <1>8, <2>1, WindowIs
  <2>3. s[n] \in Int /\ s[n] < end /\ s[n] + BatchSize >= end
    BY <1>2, <1>7
  <2>4. bs[n] \in Seq(Int) /\ Increasing(bs[n])
    BY <1>9, <2>3, LastAnswer
  <2>. QED  BY <1>7, <2>2, <2>4
<1>14. \A k, l \in 1..n : k < l => \A x, y \in Int : Holds(bs[k], x) /\ Holds(bs[l], y) => x < y
  <2>1. SUFFICES ASSUME NEW k \in 1..n, NEW l \in 1..n, k < l, NEW x \in Int, NEW y \in Int,
                        Holds(bs[k], x), Holds(bs[l], y)
                 PROVE  x < y
    OBVIOUS
  <2>2. k \in 1..(n - 1)
    BY <1>2, <2>1
  <2>3. x <= s[k] + BatchSize - 1
    BY <1>12, <2>1, <2>2
  <2>4. s[l] <= y
    BY <1>7, <1>10, <1>12, <2>1
  <2>5. s[k] + BatchSize <= s[l] /\ s[k] \in Int /\ s[l] \in Int
    BY <1>2, <2>1
  <2>. QED  BY <1>1, <2>3, <2>4, <2>5
<1>15. /\ file \in Seq(Int) /\ Increasing(file)
       /\ \A x : Holds(file, x) <=> \E k \in 1..n : Holds(bs[k], x)
  BY <1>2, <1>5, <1>6, <1>13, <1>14, FlattenIncreasing
<1>16. ASSUME NEW x PROVE Holds(file, x) <=> Holds(h, x) /\ start <= x /\ x <= top
  <2>0. Holds(h, x) => x \in Int
    BY ElementOfSeq DEF Holds
  <2>1. ASSUME NEW k \in 1..n, Holds(bs[k], x) PROVE Holds(h, x) /\ start <= x /\ x <= top
    <3>1. CASE k = n
      <4>1. Holds(h, x) /\ s[n] <= x /\ x <= top /\ start <= s[n] /\ s[n] \in Int
        BY <1>2, <1>7, <1>10, <2>1, <3>1
      <4>. QED  BY <2>0, <4>1
    <3>2. CASE k # n
      <4>1. k \in 1..(n - 1)
        BY <1>7, <3>2
      <4>2. Holds(h, x) /\ s[k] <= x /\ x <= s[k] + BatchSize - 1
        BY <1>12, <2>1, <4>1
      <4>3. s[k] + BatchSize <= s[n] /\ start <= s[k] /\ s[k] \in Int /\ s[n] \in Int
        BY <1>2, <1>7, <4>1
      <4>. QED  BY <2>0, <4>2, <4>3, <1>1, <1>11
    <3>. QED  BY <3>1, <3>2
  <2>2. ASSUME Holds(h, x), start <= x, x <= top PROVE \E k \in 1..n : Holds(bs[k], x)
    <3> DEFINE before == {k \in 1..n : s[k] <= x}
    <3>1. 1 \in before
      BY <1>2, <1>7, <2>2
    <3>2. PICK k \in before : \A m \in before : m <= k
      <4>1. before \subseteq 1..n /\ n \in Nat /\ before # {}
        BY <3>1
      <4>. QED  BY <4>1, LargestNat
    <3>3. CASE k = n
      BY <1>7, <1>10, <2>2, <3>2, <3>3
    <3>4. CASE k # n
      <4>1. k \in 1..(n - 1) /\ k + 1 \in 1..n /\ ~(k + 1 <= k)
        BY <1>7, <3>2, <3>4
      <4>2. ~(s[k + 1] <= x)
        BY <3>2, <4>1
      <4>3. s[k + 1] = s[k] + BatchSize /\ s[k] \in Int
        BY <1>2, <4>1
      <4>4. x <= s[k] + BatchSize - 1
        BY <2>0, <2>2, <4>2, <4>3, <1>1
      <4>. QED  BY <1>12, <2>2, <3>2, <4>1, <4>4
    <3>. QED  BY <3>3, <3>4
  <2>. QED  BY <1>15, <2>1, <2>2
<1>17. file = Window(h, start, top)
  <2>1. /\ Window(h, start, top) \in Seq(Int) /\ Increasing(Window(h, start, top))
        /\ \A x : Holds(Window(h, start, top), x) <=> Holds(h, x) /\ start <= x /\ x <= top
    BY <1>11, WindowIs
  <2>. QED  BY <1>15, <1>16, <2>1, IncreasingUnique
<1>. QED  BY <1>15, <1>17 DEF file

\* As many entries as an increasing sequence has different values.
LEMMA IncreasingCount ==
  ASSUME NEW s \in Seq(Int), Increasing(s)
  PROVE  IsFiniteSet(Range(s)) /\ Cardinality(Range(s)) = Len(s)
<1>1. Len(s) \in Nat /\ DOMAIN s = 1..Len(s) /\ s \in [1..Len(s) -> Int]
  BY LenProperties
<1>2. \A i, j \in 1..Len(s) : i < j => s[i] < s[j]
  BY IncreasingIs
<1>3. \A i \in 1..Len(s) : s[i] \in Int
  BY <1>1
<1>4. \A i, j \in 1..Len(s) : s[i] = s[j] => i = j
  <2>1. SUFFICES ASSUME NEW i \in 1..Len(s), NEW j \in 1..Len(s), s[i] = s[j], i # j PROVE FALSE
    OBVIOUS
  <2>2. i < j \/ j < i
    BY <1>1, <2>1
  <2>3. s[i] \in Int /\ s[j] \in Int
    BY <1>3
  <2>. QED  BY <1>2, <2>1, <2>2, <2>3
<1>5. s \in [1..Len(s) -> Range(s)]
  BY <1>1 DEF Range
<1>6. s \in Bijection(1..Len(s), Range(s))
  BY <1>1, <1>4, <1>5 DEF Bijection, Injection, Surjection, IsInjective, Range
<1>7. ExistsBijection(1..Len(s), Range(s))
  BY <1>6 DEF ExistsBijection
<1>8. IsFiniteSet(1..Len(s)) /\ Cardinality(1..Len(s)) = Len(s)
  <2>1. 1 \in Int /\ Len(s) \in Int
    BY <1>1
  <2>2. Cardinality(1..Len(s)) = IF 1 > Len(s) THEN 0 ELSE Len(s) - 1 + 1
    BY <2>1, FS_Interval
  <2>3. (IF 1 > Len(s) THEN 0 ELSE Len(s) - 1 + 1) = Len(s)
    BY <1>1
  <2>. QED  BY <2>1, <2>2, <2>3, FS_Interval
<1>. QED  BY <1>7, <1>8, FS_Bijection

\* The candles of an interval that a history lacks.
LEMMA LackOfInterval ==
  ASSUME NEW h \in Seq(Int), Increasing(h), NEW from \in Int, NEW to \in Int, from - 1 <= to
  PROVE  /\ IsFiniteSet((from..to) \ Range(h))
         /\ Cardinality((from..to) \ Range(h)) = to - from + 1 - Len(Window(h, from, to))
<1> DEFINE w == Window(h, from, to)
           all == from..to
<1>1. /\ w \in Seq(Int) /\ Increasing(w)
      /\ \A x : Holds(w, x) <=> Holds(h, x) /\ from <= x /\ x <= to
  BY WindowIs
<1> HIDE DEF w
<1>2. IsFiniteSet(Range(w)) /\ Cardinality(Range(w)) = Len(w)
  BY <1>1, IncreasingCount
<1>3. \A s \in Seq(Int) : \A x : x \in Range(s) <=> Holds(s, x)
  BY RangeEquality DEF Holds
<1>4. \A x : Holds(h, x) => x \in Int
  BY ElementOfSeq DEF Holds
<1>5. \A x : x \in all <=> x \in Int /\ from <= x /\ x <= to
  OBVIOUS
<1>6. IsFiniteSet(all) /\ Cardinality(all) = to - from + 1
  <2>1. Cardinality(all) = IF from > to THEN 0 ELSE to - from + 1
    BY FS_Interval
  <2>2. (IF from > to THEN 0 ELSE to - from + 1) = to - from + 1
    OBVIOUS
  <2>. QED  BY <2>1, <2>2, FS_Interval
<1> HIDE DEF all
<1>7. Range(w) = all \cap Range(h)
  BY <1>1, <1>3, <1>4, <1>5
<1>8. IsFiniteSet(all \ Range(h))
  BY <1>6, FS_Subset
<1>9. (all \ Range(h)) \cup Range(w) = all /\ (all \ Range(h)) \cap Range(w) = {}
  BY <1>7
<1>10. Cardinality(all) = Cardinality(all \ Range(h)) + Cardinality(Range(w)) - Cardinality({})
  BY <1>2, <1>8, <1>9, FS_Union
<1>11. Cardinality({}) = 0 /\ Cardinality(all \ Range(h)) \in Nat /\ Cardinality(Range(w)) \in Nat
  BY <1>2, <1>8, FS_EmptySet, FS_CardinalityType
<1>12. Cardinality(all \ Range(h)) = to - from + 1 - Len(w)
  <2> DEFINE a == Cardinality(all \ Range(h))
             b == Cardinality(Range(w))
             c == Cardinality({})
  <2>1. to - from + 1 = a + b - c /\ c = 0 /\ a \in Nat /\ b \in Nat /\ b = Len(w)
    BY <1>2, <1>6, <1>10, <1>11
  <2> HIDE DEF a, b, c
  <2>2. a = to - from + 1 - b
    BY <2>1
  <2>. QED  BY <2>1, <2>2 DEF a
<1>. QED  BY <1>8, <1>12 DEF all, w

\* What the download reports as missing is what the history lacks up to the
\* start of the last batch.
LEMMA MissingIs ==
  ASSUME NEW h \in Seq(Int), Increasing(h), NEW start \in Int, NEW end \in Int, start < end
  PROVE  MissingCandles(h, start, end) = Cardinality((start .. Last(BatchStarts(start, end)) - 1) \ Range(h))
<1> DEFINE s == BatchStarts(start, end)
           bs == BatchesOf(h, start, end)
           missing == [k \in DOMAIN bs |->
                         IF BatchEnd(s[k], end) # end /\ Len(bs[k]) < BatchSize
                         THEN BatchSize - Len(bs[k]) ELSE 0]
           Lack(k) == Cardinality((start .. s[k] - 1) \ Range(h))
<1>1. BatchSize \in Nat \ {0}
  BY DownloadAssumption
<1>2. PICK n \in Nat \ {0} :
           /\ s = [k \in 1..n |-> start + (k - 1) * BatchSize]
           /\ Len(s) = n
           /\ s[1] = start
           /\ \A k \in 1..(n - 1) : s[k + 1] = s[k] + BatchSize /\ s[k] + BatchSize < end
           /\ \A k \in 1..n : s[k] \in Int /\ start <= s[k]
           /\ \A k, l \in 1..n : k < l => s[k] + BatchSize <= s[l]
           /\ s[n] < end /\ s[n] + BatchSize >= end
  BY StartsAre
<1>3. DOMAIN s = 1..n
  BY <1>2
<1>4. bs = [k \in 1..n |-> CandlesByPeriod(h, s[k], BatchEnd(s[k], end))]
  BY <1>3, Zenon DEF BatchesOf
<1>5. DOMAIN bs = 1..n /\ \A k \in 1..n : bs[k] = CandlesByPeriod(h, s[k], BatchEnd(s[k], end))
  <2> HIDE DEF s, bs
  <2>. QED  BY <1>2, <1>4
<1>6. MissingCandles(h, start, end) = SumFunctionOnSet(missing, DOMAIN bs)
  BY DEF MissingCandles
<1>7. Last(s) = s[n]
  BY <1>2 DEF Last
<1> HIDE DEF s, bs
<1>8. \A k \in 1..n : missing[k] = IF BatchEnd(s[k], end) # end /\ Len(bs[k]) < BatchSize
                                   THEN BatchSize - Len(bs[k]) ELSE 0
  BY <1>5
<1> HIDE DEF missing
<1>9. n \in 1..n /\ 1 \in 1..n /\ \A k \in 1..(n - 1) : k \in 1..n /\ k + 1 \in 1..n
  OBVIOUS
<1>10. missing[n] = 0
  <2>1. ~(s[n] + BatchSize < end)
    <3>1. s[n] \in Int /\ s[n] + BatchSize >= end
      BY <1>2, <1>9
    <3>. QED  BY <1>1, <3>1
  <2>2. BatchEnd(s[n], end) = end
    BY <2>1 DEF BatchEnd
  <2>. QED  BY <1>8, <1>9, <2>2
<1>11. ASSUME NEW k \in 1..(n - 1)
       PROVE  /\ missing[k] = Cardinality((s[k] .. s[k + 1] - 1) \ Range(h))
              /\ IsFiniteSet((s[k] .. s[k + 1] - 1) \ Range(h)) /\ missing[k] \in Nat
  <2>1. s[k] \in Int /\ s[k + 1] = s[k] + BatchSize /\ s[k] + BatchSize < end
    BY <1>2, <1>9
  <2>2. BatchEnd(s[k], end) = s[k] + BatchSize - 1 /\ s[k] + BatchSize - 1 # end /\ s[k] + BatchSize - 1 \in Int
    BY <1>1, <2>1 DEF BatchEnd
  <2> DEFINE w == Window(h, s[k], s[k] + BatchSize - 1)
  <2>3. bs[k] = w /\ Len(w) <= BatchSize
    BY <1>5, <1>9, <2>1, <2>2, FullAnswer
  <2>4. w \in Seq(Int)
    BY <2>1, <2>2, WindowIs
  <2>5. /\ IsFiniteSet((s[k] .. s[k] + BatchSize - 1) \ Range(h))
        /\ Cardinality((s[k] .. s[k] + BatchSize - 1) \ Range(h)) = (s[k] + BatchSize - 1) - s[k] + 1 - Len(w)
    <3>1. s[k] - 1 <= s[k] + BatchSize - 1
      BY <1>1, <2>1
    <3>. QED  BY <2>1, <2>2, <3>1, LackOfInterval
  <2> HIDE DEF w
  <2>6. Len(w) \in Nat /\ (s[k] + BatchSize - 1) - s[k] + 1 - Len(w) = BatchSize - Len(w)
    BY <1>1, <2>1, <2>4
  <2>7. missing[k] = BatchSize - Len(w)
    <3>1. missing[k] = IF Len(w) < BatchSize THEN BatchSize - Len(w) ELSE 0
      BY <1>8, <1>9, <2>2, <2>3
    <3>. QED  BY <1>1, <2>3, <2>6, <3>1
  <2>8. BatchSize - Len(w) \in Nat
    BY <1>1, <2>3, <2>6
  <2>9. s[k + 1] - 1 = s[k] + BatchSize - 1
    <3> DEFINE u == s[k]
               v == s[k + 1]
    <3>1. u \in Int /\ v = u + BatchSize
      BY <2>1
    <3> HIDE DEF u, v
    <3>2. v - 1 = u + BatchSize - 1
      BY <1>1, <3>1
    <3>. QED  BY <3>2 DEF u, v
  <2>10. Cardinality((s[k] .. s[k + 1] - 1) \ Range(h)) = BatchSize - Len(w)
    BY <2>5, <2>6, <2>9
  <2>11. IsFiniteSet((s[k] .. s[k + 1] - 1) \ Range(h))
    BY <2>5, <2>9
  <2>12. missing[k] \in Nat
    BY <2>7, <2>8
  <2>13. missing[k] = Cardinality((s[k] .. s[k + 1] - 1) \ Range(h))
    BY <2>7, <2>10, Zenon
  <2>. QED  BY <2>11, <2>12, <2>13
<1> DEFINE Good == {k \in 0..(n - 1) : /\ IsFiniteSet((start .. s[k + 1] - 1) \ Range(h))
                                       /\ SumFunctionOnSet(missing, 1..k) = Lack(k + 1)}
<1>12. 0 \in Good
  <2>1. (start .. s[1] - 1) \ Range(h) = {} /\ 1..0 = {} /\ 0 + 1 = 1 /\ 0 \in 0..(n - 1)
    BY <1>2
  <2>2. SumFunctionOnSet(missing, {}) = 0 /\ Cardinality({}) = 0 /\ IsFiniteSet({})
    BY SumEmpty, FS_EmptySet
  <2>. QED  BY <2>1, <2>2
<1>13. ASSUME NEW k \in 0..((n - 1) - 1), k \in Good PROVE k + 1 \in Good
  <2>1. k + 1 \in 1..(n - 1) /\ k + 1 \in 0..(n - 1) /\ k + 1 \in 1..n /\ (k + 1) + 1 \in 1..n /\ k \in Nat
    OBVIOUS
  <2> DEFINE A == (start .. s[k + 1] - 1) \ Range(h)
             C == (s[k + 1] .. s[(k + 1) + 1] - 1) \ Range(h)
             D == (start .. s[(k + 1) + 1] - 1) \ Range(h)
  <2>2. IsFiniteSet(A) /\ SumFunctionOnSet(missing, 1..k) = Cardinality(A)
    BY <1>13
  <2>3. IsFiniteSet(C) /\ missing[k + 1] = Cardinality(C) /\ missing[k + 1] \in Nat
    BY <1>11, <2>1
  <2>4. A \cup C = D /\ A \cap C = {}
    <3> DEFINE a == s[k + 1]
               b == s[(k + 1) + 1]
    <3>1. a \in Int /\ b \in Int /\ start <= a /\ b = a + BatchSize
      BY <1>2, <2>1
    <3> HIDE DEF a, b
    <3>2. (start .. a - 1) \cup (a .. b - 1) = start .. b - 1 /\ (start .. a - 1) \cap (a .. b - 1) = {}
      BY <1>1, <3>1
    <3>. QED  BY <3>2 DEF a, b
  <2>5. IsFiniteSet(D) /\ Cardinality(D) = Cardinality(A) + Cardinality(C)
    <3>1. IsFiniteSet(D) /\ Cardinality(D) = Cardinality(A) + Cardinality(C) - Cardinality({})
      <4>1. IsFiniteSet(A) /\ IsFiniteSet(C)
        BY <2>2, <2>3
      <4> HIDE DEF A, C, D
      <4>2. /\ IsFiniteSet(A \cup C)
            /\ Cardinality(A \cup C) = Cardinality(A) + Cardinality(C) - Cardinality(A \cap C)
        BY <4>1, FS_Union
      <4>. QED  BY <4>2, <2>4
    <3>2. Cardinality({}) = 0 /\ Cardinality(A) \in Nat /\ Cardinality(C) \in Nat
      BY <2>2, <2>3, FS_EmptySet, FS_CardinalityType
    <3>. QED  BY <3>1, <3>2
  <2>6. SumFunctionOnSet(missing, (1..k) \cup {k + 1}) = missing[k + 1] + SumFunctionOnSet(missing, 1..k)
    <3>1. IsFiniteSet(1..k) /\ k + 1 \notin 1..k
      BY <2>1, FS_Interval
    <3>2. \A x \in (1..k) \cup {k + 1} : x \in 1..(n - 1)
      BY <2>1
    <3>3. \A x \in (1..k) \cup {k + 1} : missing[x] \in Int
      <4>1. \A x \in 1..(n - 1) : missing[x] \in Nat
        BY <1>11
      <4>. QED  BY <3>2, <4>1
    <3>. QED  BY <3>1, <3>3, SumAdd
  <2>7. (1..k) \cup {k + 1} = 1..(k + 1)
    BY <2>1
  <2>8. Cardinality(A) \in Nat /\ Cardinality(C) \in Nat
    BY <2>2, <2>3, FS_CardinalityType
  <2>9. SumFunctionOnSet(missing, 1..(k + 1)) = Cardinality(D)
    <3> DEFINE a == Cardinality(A)
               c == Cardinality(C)
    <3>1. SumFunctionOnSet(missing, 1..(k + 1)) = c + a /\ Cardinality(D) = a + c /\ a \in Nat /\ c \in Nat
      BY <2>2, <2>3, <2>5, <2>6, <2>7, <2>8
    <3> HIDE DEF a, c
    <3>2. c + a = a + c
      BY <3>1
    <3>. QED  BY <3>1, <3>2
  <2>. QED  BY <2>1, <2>5, <2>9
<1>14. n - 1 \in Good
  <2> HIDE DEF Good
  <2>1. \A k \in 0..((n - 1) - 1) : k \in Good => k + 1 \in Good
    BY <1>13
  <2>2. 0 \in Int /\ n - 1 \in Int /\ n - 1 \in 0..(n - 1)
    OBVIOUS
  <2>. QED  BY <1>12, <2>1, <2>2, Upwards, Zenon
<1>15. SumFunctionOnSet(missing, 1..n) = Lack(n)
  <2>0. (1..(n - 1)) \cup {n} = 1..n /\ n \notin 1..(n - 1) /\ (n - 1) + 1 = n /\ n - 1 \in Int
    OBVIOUS
  <2>5. IsFiniteSet(1..(n - 1))
    BY <2>0, FS_Interval
  <2>1. (1..(n - 1)) \cup {n} = 1..n /\ n \notin 1..(n - 1) /\ IsFiniteSet(1..(n - 1)) /\ (n - 1) + 1 = n
    BY <2>0, <2>5
  <2>2. SumFunctionOnSet(missing, 1..(n - 1)) = Lack(n) /\ IsFiniteSet((start .. s[n] - 1) \ Range(h))
    BY <1>14, <2>1
  <2>3. SumFunctionOnSet(missing, 1..n) = missing[n] + SumFunctionOnSet(missing, 1..(n - 1))
    <3>1. \A x \in (1..(n - 1)) \cup {n} : missing[x] \in Int
      <4>1. \A x \in 1..(n - 1) : missing[x] \in Nat
        BY <1>11
      <4>2. missing[n] \in Nat
        BY <1>10
      <4>. QED  BY <4>1, <4>2
    <3>2. SumFunctionOnSet(missing, (1..(n - 1)) \cup {n}) = missing[n] + SumFunctionOnSet(missing, 1..(n - 1))
      BY <2>1, <3>1, SumAdd
    <3>. QED  BY <2>1, <3>2
  <2>4. Lack(n) \in Nat
    BY <2>2, FS_CardinalityType
  <2>. QED  BY <1>10, <2>2, <2>3, <2>4
<1>. QED  BY <1>5, <1>6, <1>7, <1>15 DEF s

-----------------------------------------------------------------------------
(* Remainders *)

\* The next multiple of r.
Aligned(t, r) == t % r = 0

\* Remainders of a sum, as the alignment of the next times needs them.
LEMMA ModAdd ==
  ASSUME NEW t \in Int, NEW u \in Int, NEW r \in Nat \ {0}, Aligned(t, r), NEW v \in Int, 1 <= v, v <= r, u = t + v
  PROVE  Aligned(u, r) <=> v = r
<1>0. t % r = 0
  BY DEF Aligned
<1> DEFINE q == t \div r
           w == u \div r
           m == u % r
           d == w - q
<1>1. t = r * q /\ q \in Int
  BY <1>0, SMT
<1>2. w \in Int /\ m \in 0..(r - 1) /\ t + v = r * w + m
  BY SMT
<1>3. d \in Int /\ w = q + d
  BY <1>1, <1>2
<1> HIDE DEF q, w, m, d
<1>4. r * (q + d) = r * q + r * d
  BY <1>1, <1>3
<1>5. v = r * d + m /\ r * d \in Int
  BY <1>1, <1>2, <1>3, <1>4
<1>6. ASSUME v = r PROVE m = 0
  <2>1. ~(d >= 2)
    <3>1. d >= 2 => r * d >= r + r
      BY <1>3
    <3>. QED  BY <1>2, <1>5, <1>6, <3>1
  <2>2. ~(d <= 0)
    <3>1. d <= 0 => r * d <= 0
      BY <1>3
    <3>. QED  BY <1>2, <1>5, <1>6, <3>1
  <2>3. d = 1
    BY <1>3, <2>1, <2>2
  <2>. QED  BY <1>2, <1>5, <1>6, <2>3
<1>7. ASSUME m = 0 PROVE v = r
  <2>1. ~(d >= 2)
    <3>1. d >= 2 => r * d >= r + r
      BY <1>3
    <3>. QED  BY <1>2, <1>5, <1>7, <3>1
  <2>2. ~(d <= 0)
    <3>1. d <= 0 => r * d <= 0
      BY <1>3
    <3>. QED  BY <1>2, <1>5, <1>7, <3>1
  <2>3. d = 1
    BY <1>3, <2>1, <2>2
  <2>. QED  BY <1>2, <1>5, <1>7, <2>3
<1>. QED  BY <1>6, <1>7 DEF m, Aligned

-----------------------------------------------------------------------------
(* The resampling of a file *)

\* The index from which a file is resampled lies in the file or just behind it.
LEMMA StartIndexIs ==
  ASSUME NEW file \in Seq(Int), NEW width
  PROVE  /\ StartIndex(file, width) \in Nat \ {0} /\ StartIndex(file, width) - 1 <= Len(file)
         /\ (\E i \in 1..Len(file) : FirstOfPeriod(file[i], width)) =>
               StartIndex(file, width) \in 1..Len(file) /\ FirstOfPeriod(file[StartIndex(file, width)], width)
         /\ ~(\E i \in 1..Len(file) : FirstOfPeriod(file[i], width)) => StartIndex(file, width) = 1
<1> DEFINE first == {i \in DOMAIN file : FirstOfPeriod(file[i], width)}
           f == StartIndex(file, width)
<1>1. Len(file) \in Nat /\ DOMAIN file = 1..Len(file)
  BY LenProperties
<1>2. f = IF first = {} THEN 1 ELSE CHOOSE i \in first : \A j \in first : i <= j
  BY DEF StartIndex
<1>3. first = {i \in 1..Len(file) : FirstOfPeriod(file[i], width)}
  BY <1>1
<1> HIDE DEF first, f
<1>4. CASE first = {}
  <2>1. f = 1
    BY <1>2, <1>4
  <2>2. ~(\E i \in 1..Len(file) : FirstOfPeriod(file[i], width))
    BY <1>3, <1>4
  <2>3. f \in Nat \ {0} /\ f - 1 <= Len(file)
    BY <1>1, <2>1
  <2>. QED  BY <2>1, <2>2, <2>3 DEF f
<1>5. CASE first # {}
  <2>1. first \subseteq Nat
    BY <1>1, <1>3
  <2>2. \E i \in first : \A j \in first : i <= j
    BY <1>5, <2>1, SmallestNat
  <2>3. f \in first
    BY <1>2, <1>5, <2>2
  <2>4. f \in 1..Len(file) /\ FirstOfPeriod(file[f], width)
    BY <1>3, <2>3
  <2>5. f \in Nat \ {0} /\ f - 1 <= Len(file)
    BY <1>1, <2>4
  <2>. QED  BY <2>4, <2>5 DEF f
<1>. QED  BY <1>4, <1>5

IsGrouped(after, pair, file, width, first, n) ==
  after = [i \in first - 1 .. n |-> IF i < first THEN [rows |-> <<>>, open |-> FALSE]
                                    ELSE Grouped(after[i - 1], pair, file[i], width)]

\* The accumulator of the loop is defined turn by turn.
LEMMA GroupedExists ==
  ASSUME NEW pair, NEW file, NEW width, NEW first \in Int, NEW n \in Int, first - 1 <= n
  PROVE  \E after : IsGrouped(after, pair, file, width, first, n)
<1> DEFINE Good == {m \in Int : \E after : IsGrouped(after, pair, file, width, first, m)}
           Turn(prev, i) == IF i < first THEN [rows |-> <<>>, open |-> FALSE]
                            ELSE Grouped(prev, pair, file[i], width)
<1>1. first - 1 \in Good
  <2> DEFINE g == [i \in first - 1 .. first - 1 |-> [rows |-> <<>>, open |-> FALSE]]
             h == [i \in first - 1 .. first - 1 |-> IF i < first THEN [rows |-> <<>>, open |-> FALSE] ELSE Grouped(g[i - 1], pair, file[i], width)]
  <2>1. \A i \in first - 1 .. first - 1 : i < first
    OBVIOUS
  <2>2. g = h
    <3>1. \A i \in first - 1 .. first - 1 : [rows |-> <<>>, open |-> FALSE]
                                             = IF i < first THEN [rows |-> <<>>, open |-> FALSE] ELSE Grouped(g[i - 1], pair, file[i], width)
      BY <2>1, Zenon
    <3>. QED  BY <3>1, Zenon
  <2>3. IsGrouped(g, pair, file, width, first, first - 1)
    BY <2>2, Zenon DEF IsGrouped
  <2>4. first - 1 \in Int
    OBVIOUS
  <2>. QED  BY <2>3, <2>4, Zenon
<1>2. ASSUME NEW m \in (first - 1)..(n - 1), m \in Good PROVE m + 1 \in Good
  <2>1. PICK f : IsGrouped(f, pair, file, width, first, m)
    BY <1>2
  <2> DEFINE g == [i \in first - 1 .. m + 1 |-> Turn(f[i - 1], i)]
  <2>2. \A i \in first - 1 .. m : f[i] = Turn(f[i - 1], i)
    BY <2>1, Zenon DEF IsGrouped
  <2>3. \A i \in first - 1 .. m : i \in first - 1 .. m + 1
    OBVIOUS
  <2>4. \A i \in first - 1 .. m + 1 : g[i] = Turn(f[i - 1], i)
    BY Zenon
  <2>5. g = [i \in first - 1 .. m + 1 |-> g[i]]
    BY Zenon
  <2> HIDE DEF g
  <2>6. \A i \in first - 1 .. m : g[i] = f[i]
    BY <2>2, <2>3, <2>4, Zenon DEF Turn
  <2>7. ASSUME NEW i \in first - 1 .. m + 1 PROVE g[i] = Turn(g[i - 1], i)
    <3>1. CASE i < first
      BY <2>4, <3>1, Zenon
    <3>2. CASE ~(i < first)
      <4>1. i - 1 \in first - 1 .. m
        BY <3>2
      <4>2. g[i - 1] = f[i - 1]
        BY <2>6, <4>1
      <4>. QED  BY <2>4, <4>2, Zenon
    <3>. QED  BY <3>1, <3>2
  <2>8. g = [i \in first - 1 .. m + 1 |-> Turn(g[i - 1], i)]
    BY <2>5, <2>7, Zenon
  <2>9. IsGrouped(g, pair, file, width, first, m + 1)
    BY <2>8, Zenon DEF IsGrouped
  <2>10. m + 1 \in Int
    OBVIOUS
  <2>. QED  BY <2>9, <2>10, Zenon
<1> HIDE DEF Good
<1>3. \A m \in (first - 1)..n : m \in Good
  <2>1. \A m \in (first - 1)..(n - 1) : m \in Good => m + 1 \in Good
    BY <1>2
  <2>2. first - 1 \in Int
    OBVIOUS
  <2>. QED  BY <1>1, <2>1, <2>2, Upwards, Zenon
<1>4. n \in (first - 1)..n
  OBVIOUS
<1>. QED  BY <1>3, <1>4 DEF Good

\* The loop of resample, turn by turn.
LEMMA ResampleTurns ==
  ASSUME NEW pair, NEW file \in Seq(Int), NEW width
  PROVE  \E after :
           /\ Resample(pair, file, width) = after[Len(file)].rows
           /\ after[StartIndex(file, width) - 1] = [rows |-> <<>>, open |-> FALSE]
           /\ \A i \in StartIndex(file, width) .. Len(file) : after[i] = Grouped(after[i - 1], pair, file[i], width)
<1> DEFINE first == StartIndex(file, width)
           after == CHOOSE g : IsGrouped(g, pair, file, width, first, Len(file))
<1>1. first \in Nat \ {0} /\ first - 1 <= Len(file) /\ Len(file) \in Nat
  BY StartIndexIs, LenProperties
<1>2. Resample(pair, file, width) = after[Len(file)].rows
  BY Zenon DEF Resample, IsGrouped
<1> HIDE DEF first
<1>3. IsGrouped(after, pair, file, width, first, Len(file))
  <2>1. first \in Int /\ Len(file) \in Int /\ first - 1 <= Len(file)
    BY <1>1
  <2>2. \E g : IsGrouped(g, pair, file, width, first, Len(file))
    BY <2>1, GroupedExists
  <2>. QED  BY <2>2
<1> HIDE DEF after
<1>4. \A i \in first - 1 .. Len(file) : after[i] = IF i < first THEN [rows |-> <<>>, open |-> FALSE] ELSE Grouped(after[i - 1], pair, file[i], width)
  BY <1>3, Zenon DEF IsGrouped
<1>5. first - 1 \in first - 1 .. Len(file) /\ first - 1 < first
  BY <1>1
<1>6. \A i \in first .. Len(file) : i \in first - 1 .. Len(file) /\ ~(i < first)
  BY <1>1
<1>7. after[first - 1] = [rows |-> <<>>, open |-> FALSE]
  BY <1>4, <1>5, Zenon
<1>8. \A i \in first .. Len(file) : after[i] = Grouped(after[i - 1], pair, file[i], width)
  BY <1>4, <1>6, Zenon
<1>. QED  BY <1>2, <1>7, <1>8 DEF first

\* The rows that a pair's file becomes.
FileRows(pair) == [pair : {pair}, time : Int, n : {0}, complete : {TRUE}, last : Int, volume : Int]

\* The periods follow one another, and none reaches beyond t.
RowsUpTo(rows, t) ==
  /\ \A j \in 1..Len(rows) : rows[j].time <= rows[j].last /\ rows[j].last <= t
  /\ \A j, k \in 1..Len(rows) : j < k => rows[j].last < rows[k].time

\* Opening a row behind t keeps the rows apart and adds one to their volume.
LEMMA OpenedKeeps ==
  ASSUME NEW pair, NEW rows \in Seq(FileRows(pair)), NEW s \in Int, NEW t \in Int, s < t, RowsUpTo(rows, s)
  PROVE  LET new == Append(rows, Opened(pair, t)) IN
         /\ new \in Seq(FileRows(pair)) /\ RowsUpTo(new, t)
         /\ Len(new) = Len(rows) + 1 /\ new[Len(rows) + 1] = Opened(pair, t)
         /\ \A j \in 1..Len(rows) : new[j] = rows[j]
         /\ Volume(new) = Volume(rows) + 1
<1> DEFINE m == Len(rows)
           row == Opened(pair, t)
           new == Append(rows, row)
<1>1. row \in FileRows(pair) /\ row.time = t /\ row.last = t /\ row.volume = 1
  BY DEF Opened, FileRows
<1> HIDE DEF row
<1>2. /\ new \in Seq(FileRows(pair)) /\ Len(new) = m + 1 /\ m \in Nat
      /\ (\A j \in 1..m : new[j] = rows[j]) /\ new[m + 1] = row
  BY <1>1, AppendProperties
<1>3. (\A j \in 1..m : rows[j] \in FileRows(pair)) /\ (\A j \in 1..(m + 1) : new[j] \in FileRows(pair))
  BY <1>2, ElementOfSeq
<1>4. \A r \in FileRows(pair) : r.time \in Int /\ r.last \in Int /\ r.volume \in Int
  BY DEF FileRows
<1> HIDE DEF new, m
<1>5. (\A j \in 1..m : rows[j].time <= rows[j].last /\ rows[j].last <= s)
      /\ (\A j, k \in 1..m : j < k => rows[j].last < rows[k].time)
  BY DEF RowsUpTo, m
<1>6. \A j \in 1..(m + 1) : j \in 1..m \/ j = m + 1
  BY <1>2
<1>7. \A j \in 1..(m + 1) : new[j].time <= new[j].last /\ new[j].last <= t
  <2>1. SUFFICES ASSUME NEW j \in 1..(m + 1) PROVE new[j].time <= new[j].last /\ new[j].last <= t
    OBVIOUS
  <2>2. CASE j = m + 1
    BY <1>1, <1>2, <2>2
  <2>3. CASE j \in 1..m
    <3>1. rows[j].time <= rows[j].last /\ rows[j].last <= s /\ rows[j].last \in Int
      BY <1>3, <1>4, <1>5, <2>3
    <3>2. new[j] = rows[j]
      BY <1>2, <2>3
    <3>. QED  BY <3>1, <3>2
  <2>. QED  BY <1>6, <2>2, <2>3
<1>8. \A j, k \in 1..(m + 1) : j < k => new[j].last < new[k].time
  <2>1. SUFFICES ASSUME NEW j \in 1..(m + 1), NEW k \in 1..(m + 1), j < k PROVE new[j].last < new[k].time
    OBVIOUS
  <2>2. j \in 1..m
    BY <1>2, <2>1
  <2>3. CASE k \in 1..m
    BY <1>2, <1>5, <2>1, <2>2, <2>3
  <2>4. CASE k = m + 1
    <3>1. rows[j].last <= s /\ rows[j].last \in Int
      BY <1>3, <1>4, <1>5, <2>2
    <3>2. rows[j].last < t
      BY <3>1
    <3>. QED  BY <1>1, <1>2, <2>2, <2>4, <3>2
  <2>. QED  BY <1>6, <2>3, <2>4
<1>9. RowsUpTo(new, t)
  BY <1>2, <1>7, <1>8 DEF RowsUpTo
<1>10. Volume(new) = Volume(rows) + 1
  <2> DEFINE f == [i \in DOMAIN rows |-> rows[i].volume]
             g == [i \in DOMAIN new |-> new[i].volume]
  <2>1. DOMAIN rows = 1..m /\ DOMAIN new = 1..(m + 1)
    BY <1>2, LenProperties DEF m
  <2>2. Volume(rows) = SumFunctionOnSet(f, 1..m) /\ Volume(new) = SumFunctionOnSet(g, 1..(m + 1))
    BY <2>1, Zenon DEF Volume
  <2>3. \A i \in 1..m : f[i] = g[i] /\ f[i] \in Int
    <3>1. \A i \in 1..m : f[i] = rows[i].volume /\ g[i] = new[i].volume
      BY <1>6, <2>1, <1>2
    <3> HIDE DEF f, g
    <3>. QED  BY <3>1, <1>2, <1>3, <1>4
  <2>4. g[m + 1] = 1
    <3>1. m + 1 \in 1..(m + 1)
      BY <1>2
    <3>. QED  BY <2>1, <1>1, <1>2, <3>1
  <2> HIDE DEF f, g
  <2>5. 1..(m + 1) = (1..m) \cup {m + 1} /\ m + 1 \notin 1..m
    BY <1>2
  <2>6. IsFiniteSet(1..m)
    <3>1. 1 \in Int /\ m \in Int
      BY <1>2
    <3>. QED  BY <3>1, FS_Interval
  <2>7. SumFunctionOnSet(f, 1..m) = SumFunctionOnSet(g, 1..m)
    BY <2>3, <2>6, SumEqual
  <2>8. SumFunctionOnSet(g, (1..m) \cup {m + 1}) = g[m + 1] + SumFunctionOnSet(g, 1..m)
    <3>1. \A i \in (1..m) \cup {m + 1} : g[i] \in Int
      BY <2>3, <2>4
    <3>. QED  BY <2>5, <2>6, <3>1, SumAdd
  <2>9. SumFunctionOnSet(f, 1..m) \in Int
    BY <2>3, <2>6, SumInt
  <2> DEFINE a == SumFunctionOnSet(f, 1..m)
  <2>10. a \in Int /\ Volume(rows) = a /\ Volume(new) = 1 + a
    BY <2>2, <2>4, <2>5, <2>7, <2>8, <2>9
  <2> HIDE DEF a
  <2>11. 1 + a = a + 1
    BY <2>10
  <2>. QED  BY <2>10, <2>11
<1>. QED  BY <1>2, <1>9, <1>10 DEF new, m, row

\* A row of a file with other values of last and volume.
RowsOver(P, S, Z, C) == [pair : P, time : S, n : Z, complete : C, last : S, volume : S]

WithLast(old, t, v) == [old EXCEPT !.last = t, !.volume = v]

\* A row with other values of last and volume is a row.
LEMMA MergedRow ==
  ASSUME NEW P, NEW S, NEW Z, NEW C, NEW old \in RowsOver(P, S, Z, C), NEW t \in S, NEW v \in S
  PROVE  /\ WithLast(old, t, v) \in RowsOver(P, S, Z, C) /\ WithLast(old, t, v).time = old.time
         /\ WithLast(old, t, v).last = t /\ WithLast(old, t, v).volume = v
<1>1. [old EXCEPT !.last = t] \in RowsOver(P, S, Z, C)
  BY DEF RowsOver
<1>2. \A r \in RowsOver(P, S, Z, C) : [r EXCEPT !.volume = v] \in RowsOver(P, S, Z, C)
  BY DEF RowsOver
<1>3. WithLast(old, t, v) = [[old EXCEPT !.last = t] EXCEPT !.volume = v]
  BY DEF WithLast
<1>4. WithLast(old, t, v) \in RowsOver(P, S, Z, C)
  BY <1>1, <1>2, <1>3, Zenon
<1>5. WithLast(old, t, v).time = old.time /\ WithLast(old, t, v).last = t /\ WithLast(old, t, v).volume = v
  BY DEF RowsOver, WithLast
<1>. QED  BY <1>4, <1>5

MergedRows(rows, t) == [rows EXCEPT ![Len(rows)] = Merged(@, t)]

\* Merging a candle into the last row keeps the rows apart and adds one to their volume.
LEMMA MergedKeeps ==
  ASSUME NEW pair, NEW rows \in Seq(FileRows(pair)), rows # <<>>, NEW s \in Int, NEW t \in Int, s < t, RowsUpTo(rows, s)
  PROVE  LET new == MergedRows(rows, t) IN
         /\ new \in Seq(FileRows(pair)) /\ RowsUpTo(new, t)
         /\ Len(new) = Len(rows) /\ new[Len(rows)] = Merged(rows[Len(rows)], t)
         /\ \A j \in 1..(Len(rows) - 1) : new[j] = rows[j]
         /\ Volume(new) = Volume(rows) + 1
<1> DEFINE m == Len(rows)
           row == Merged(rows[m], t)
           new == MergedRows(rows, t)
<1>1. m \in Nat \ {0} /\ m \in 1..m /\ DOMAIN rows = 1..m
  BY EmptySeq, LenProperties
<1>2. \A j \in 1..m : rows[j] \in FileRows(pair)
  BY ElementOfSeq
<1>3. \A r \in FileRows(pair) : r.time \in Int /\ r.last \in Int /\ r.volume \in Int
  BY DEF FileRows
<1>4. row \in FileRows(pair) /\ row.time = rows[m].time /\ row.last = t /\ row.volume = rows[m].volume + 1
  <2> DEFINE old == rows[m]
  <2>1. old \in FileRows(pair)
    BY <1>1, <1>2
  <2> HIDE DEF old
  <2> DEFINE v == old.volume + 1
  <2>3. v \in Int
    BY <1>3, <2>1
  <2>2. PICK P, S, Z, C : FileRows(pair) = RowsOver(P, S, Z, C) /\ t \in S /\ v \in S
    <3>1. FileRows(pair) = RowsOver({pair}, Int, {0}, {TRUE})
      BY DEF FileRows, RowsOver
    <3>. QED  BY <2>3, <3>1, Zenon
  <2>4. Merged(old, t) = WithLast(old, t, v)
    BY DEF Merged, WithLast
  <2> HIDE DEF v
  <2>5. /\ Merged(old, t) \in FileRows(pair)
        /\ Merged(old, t).time = old.time /\ Merged(old, t).last = t /\ Merged(old, t).volume = v
    <3>1. old \in RowsOver(P, S, Z, C) /\ t \in S /\ v \in S
      BY <2>1, <2>2
    <3>2. /\ WithLast(old, t, v) \in RowsOver(P, S, Z, C) /\ WithLast(old, t, v).time = old.time
          /\ WithLast(old, t, v).last = t /\ WithLast(old, t, v).volume = v
      BY <3>1, MergedRow
    <3>. QED  BY <2>2, <2>4, <3>2
  <2>. QED  BY <2>5 DEF old, v
<1>5. new = [rows EXCEPT ![m] = row]
  BY DEF MergedRows
<1> HIDE DEF row, new
<1>6. new \in Seq(FileRows(pair)) /\ Len(new) = m /\ DOMAIN new = 1..m
  BY <1>1, <1>4, <1>5
<1>7. new[m] = row /\ \A j \in 1..m : j # m => new[j] = rows[j]
  BY <1>1, <1>5
<1>8. \A j \in 1..m : new[j] \in FileRows(pair)
  BY <1>6, ElementOfSeq
<1> HIDE DEF m
<1>9. (\A j \in 1..m : rows[j].time <= rows[j].last /\ rows[j].last <= s)
      /\ (\A j, k \in 1..m : j < k => rows[j].last < rows[k].time)
  BY DEF RowsUpTo, m
<1>10. \A j \in 1..m : new[j].time <= new[j].last /\ new[j].last <= t
  <2>1. SUFFICES ASSUME NEW j \in 1..m PROVE new[j].time <= new[j].last /\ new[j].last <= t
    OBVIOUS
  <2>2. rows[j].time <= rows[j].last /\ rows[j].last <= s /\ rows[j].last \in Int /\ rows[j].time \in Int
    BY <1>2, <1>3, <1>9
  <2>3. CASE j = m
    <3>1. new[j].time = rows[j].time /\ new[j].last = t
      BY <1>4, <1>7, <2>3
    <3>2. rows[j].time <= t /\ t <= t
      BY <2>2
    <3>. QED  BY <3>1, <3>2
  <2>4. CASE j # m
    <3>1. new[j] = rows[j]
      BY <1>7, <2>4
    <3>2. rows[j].last <= t
      BY <2>2
    <3>. QED  BY <2>2, <3>1, <3>2
  <2>. QED  BY <2>3, <2>4
<1>11. \A j, k \in 1..m : j < k => new[j].last < new[k].time
  <2>1. SUFFICES ASSUME NEW j \in 1..m, NEW k \in 1..m, j < k PROVE new[j].last < new[k].time
    OBVIOUS
  <2>2. j # m
    BY <1>1, <2>1
  <2>3. new[j] = rows[j] /\ rows[j].last < rows[k].time
    BY <1>7, <1>9, <2>1, <2>2
  <2>4. new[k].time = rows[k].time
    BY <1>4, <1>7
  <2>. QED  BY <2>3, <2>4
<1>12. RowsUpTo(new, t)
  BY <1>6, <1>10, <1>11 DEF RowsUpTo
<1>13. Volume(new) = Volume(rows) + 1
  <2> DEFINE f == [i \in DOMAIN rows |-> rows[i].volume]
             g == [i \in DOMAIN new |-> new[i].volume]
             before == 1..(m - 1)
  <2>1. Volume(rows) = SumFunctionOnSet(f, 1..m) /\ Volume(new) = SumFunctionOnSet(g, 1..m)
    BY <1>1, <1>6, Zenon DEF Volume
  <2>2. \A i \in 1..m : f[i] = rows[i].volume /\ g[i] = new[i].volume
    BY <1>1, <1>6
  <2> HIDE DEF f, g
  <2>3. (\A i \in 1..m : f[i] \in Int /\ g[i] \in Int) /\ g[m] = f[m] + 1
    <3>1. \A i \in 1..m : f[i] \in Int
      BY <1>2, <1>3, <2>2
    <3>2. \A i \in 1..m : g[i] \in Int
      BY <1>3, <1>8, <2>2
    <3>3. g[m] = f[m] + 1
      BY <1>1, <1>4, <1>7, <2>2
    <3>. QED  BY <3>1, <3>2, <3>3
  <2>4. 1..m = before \cup {m} /\ m \notin before /\ \A i \in before : i \in 1..m /\ i # m
    BY <1>1
  <2>5. IsFiniteSet(before)
    <3>1. 1 \in Int /\ m - 1 \in Int
      BY <1>1
    <3>. QED  BY <3>1, FS_Interval
  <2> HIDE DEF before
  <2>6. \A i \in before : f[i] = g[i]
    BY <1>7, <2>2, <2>4
  <2>7. SumFunctionOnSet(f, before) = SumFunctionOnSet(g, before)
    BY <2>3, <2>4, <2>5, <2>6, SumEqual
  <2>8. SumFunctionOnSet(f, before \cup {m}) = f[m] + SumFunctionOnSet(f, before)
    <3>1. \A i \in before \cup {m} : f[i] \in Int
      BY <2>3, <2>4
    <3>. QED  BY <2>4, <2>5, <3>1, SumAdd
  <2>9. SumFunctionOnSet(g, before \cup {m}) = g[m] + SumFunctionOnSet(g, before)
    <3>1. \A i \in before \cup {m} : g[i] \in Int
      BY <2>3, <2>4
    <3>. QED  BY <2>4, <2>5, <3>1, SumAdd
  <2>10. SumFunctionOnSet(f, before) \in Int
    BY <2>3, <2>4, <2>5, SumInt
  <2> DEFINE a == SumFunctionOnSet(f, before)
             b == f[m]
  <2>11. a \in Int /\ b \in Int /\ Volume(rows) = b + a /\ Volume(new) = (b + 1) + a
    BY <1>1, <2>1, <2>3, <2>4, <2>7, <2>8, <2>9, <2>10
  <2> HIDE DEF a, b
  <2>12. (b + 1) + a = (b + a) + 1
    BY <2>11
  <2>. QED  BY <2>11, <2>12
<1>14. \A j \in 1..(m - 1) : new[j] = rows[j]
  BY <1>1, <1>7
<1>. QED  BY <1>6, <1>7, <1>12, <1>13, <1>14 DEF new, m, row

\* Of gapless times every period but the last is whole, the open one is aligned
\* and not yet full, and a period is closed only when it is full.
Whole(row, width) == row.time % width = 0 /\ row.last = row.time + width - 1 /\ row.volume = width

Begun(row, t, width) ==
  row.time % width = 0 /\ row.last = t /\ row.volume = t - row.time + 1 /\ row.volume < width

\* A turn of the loop on gapless times from a boundary on.
PeriodsUpTo(acc, t, width) ==
  /\ \A j \in 1..(Len(acc.rows) - 1) : Whole(acc.rows[j], width)
  /\ acc.open => Begun(acc.rows[Len(acc.rows)], t, width)
  /\ ~acc.open => LastOfPeriod(t, width) /\ (acc.rows # <<>> => Whole(acc.rows[Len(acc.rows)], width))

\* What the loop keeps to, for any file.
LoopKeeps(acc, pair, t, count) ==
  /\ acc.rows \in Seq(FileRows(pair)) /\ acc.open \in BOOLEAN
  /\ RowsUpTo(acc.rows, t) /\ Volume(acc.rows) = count
  /\ acc.open => acc.rows # <<>>

\* The first candle of a period opens a row.
LEMMA GroupedOpens ==
  ASSUME NEW pair, NEW acc, NEW t, NEW width, ~acc.open
  PROVE  /\ Grouped(acc, pair, t, width).open = TRUE
         /\ Grouped(acc, pair, t, width).rows = Append(acc.rows, Opened(pair, t))
<1> DEFINE new == Append(acc.rows, Opened(pair, t))
<1>1. Grouped(acc, pair, t, width) = [rows |-> new, open |-> TRUE]
  BY Zenon DEF Grouped
<1> HIDE DEF new
<1>2. Grouped(acc, pair, t, width).open = TRUE /\ Grouped(acc, pair, t, width).rows = new
  BY <1>1
<1>. QED  BY <1>2 DEF new

\* What a turn that opens a row leaves.
LEMMA TurnOpens ==
  ASSUME NEW pair, NEW acc, NEW s \in Int, NEW t \in Int, NEW count \in Int, NEW width,
         s < t, ~acc.open, LoopKeeps(acc, pair, s, count)
  PROVE  LET next == Grouped(acc, pair, t, width) IN
         LoopKeeps(next, pair, t, count + 1)
<1> DEFINE new == Append(acc.rows, Opened(pair, t))
           next == Grouped(acc, pair, t, width)
           m == Len(acc.rows)
<1>2. acc.rows \in Seq(FileRows(pair)) /\ RowsUpTo(acc.rows, s) /\ Volume(acc.rows) = count
  BY DEF LoopKeeps
<1>3. /\ new \in Seq(FileRows(pair)) /\ RowsUpTo(new, t)
      /\ Len(new) = m + 1 /\ new[m + 1] = Opened(pair, t)
      /\ \A j \in 1..m : new[j] = acc.rows[j]
      /\ Volume(new) = Volume(acc.rows) + 1
  BY <1>2, OpenedKeeps
<1>4. m \in Nat
  BY <1>2, LenProperties
<1>5. next.rows = new /\ next.open = TRUE
  BY GroupedOpens
<1> HIDE DEF next, new, m
<1>6. new # <<>>
  <2>1. Len(new) # 0
    BY <1>3, <1>4
  <2>. QED  BY <2>1, <1>3, EmptySeq
<1>7. LoopKeeps(next, pair, t, count + 1)
  BY <1>2, <1>3, <1>5, <1>6 DEF LoopKeeps
<1>. QED  BY <1>7 DEF next

\* Every other candle of a period goes into the last row.
LEMMA TurnMerges ==
  ASSUME NEW pair, NEW acc, NEW s \in Int, NEW t \in Int, NEW count \in Int, NEW width,
         s < t, acc.open, LoopKeeps(acc, pair, s, count)
  PROVE  LET next == Grouped(acc, pair, t, width) IN
         /\ LoopKeeps(next, pair, t, count + 1) /\ next.open = ~LastOfPeriod(t, width)
         /\ Len(next.rows) = Len(acc.rows)
         /\ next.rows[Len(acc.rows)] = Merged(acc.rows[Len(acc.rows)], t)
         /\ \A j \in 1..(Len(acc.rows) - 1) : next.rows[j] = acc.rows[j]
<1> DEFINE new == MergedRows(acc.rows, t)
           next == Grouped(acc, pair, t, width)
           m == Len(acc.rows)
<1>1. next = [rows |-> new, open |-> ~LastOfPeriod(t, width)]
  BY Zenon DEF Grouped, MergedRows
<1>2. acc.rows \in Seq(FileRows(pair)) /\ RowsUpTo(acc.rows, s) /\ Volume(acc.rows) = count /\ acc.rows # <<>>
  BY DEF LoopKeeps
<1>3. /\ new \in Seq(FileRows(pair)) /\ RowsUpTo(new, t)
      /\ Len(new) = m /\ new[m] = Merged(acc.rows[m], t)
      /\ \A j \in 1..(m - 1) : new[j] = acc.rows[j]
      /\ Volume(new) = Volume(acc.rows) + 1
  BY <1>2, MergedKeeps
<1>4. m \in Nat \ {0}
  BY <1>2, EmptySeq, LenProperties
<1> HIDE DEF next, new, m
<1>5. next.rows = new /\ next.open = ~LastOfPeriod(t, width)
  BY <1>1
<1>6. new # <<>>
  <2>1. Len(new) # 0
    BY <1>3, <1>4
  <2>. QED  BY <2>1, <1>3, EmptySeq
<1>7. next.open \in BOOLEAN
  BY <1>5 DEF LastOfPeriod
<1>8. LoopKeeps(next, pair, t, count + 1)
  BY <1>2, <1>3, <1>5, <1>6, <1>7 DEF LoopKeeps
<1>. QED  BY <1>3, <1>5, <1>8 DEF next, m

\* The loop over the whole file.
LEMMA LoopOverFile ==
  ASSUME NEW pair, NEW file \in Seq(Int), Increasing(file), NEW width, NEW after,
         NEW first \in Nat \ {0}, first - 1 <= Len(file),
         after[first - 1] = [rows |-> <<>>, open |-> FALSE],
         \A i \in first..Len(file) : after[i] = Grouped(after[i - 1], pair, file[i], width)
  PROVE  \A i \in (first - 1)..Len(file) :
           LoopKeeps(after[i], pair, IF i < first THEN 0 ELSE file[i], i - first + 1)
<1> DEFINE Good == {i \in Int : /\ \A t \in Int : i < first \/ t = file[i] => LoopKeeps(after[i], pair, t, i - first + 1)}
<1>1. Len(file) \in Nat /\ (\A i \in 1..Len(file) : file[i] \in Int) /\ \A i, j \in 1..Len(file) : i < j => file[i] < file[j]
  BY LenProperties, ElementOfSeq, IncreasingIs
<1>2. first - 1 \in Good
  <2>1. ASSUME NEW t \in Int PROVE LoopKeeps(after[first - 1], pair, t, 0)
    <3> DEFINE none == <<>>
    <3>1. none \in Seq(FileRows(pair)) /\ Len(none) = 0 /\ DOMAIN none = {}
      OBVIOUS
    <3>2. Volume(none) = 0
      <4>1. Volume(none) = SumFunctionOnSet([i \in DOMAIN none |-> none[i].volume], {})
        BY <3>1, Zenon DEF Volume
      <4>. QED  BY <4>1, SumEmpty
    <3>3. 1..0 = {}
      OBVIOUS
    <3> HIDE DEF none
    <3>4. RowsUpTo(none, t)
      BY <3>1, <3>3 DEF RowsUpTo
    <3>5. after[first - 1].rows = none /\ after[first - 1].open = FALSE
      BY DEF none
    <3>. QED  BY <3>1, <3>2, <3>4, <3>5 DEF LoopKeeps
  <2>2. first - 1 \in Int /\ (first - 1) - first + 1 = 0
    OBVIOUS
  <2>. QED  BY <2>1, <2>2
<1>3. ASSUME NEW i \in (first - 1)..(Len(file) - 1), i \in Good PROVE i + 1 \in Good
  <2>0. i \in Int /\ first \in Int /\ first - 1 <= i /\ i <= Len(file) - 1 /\ 1 <= first
    BY <1>1
  <2>1. i + 1 \in first..Len(file) /\ i + 1 \in 1..Len(file) /\ ~(i + 1 < first) /\ (i + 1) - 1 = i /\ i + 1 \in Int
        /\ i - first + 1 \in Int /\ (i + 1) - first + 1 = (i - first + 1) + 1
    <3> DEFINE l == Len(file)
    <3>1. l \in Int /\ i <= l - 1
      BY <1>1, <2>0
    <3> HIDE DEF l
    <3>2. i + 1 \in first..l /\ i + 1 \in 1..l /\ ~(i + 1 < first)
      BY <2>0, <3>1
    <3>3. (i + 1) - 1 = i /\ i + 1 \in Int /\ i - first + 1 \in Int /\ (i + 1) - first + 1 = (i - first + 1) + 1
      BY <2>0
    <3>. QED  BY <3>2, <3>3 DEF l
  <2>2. PICK s \in Int : s < file[i + 1] /\ (i < first \/ s = file[i])
    <3>1. CASE i < first
      <4>1. file[i + 1] \in Int
        BY <1>1, <2>1
      <4>2. file[i + 1] - 1 \in Int /\ file[i + 1] - 1 < file[i + 1]
        BY <4>1
      <4>. QED  BY <3>1, <4>2
    <3>2. CASE ~(i < first)
      <4>1. i \in 1..Len(file) /\ i < i + 1
        BY <1>1, <3>2
      <4>. QED  BY <1>1, <2>1, <4>1
    <3>. QED  BY <3>1, <3>2
  <2>3. LoopKeeps(after[i], pair, s, i - first + 1)
    BY <1>3, <2>2
  <2> DEFINE t == file[i + 1]
             acc == after[i]
             count == i - first + 1
  <2>4. t \in Int /\ s < t /\ count \in Int /\ after[i + 1] = Grouped(acc, pair, t, width) /\ LoopKeeps(acc, pair, s, count)
    BY <1>1, <2>1, <2>2, <2>3
  <2> HIDE DEF t, acc, count
  <2>5. LoopKeeps(Grouped(acc, pair, t, width), pair, t, count + 1)
    <3>1. CASE acc.open
      BY <2>4, <3>1, TurnMerges
    <3>2. CASE ~acc.open
      BY <2>4, <3>2, TurnOpens
    <3>. QED  BY <3>1, <3>2
  <2>6. LoopKeeps(after[i + 1], pair, file[i + 1], (i + 1) - first + 1)
    BY <2>1, <2>4, <2>5 DEF t, count
  <2>. QED  BY <2>1, <2>6
<1>4. \A i \in (first - 1)..Len(file) : i \in Good
  <2> HIDE DEF Good
  <2>1. \A i \in (first - 1)..(Len(file) - 1) : i \in Good => i + 1 \in Good
    BY <1>3
  <2>2. first - 1 \in Int /\ Len(file) \in Int
    BY <1>1
  <2>. QED  BY <1>2, <2>1, <2>2, Upwards, Zenon
<1>5. ASSUME NEW i \in (first - 1)..Len(file)
      PROVE  LoopKeeps(after[i], pair, IF i < first THEN 0 ELSE file[i], i - first + 1)
  <2>1. \A t \in Int : i < first \/ t = file[i] => LoopKeeps(after[i], pair, t, i - first + 1)
    BY <1>4
  <2>2. CASE i < first
    BY <2>1, <2>2
  <2>3. CASE ~(i < first)
    <3>1. i \in 1..Len(file)
      BY <2>3
    <3>. QED  BY <1>1, <2>1, <2>3, <3>1
  <2>. QED  BY <2>2, <2>3
<1>. QED  BY <1>5

\* A turn on the next time keeps the periods whole but for the open one.
LEMMA TurnKeepsPeriods ==
  ASSUME NEW pair, NEW acc, NEW s \in Int, NEW t \in Int, NEW count \in Int, NEW width \in Nat, width > 1,
         s < t, LoopKeeps(acc, pair, s, count), PeriodsUpTo(acc, t - 1, width)
  PROVE  PeriodsUpTo(Grouped(acc, pair, t, width), t, width)
<1> DEFINE next == Grouped(acc, pair, t, width)
           m == Len(acc.rows)
<1>1. m \in Nat /\ acc.rows \in Seq(FileRows(pair)) /\ (\A j \in 1..m : acc.rows[j] \in FileRows(pair))
      /\ (m = 0 <=> acc.rows = <<>>) /\ (acc.open => acc.rows # <<>>)
  <2>1. acc.rows \in Seq(FileRows(pair)) /\ (acc.open => acc.rows # <<>>)
    BY DEF LoopKeeps
  <2>. QED  BY <2>1, LenProperties, ElementOfSeq, EmptySeq
<1>2. \A r \in FileRows(pair) : r.time \in Int /\ r.last \in Int /\ r.volume \in Int
  BY DEF FileRows
<1>3. \A j \in 1..(m - 1) : Whole(acc.rows[j], width)
  BY DEF PeriodsUpTo
<1>4. CASE acc.open
  <2>1. /\ next.open = ~LastOfPeriod(t, width) /\ Len(next.rows) = m
        /\ next.rows[m] = Merged(acc.rows[m], t)
        /\ \A j \in 1..(m - 1) : next.rows[j] = acc.rows[j]
    BY <1>4, TurnMerges, SMTT(20)
  <2>2. next.rows \in Seq(FileRows(pair))
    <3>1. LoopKeeps(next, pair, t, count + 1)
      BY <1>4, TurnMerges
    <3>. QED  BY <3>1 DEF LoopKeeps
  <2>3. m \in 1..m
    BY <1>1, <1>4
  <2> DEFINE old == acc.rows[m]
             row == next.rows[m]
             v == old.volume + 1
  <2>4. old \in FileRows(pair) /\ old.time \in Int /\ old.volume \in Int /\ v \in Int
    BY <1>1, <1>2, <2>3
  <2>5. old.time % width = 0 /\ old.volume = (t - 1) - old.time + 1 /\ old.volume < width /\ old.last = t - 1 /\ old.time <= old.last
    <3>1. Begun(old, t - 1, width)
      BY <1>4 DEF PeriodsUpTo
    <3>2. old.time <= old.last
      BY <2>3 DEF LoopKeeps, RowsUpTo
    <3>. QED  BY <3>1, <3>2 DEF Begun
  <2>6. row.time = old.time /\ row.last = t /\ row.volume = v
    <3>1. row = Merged(old, t)
      BY <2>1
    <3> HIDE DEF old, row
    <3>. QED  BY <2>4, <3>1 DEF Merged, FileRows, v
  <2> HIDE DEF next, m, old, row
  <2>7. v >= 1 /\ v <= width /\ t + 1 = old.time + v /\ v = t - old.time + 1
    BY <2>4, <2>5 DEF v
  <2> HIDE DEF v
  <2>8. LastOfPeriod(t, width) <=> v = width
    <3>1. width \in Nat \ {0}
      OBVIOUS
    <3> DEFINE a == old.time
               u == t + 1
    <3>2. a \in Int /\ Aligned(a, width) /\ v \in Int /\ 1 <= v /\ v <= width /\ u \in Int /\ u = a + v
      BY <2>4, <2>5, <2>7, <3>1 DEF Aligned
    <3> HIDE DEF a, u
    <3>3. Aligned(u, width) <=> v = width
      BY <3>1, <3>2, ModAdd
    <3>. QED  BY <3>3 DEF LastOfPeriod, Aligned, u
  <2>9. CASE v = width
    <3>1. Whole(row, width)
      <4>1. t = old.time + width - 1
        BY <2>4, <2>7, <2>9
      <4>. QED  BY <2>5, <2>6, <2>9, <4>1 DEF Whole
    <3>2. next.open = FALSE /\ LastOfPeriod(t, width)
      BY <2>1, <2>8, <2>9
    <3>3. \A j \in 1..(Len(next.rows) - 1) : Whole(next.rows[j], width)
      BY <1>3, <2>1
    <3>. QED  BY <2>1, <3>1, <3>2, <3>3 DEF PeriodsUpTo, row, next
  <2>10. CASE v # width
    <3>1. Begun(row, t, width)
      <4>1. v < width
        BY <2>4, <2>7, <2>10
      <4>. QED  BY <2>5, <2>6, <2>7, <4>1 DEF Begun
    <3>2. next.open = TRUE
      BY <2>1, <2>8, <2>10
    <3>3. \A j \in 1..(Len(next.rows) - 1) : Whole(next.rows[j], width)
      BY <1>3, <2>1
    <3>. QED  BY <2>1, <3>1, <3>2, <3>3 DEF PeriodsUpTo, row, next
  <2>. QED  BY <2>9, <2>10
<1>5. CASE ~acc.open
  <2>1. /\ next.open = TRUE /\ Len(next.rows) = m + 1 /\ next.rows[m + 1] = Opened(pair, t)
        /\ \A j \in 1..m : next.rows[j] = acc.rows[j]
    <3>1. next.open = TRUE /\ next.rows = Append(acc.rows, Opened(pair, t))
      BY <1>5, GroupedOpens
    <3>2. Opened(pair, t) \in FileRows(pair)
      BY DEF Opened, FileRows
    <3> HIDE DEF m, next
    <3>. QED  BY <1>1, <3>1, <3>2, AppendProperties DEF m
  <2>2. Begun(Opened(pair, t), t, width)
    <3>1. LastOfPeriod(t - 1, width)
      BY <1>5 DEF PeriodsUpTo
    <3>2. (t - 1) + 1 = t
      OBVIOUS
    <3>3. t % width = 0
      BY <3>1, <3>2 DEF LastOfPeriod
    <3>4. Opened(pair, t).time = t /\ Opened(pair, t).last = t /\ Opened(pair, t).volume = 1 /\ t - t + 1 = 1 /\ 1 < width
      BY DEF Opened
    <3>. QED  BY <3>3, <3>4 DEF Begun
  <2>3. \A j \in 1..m : Whole(acc.rows[j], width)
    <3>1. acc.rows # <<>> => Whole(acc.rows[m], width)
      BY <1>5 DEF PeriodsUpTo
    <3>2. \A j \in 1..m : m # 0 /\ (j \in 1..(m - 1) \/ j = m)
      BY <1>1
    <3> HIDE DEF m
    <3>. QED  BY <1>1, <1>3, <3>1, <3>2
  <2>4. (m + 1) - 1 = m
    BY <1>1
  <2> HIDE DEF next, m
  <2>5. \A j \in 1..(Len(next.rows) - 1) : Whole(next.rows[j], width)
    BY <2>1, <2>3, <2>4
  <2>. QED  BY <2>1, <2>2, <2>5 DEF PeriodsUpTo, next
<1>. QED  BY <1>4, <1>5

\* What resample makes of a file of increasing times.
LEMMA ResampleIs ==
  ASSUME NEW pair, NEW file \in Seq(Int), Increasing(file), NEW width \in Nat \ {0}
  PROVE  LET rows == Resample(pair, file, width) IN
         /\ rows \in Seq(FileRows(pair))
         /\ \A j, k \in 1..Len(rows) : j < k => rows[j].time < rows[k].time
         /\ Volume(rows) = Len(file) - StartIndex(file, width) + 1
         /\ width > 1 /\ Gapless(file) => \A j \in 1..(Len(rows) - 1) : Whole(rows[j], width)
<1> DEFINE first == StartIndex(file, width)
           rows == Resample(pair, file, width)
           n == Len(file)
<1>1. PICK after :
           /\ Resample(pair, file, width) = after[n].rows
           /\ after[first - 1] = [rows |-> <<>>, open |-> FALSE]
           /\ \A i \in first .. n : after[i] = Grouped(after[i - 1], pair, file[i], width)
  BY ResampleTurns
<1>2. /\ first \in Nat \ {0} /\ first - 1 <= n
      /\ (\E i \in 1..n : FirstOfPeriod(file[i], width)) => first \in 1..n /\ FirstOfPeriod(file[first], width)
      /\ ~(\E i \in 1..n : FirstOfPeriod(file[i], width)) => first = 1
  BY StartIndexIs
<1>3. n \in Nat /\ (\A i \in 1..n : file[i] \in Int)
  BY LenProperties, ElementOfSeq
<1> HIDE DEF first
<1>4. \A i \in (first - 1)..n : LoopKeeps(after[i], pair, IF i < first THEN 0 ELSE file[i], i - first + 1)
  BY <1>1, <1>2, LoopOverFile
<1> HIDE DEF n, rows
<1>5. n \in (first - 1)..n
  BY <1>2, <1>3
<1>6. PICK t : LoopKeeps(after[n], pair, t, n - first + 1)
  BY <1>4, <1>5
<1>7. rows \in Seq(FileRows(pair)) /\ RowsUpTo(rows, t) /\ Volume(rows) = n - first + 1
  BY <1>1, <1>6 DEF LoopKeeps, rows
<1>8. \A j, k \in 1..Len(rows) : j < k => rows[j].time < rows[k].time
  <2>1. SUFFICES ASSUME NEW j \in 1..Len(rows), NEW k \in 1..Len(rows), j < k PROVE rows[j].time < rows[k].time
    OBVIOUS
  <2>2. rows[j].time <= rows[j].last /\ rows[j].last < rows[k].time
    BY <1>7, <2>1 DEF RowsUpTo
  <2>3. rows[j] \in FileRows(pair) /\ rows[k] \in FileRows(pair)
    BY <1>7, ElementOfSeq
  <2>4. rows[j].time \in Int /\ rows[j].last \in Int /\ rows[k].time \in Int
    BY <2>3 DEF FileRows
  <2>. QED  BY <2>2, <2>4
<1>9. ASSUME width > 1, Gapless(file) PROVE \A j \in 1..(Len(rows) - 1) : Whole(rows[j], width)
  <2>1. \A i \in 1..(n - 1) : file[i] = file[i + 1] - 1
    <3>1. SUFFICES ASSUME NEW i \in 1..(n - 1) PROVE file[i] = file[i + 1] - 1
      OBVIOUS
    <3>2. i + 1 \in 2..n /\ i \in 1..n /\ (i + 1) - 1 = i
      BY <1>3
    <3>3. file[i + 1] = file[i] + 1
      <4>1. file[i + 1] = file[(i + 1) - 1] + 1
        BY <1>9, <3>2 DEF Gapless, n
      <4>. QED  BY <3>2, <4>1
    <3> DEFINE a == file[i]
               b == file[i + 1]
    <3>4. a \in Int /\ b = a + 1
      BY <1>3, <3>2, <3>3
    <3> HIDE DEF a, b
    <3>5. a = b - 1
      BY <3>4
    <3>. QED  BY <3>5 DEF a, b
  <2>2. CASE \E i \in 1..n : FirstOfPeriod(file[i], width)
    <3>1. first \in 1..n /\ FirstOfPeriod(file[first], width)
      BY <1>2, <2>2
    <3> DEFINE Good == {i \in (first - 1)..n : i < n => PeriodsUpTo(after[i], file[i + 1] - 1, width)}
    <3>2. first - 1 \in Good
      <4>1. PeriodsUpTo(after[first - 1], file[first] - 1, width)
        <5>1. LastOfPeriod(file[first] - 1, width)
          BY <3>1 DEF FirstOfPeriod
        <5> DEFINE none == <<>>
        <5>2. after[first - 1].rows = none /\ after[first - 1].open = FALSE /\ Len(none) = 0
          BY <1>1
        <5>3. 1..(0 - 1) = {}
          OBVIOUS
        <5>. QED  BY <5>1, <5>2, <5>3 DEF PeriodsUpTo
      <4>2. (first - 1) + 1 = first /\ first - 1 \in (first - 1)..n
        BY <1>2, <1>3
      <4>. QED  BY <4>1, <4>2
    <3>3. ASSUME NEW i \in (first - 1)..(n - 1), i \in Good PROVE PeriodsUpTo(after[i + 1], file[i + 1], width)
      <4>1. i + 1 \in first..n /\ i + 1 \in 1..n /\ (i + 1) - 1 = i /\ i < n /\ i \in (first - 1)..n /\ i - first + 1 \in Int
        BY <1>2, <1>3
      <4>2. PeriodsUpTo(after[i], file[i + 1] - 1, width)
        BY <3>3, <4>1
      <4>3. PICK s \in Int : s < file[i + 1] /\ LoopKeeps(after[i], pair, s, i - first + 1)
        <5>1. file[i + 1] \in Int
          BY <1>3, <4>1
        <5>2. CASE i < first
          <6>1. i = first - 1
            BY <1>2, <4>1, <5>2
          <6>2. i - first + 1 = 0
            BY <1>2, <6>1
          <6>3. after[i] = [rows |-> <<>>, open |-> FALSE]
            BY <1>1, <6>1
          <6>4. LoopKeeps(after[i], pair, 0, i - first + 1)
            BY <1>4, <4>1, <5>2
          <6>5. LoopKeeps(after[i], pair, file[i + 1] - 1, i - first + 1)
            <7> DEFINE none == <<>>
            <7>1. after[i].rows = none /\ Len(none) = 0
              BY <6>3
            <7>2. 1..0 = {}
              OBVIOUS
            <7> HIDE DEF none
            <7>3. RowsUpTo(after[i].rows, file[i + 1] - 1)
              BY <7>1, <7>2 DEF RowsUpTo
            <7>. QED  BY <6>4, <7>3 DEF LoopKeeps
          <6>6. file[i + 1] - 1 \in Int /\ file[i + 1] - 1 < file[i + 1]
            BY <5>1
          <6>. QED  BY <6>5, <6>6
        <5>3. CASE ~(i < first)
          <6>1. i \in 1..n /\ i \in 1..(n - 1)
            BY <1>2, <1>3, <4>1, <5>3
          <6>2. LoopKeeps(after[i], pair, file[i], i - first + 1)
            BY <1>4, <4>1, <5>3
          <6>3. file[i] \in Int /\ file[i] = file[i + 1] - 1
            BY <1>3, <2>1, <6>1
          <6>4. file[i] < file[i + 1]
            BY <5>1, <6>3
          <6>. QED  BY <6>2, <6>3, <6>4
        <5>. QED  BY <5>2, <5>3
      <4> DEFINE u == file[i + 1]
                 acc == after[i]
                 count == i - first + 1
      <4>4. u \in Int /\ s < u /\ count \in Int /\ LoopKeeps(acc, pair, s, count) /\ PeriodsUpTo(acc, u - 1, width)
            /\ after[i + 1] = Grouped(acc, pair, u, width)
        BY <1>1, <1>3, <4>1, <4>2, <4>3
      <4> HIDE DEF u, acc, count
      <4>5. width \in Nat
        OBVIOUS
      <4>6. PeriodsUpTo(Grouped(acc, pair, u, width), u, width)
        BY <1>9, <4>4, <4>5, TurnKeepsPeriods
      <4>. QED  BY <4>4, <4>6 DEF u
    <3>4. ASSUME NEW i \in (first - 1)..(n - 1), i \in Good PROVE i + 1 \in Good
      <4>1. i + 1 \in (first - 1)..n /\ (i + 1 < n => i + 1 \in 1..(n - 1))
        BY <1>2, <1>3
      <4>2. i + 1 < n => file[i + 1] = file[(i + 1) + 1] - 1
        BY <2>1, <4>1
      <4>. QED  BY <3>3, <3>4, <4>1, <4>2
    <3>5. \A i \in (first - 1)..(n - 1) : i \in Good
      <4> HIDE DEF Good
      <4>1. \A i \in (first - 1)..((n - 1) - 1) : i \in Good => i + 1 \in Good
        <5>1. \A i \in (first - 1)..((n - 1) - 1) : i \in (first - 1)..(n - 1)
          BY <1>2, <1>3
        <5>. QED  BY <3>4, <5>1
      <4>2. first - 1 \in Int /\ n - 1 \in Int
        BY <1>2, <1>3
      <4>. QED  BY <3>2, <4>1, <4>2, Upwards, Zenon
    <3>6. n - 1 \in (first - 1)..(n - 1) /\ (n - 1) + 1 = n
      BY <1>3, <3>1
    <3>7. PeriodsUpTo(after[n], file[n], width)
      BY <3>3, <3>5, <3>6
    <3>. QED  BY <1>1, <3>7 DEF PeriodsUpTo, rows
  <2>3. CASE ~(\E i \in 1..n : FirstOfPeriod(file[i], width))
    <3>1. first = 1
      BY <1>2, <2>3
    <3> DEFINE Good == {i \in 0..n : /\ Len(after[i].rows) <= 1
                                     /\ i = 0 => Len(after[i].rows) = 0 /\ ~after[i].open
                                     /\ i # 0 /\ i < n => after[i].open}
    <3>2. 0 \in Good
      <4>1. first - 1 = 0
        BY <3>1
      <4>2. after[0] = [rows |-> <<>>, open |-> FALSE]
        BY <1>1, <4>1
      <4> DEFINE none == <<>>
      <4>3. after[0].rows = none /\ after[0].open = FALSE /\ Len(none) = 0
        BY <4>2
      <4> HIDE DEF none
      <4>4. 0 \in 0..n /\ 0 <= 1
        BY <1>3
      <4>. QED  BY <4>3, <4>4
    <3>3. ASSUME NEW i \in 0..(n - 1), i \in Good PROVE i + 1 \in Good
      <4>1. i + 1 \in first..n /\ i + 1 \in 1..n /\ (i + 1) - 1 = i /\ i < n /\ i \in (first - 1)..n /\ i - first + 1 \in Int /\ i + 1 \in 0..n
            /\ i + 1 # 0
        BY <1>3, <3>1
      <4> DEFINE u == file[i + 1]
                 acc == after[i]
                 count == i - first + 1
      <4>2. after[i + 1] = Grouped(acc, pair, u, width) /\ u \in Int
        BY <1>1, <1>3, <4>1
      <4>3. CASE i = 0
        <5>1. LoopKeeps(acc, pair, 0, count)
          <6>1. i < first
            BY <3>1, <4>3
          <6>. QED  BY <1>4, <4>1, <6>1
        <5>3. ~acc.open /\ Len(acc.rows) = 0
          BY <3>3, <4>3
        <5> HIDE DEF u, acc, count
        <5>4. Grouped(acc, pair, u, width).open = TRUE /\ Len(Grouped(acc, pair, u, width).rows) = Len(acc.rows) + 1
          <6>1. Grouped(acc, pair, u, width).open = TRUE
                /\ Grouped(acc, pair, u, width).rows = Append(acc.rows, Opened(pair, u))
            BY <5>3, GroupedOpens
          <6>2. acc.rows \in Seq(FileRows(pair)) /\ Opened(pair, u) \in FileRows(pair)
            BY <4>2, <5>1 DEF LoopKeeps, Opened, FileRows
          <6>. QED  BY <6>1, <6>2, AppendProperties
        <5>5. Len(after[i + 1].rows) <= 1 /\ after[i + 1].open
          BY <4>2, <5>3, <5>4
        <5>. QED  BY <4>1, <5>5
      <4>4. CASE i # 0
        <5>1. i \in 1..n /\ ~(i < first) /\ i \in 1..(n - 1)
          BY <1>3, <3>1, <4>1, <4>4
        <5>2. file[i] \in Int /\ LoopKeeps(acc, pair, file[i], count) /\ file[i] < u
          <6>1. LoopKeeps(acc, pair, file[i], count)
            BY <1>4, <4>1, <5>1
          <6>2. file[i] \in Int /\ file[i] = u - 1
            BY <1>3, <2>1, <5>1
          <6>. QED  BY <4>2, <6>1, <6>2
        <5>3. acc.open /\ Len(acc.rows) <= 1 /\ count \in Int
          BY <3>3, <4>1, <4>4
        <5> DEFINE w == file[i]
        <5> HIDE DEF u, acc, count, w
        <5>4. Grouped(acc, pair, u, width).open = ~LastOfPeriod(u, width) /\ Len(Grouped(acc, pair, u, width).rows) = Len(acc.rows)
          <6>1. w \in Int /\ w < u /\ LoopKeeps(acc, pair, w, count)
            BY <5>2 DEF w
          <6>. QED  BY <4>2, <5>3, <6>1, TurnMerges
        <5>5. Len(after[i + 1].rows) <= 1
          BY <4>2, <5>3, <5>4
        <5>6. ASSUME i + 1 < n PROVE after[i + 1].open
          <6>1. i + 1 \in 1..(n - 1) /\ (i + 1) + 1 \in 1..n
            BY <1>3, <4>1, <5>6
          <6>2. u = file[(i + 1) + 1] - 1
            BY <2>1, <6>1 DEF u
          <6>3. ~FirstOfPeriod(file[(i + 1) + 1], width)
            BY <2>3, <6>1
          <6>4. ~LastOfPeriod(u, width)
            BY <6>2, <6>3 DEF FirstOfPeriod
          <6>. QED  BY <4>2, <5>4, <6>4
        <5>. QED  BY <4>1, <5>5, <5>6
      <4>. QED  BY <4>3, <4>4
    <3>4. \A i \in 0..n : i \in Good
      <4> HIDE DEF Good
      <4>1. \A i \in 0..(n - 1) : i \in Good => i + 1 \in Good
        BY <3>3
      <4>2. 0 \in Int /\ n \in Int
        BY <1>3
      <4>. QED  BY <3>2, <4>1, <4>2, Upwards, Zenon
    <3>5. n \in 0..n
      BY <1>3
    <3>6. Len(after[n].rows) <= 1
      BY <3>4, <3>5
    <3>7. Len(rows) <= 1 /\ Len(rows) \in Nat
      <4>1. Len(rows) <= 1
        BY <1>1, <3>6 DEF rows
      <4>. QED  BY <1>7, <4>1, LenProperties
    <3>8. 1..(Len(rows) - 1) = {}
      BY <3>7
    <3>. QED  BY <3>8
  <2>. QED  BY <2>2, <2>3
<1>. QED  BY <1>7, <1>8, <1>9 DEF first, n, rows

-----------------------------------------------------------------------------
(* What the pairs' subscriptions send *)

\* A candle as a feed makes it: from a stream, or from a file.
Candles == [pair : Int, time : Int, n : Int, complete : BOOLEAN]
             \cup [pair : Int, time : Int, n : Int, complete : BOOLEAN, last : Int, volume : Int]

\* Candles have the fields that Less compares.
LEMMA CandlesComparable ==
  /\ Comparable(Candles)
  /\ \A c \in Candles : c.time \in Int /\ c.pair \in Int /\ c.complete \in BOOLEAN
BY DEF Comparable, Candles

\* The file of a pair is what the download promises.
LEMMA FileOfIs ==
  ASSUME NEW d \in Downloads
  PROVE  FileOf(d) \in Seq(Int) /\ Increasing(FileOf(d)) /\ FileIsWhole(d)
<1>1. d.history \in Histories /\ d.end \in Ends
  BY DEF Downloads
<1>2. d.history \in Seq(Int) /\ Increasing(d.history) /\ From \in Int /\ d.end \in Int /\ From < d.end
  BY <1>1, FlowAssumption
<1>3. /\ Downloaded(d.history, From, d.end) \in Seq(Int) /\ Increasing(Downloaded(d.history, From, d.end))
      /\ Downloaded(d.history, From, d.end) \in {Window(d.history, From, d.end), Window(d.history, From, d.end - 1)}
  <2> DEFINE h == d.history
             end == d.end
  <2>1. h \in Seq(Int) /\ Increasing(h) /\ From \in Int /\ end \in Int /\ From < end
    BY <1>2
  <2> HIDE DEF h, end
  <2>2. /\ Downloaded(h, From, end) \in Seq(Int) /\ Increasing(Downloaded(h, From, end))
        /\ Downloaded(h, From, end) \in {Window(h, From, end), Window(h, From, end - 1)}
    BY <2>1, DownloadedIs
  <2>. QED  BY <2>2 DEF h, end
<1>4. MissingCandles(d.history, From, d.end)
        = Cardinality((From .. Last(BatchStarts(From, d.end)) - 1) \ Range(d.history))
  <2> DEFINE h == d.history
             end == d.end
  <2>1. h \in Seq(Int) /\ Increasing(h) /\ From \in Int /\ end \in Int /\ From < end
    BY <1>2
  <2> HIDE DEF h, end
  <2>2. MissingCandles(h, From, end) = Cardinality((From .. Last(BatchStarts(From, end)) - 1) \ Range(h))
    BY <2>1, MissingIs
  <2>. QED  BY <2>2 DEF h, end
<1>5. FileIsWhole(d)
  BY <1>3, <1>4, Zenon DEF FileIsWhole, FileOf
<1>. QED  BY <1>3, <1>5 DEF FileOf

\* Every entry of a subscription is of its pair; no two are the same, nor are
\* two complete ones of one time, and a file's are complete and in order.
IsSubscription(sub, p) ==
  /\ sub \in Seq(Candles) /\ IsDistinct(sub)
  /\ \A i \in 1..Len(sub) : sub[i].pair = p
  /\ \A i, j \in 1..Len(sub) : sub[i].complete /\ sub[j].complete /\ sub[i].time = sub[j].time => i = j

FromFile(sub) ==
  /\ \A i \in 1..Len(sub) : sub[i].complete
  /\ \A i, j \in 1..Len(sub) : i < j => sub[i].time < sub[j].time

\* What a live exchange streams is a subscription of its pair.
LEMMA StreamIs ==
  ASSUME NEW p \in Int
  PROVE  IsSubscription(Stream(p), p)
<1> DEFINE s == Stream(p)
           n == Len(Ticks)
<1>1. /\ n \in Nat /\ DOMAIN Ticks = 1..n /\ Warmup \in Nat
      /\ \A k \in 1..n : Ticks[k] \in [time : Nat \ {0}, n : Nat]
      /\ \A i, j \in 1..n : Ticks[i] = Ticks[j] => i = j
  <2>1. Ticks \in Seq([time : Nat \ {0}, n : Nat]) /\ IsInjective(Ticks) /\ Warmup \in Nat
    BY FlowAssumption
  <2>2. n \in Nat /\ DOMAIN Ticks = 1..n /\ \A k \in 1..n : Ticks[k] \in [time : Nat \ {0}, n : Nat]
    BY <2>1, LenProperties, ElementOfSeq
  <2>. QED  BY <2>1, <2>2 DEF IsInjective
<1>2. \A k \in 1..n : Ticks[k].time \in Nat /\ Ticks[k].n \in Nat /\ Ticks[k] = [time |-> Ticks[k].time, n |-> Ticks[k].n]
  BY <1>1
<1>3. s = [k \in 1..n |-> Streamed(p, Warmup + Ticks[k].time, Ticks[k].n)]
  BY <1>1, Zenon DEF Stream
<1> HIDE DEF s, n
<1>4. \A k \in 1..n : s[k] = Streamed(p, Warmup + Ticks[k].time, Ticks[k].n)
  BY <1>3
<1>5. \A t \in Int, m \in Int : /\ Streamed(p, t, m) \in Candles /\ Streamed(p, t, m).pair = p
                                /\ Streamed(p, t, m).time = t /\ Streamed(p, t, m).n = m
                                /\ Streamed(p, t, m).complete = (m = 2)
  <2>1. SUFFICES ASSUME NEW t \in Int, NEW m \in Int
                 PROVE  /\ Streamed(p, t, m) \in Candles /\ Streamed(p, t, m).pair = p
                        /\ Streamed(p, t, m).time = t /\ Streamed(p, t, m).n = m
                        /\ Streamed(p, t, m).complete = (m = 2)
    OBVIOUS
  <2>2. Streamed(p, t, m) \in Candles
    BY DEF Streamed, Candles
  <2>3. Streamed(p, t, m).pair = p /\ Streamed(p, t, m).time = t /\ Streamed(p, t, m).n = m
    BY DEF Streamed
  <2>4. Streamed(p, t, m).complete = (m = 2)
    BY DEF Streamed
  <2>. QED  BY <2>2, <2>3, <2>4
<1>6. \A k \in 1..n : /\ s[k] \in Candles /\ s[k].pair = p
                      /\ s[k].time = Warmup + Ticks[k].time /\ s[k].n = Ticks[k].n
                      /\ s[k].complete = (Ticks[k].n = 2)
  <2>1. SUFFICES ASSUME NEW k \in 1..n
                 PROVE  /\ s[k] \in Candles /\ s[k].pair = p
                        /\ s[k].time = Warmup + Ticks[k].time /\ s[k].n = Ticks[k].n
                        /\ s[k].complete = (Ticks[k].n = 2)
    OBVIOUS
  <2> DEFINE t == Warmup + Ticks[k].time
             m == Ticks[k].n
  <2>2. t \in Int /\ m \in Int /\ s[k] = Streamed(p, t, m)
    BY <1>1, <1>2, <1>4
  <2> HIDE DEF t, m
  <2>3. s[k] \in Candles /\ s[k].pair = p /\ s[k].time = t /\ s[k].n = m /\ s[k].complete = (m = 2)
    BY <1>5, <2>2
  <2>. QED  BY <2>3 DEF t, m
<1>7. s \in Seq(Candles) /\ Len(s) = n
  BY <1>1, <1>3, <1>6, IsASeq
<1>8. \A i, j \in 1..n : s[i].time = s[j].time /\ s[i].n = s[j].n => i = j
  <2>1. SUFFICES ASSUME NEW i \in 1..n, NEW j \in 1..n, s[i].time = s[j].time, s[i].n = s[j].n PROVE i = j
    OBVIOUS
  <2>2. Ticks[i].n = Ticks[j].n
    BY <1>6, <2>1
  <2>3. Ticks[i].time = Ticks[j].time
    <3>1. Warmup + Ticks[i].time = Warmup + Ticks[j].time
      BY <1>6, <2>1
    <3>. QED  BY <1>1, <1>2, <3>1
  <2>4. Ticks[i] = Ticks[j]
    BY <1>2, <2>2, <2>3
  <2>. QED  BY <1>1, <2>4
<1>9. \A i, j \in 1..n : s[i].complete /\ s[j].complete /\ s[i].time = s[j].time => i = j
  <2>1. \A k \in 1..n : s[k].complete => s[k].n = 2
    BY <1>6
  <2>. QED  BY <1>8, <2>1
<1>10. IsDistinct(s)
  BY <1>7, <1>8 DEF IsDistinct
<1>. QED  BY <1>6, <1>7, <1>9, <1>10 DEF IsSubscription, s

\* Rows over smaller sets of values are rows.
LEMMA RowsWiden ==
  ASSUME NEW P, NEW S, NEW Z, NEW C, NEW B, P \subseteq S, Z \subseteq S, C \subseteq B, NEW c \in RowsOver(P, S, Z, C)
  PROVE  c \in RowsOver(S, S, S, B)
BY DEF RowsOver

\* What a resampled file sends is a subscription of its pair, complete and in order.
LEMMA FileSubscriptionIs ==
  ASSUME NEW p \in Int, NEW d \in Downloads, NEW r \in Nat \ {0}
  PROVE  IsSubscription(Resample(p, FileOf(d), r), p) /\ FromFile(Resample(p, FileOf(d), r))
<1> DEFINE file == FileOf(d)
           s == Resample(p, file, r)
<1>1. file \in Seq(Int) /\ Increasing(file)
  BY FileOfIs
<1> HIDE DEF file
<1>2. s \in Seq(FileRows(p)) /\ \A j, k \in 1..Len(s) : j < k => s[j].time < s[k].time
  BY <1>1, ResampleIs
<1> HIDE DEF s
<1>3. \A c \in FileRows(p) : c \in Candles /\ c.pair = p /\ c.complete = TRUE /\ c.time \in Int
  <2>1. SUFFICES ASSUME NEW c \in FileRows(p)
                 PROVE  c \in Candles /\ c.pair = p /\ c.complete = TRUE /\ c.time \in Int
    OBVIOUS
  <2>3. c \in RowsOver(Int, Int, Int, BOOLEAN)
    <3> DEFINE P == {p}
               Z == {0}
               C == {TRUE}
               N == Int
               B == BOOLEAN
    <3>1. P \subseteq N /\ Z \subseteq N /\ C \subseteq B
      OBVIOUS
    <3>2. c \in RowsOver(P, N, Z, C)
      BY Zenon DEF FileRows, RowsOver
    <3> HIDE DEF P, Z, C, N, B
    <3>3. c \in RowsOver(N, N, N, B)
      BY <3>1, <3>2, RowsWiden
    <3>. QED  BY <3>3 DEF N, B
  <2>4. c \in Candles
    BY <2>3, Zenon DEF RowsOver, Candles
  <2>5. c.pair = p /\ c.complete = TRUE /\ c.time \in Int
    BY DEF FileRows
  <2>. QED  BY <2>4, <2>5
<1>4. Len(s) \in Nat /\ \A j \in 1..Len(s) : s[j] \in FileRows(p)
  BY <1>2, LenProperties, ElementOfSeq
<1>5. s \in Seq(Candles)
  <2>1. \A j \in 1..Len(s) : s[j] \in Candles
    BY <1>3, <1>4
  <2>. QED  BY <1>2, <1>4, <2>1, LenProperties, IsASeq
<1>6. \A i, j \in 1..Len(s) : s[i].time = s[j].time => i = j
  <2>1. SUFFICES ASSUME NEW i \in 1..Len(s), NEW j \in 1..Len(s), s[i].time = s[j].time, i # j PROVE FALSE
    OBVIOUS
  <2>2. i < j \/ j < i
    BY <1>4, <2>1
  <2>3. s[i].time \in Int /\ s[j].time \in Int
    BY <1>3, <1>4
  <2>. QED  BY <1>2, <2>1, <2>2, <2>3
<1>7. IsDistinct(s)
  BY <1>6 DEF IsDistinct
<1>8. \A j \in 1..Len(s) : s[j].pair = p /\ s[j].complete
  BY <1>3, <1>4
<1>. QED  BY <1>2, <1>5, <1>6, <1>7, <1>8 DEF IsSubscription, FromFile, s, file

\* How many candles a pair's feed has taken from its subscription.
Sent(p) == Len(Subscription(p)) - Len(source[p])

WasSent(x) == x.pair \in Pairs /\ \E i \in 1..Sent(x.pair) : x = Subscription(x.pair)[i]

FlowTypes ==
  /\ backtest \in BOOLEAN /\ highFrequency \in BOOLEAN
  /\ ratio \in Ratios /\ download \in [Pairs -> Downloads]
  /\ phase \in {"setup", "started", "running", "done"} /\ ready \in Nat
  /\ source \in [Pairs -> Seq(Candles)]
  /\ feed \in [Pairs -> {"off", "open", "closed"}]
  /\ heap \in Seq(Candles) /\ callbacks \in Nat /\ spawned \in Nat /\ early \in Nat
  /\ frame \in [Pairs -> Seq(Candles)] /\ traded \in [Pairs -> Seq(Int)]

\* What the phases of Run imply for the feeds and the callbacks.
PhasesHold ==
  /\ callbacks = IF phase = "running" THEN 1 ELSE 0
  /\ phase = "setup" => \A p \in Pairs : feed[p] = "off" /\ traded[p] = <<>>
  /\ backtest => phase # "running" /\ spawned = 0 /\ sending = {}
  /\ ~backtest => phase # "done" /\ Len(heap) = early + spawned
  /\ backtest => \A p \in Pairs : feed[p] = "closed" => source[p] = <<>>
  /\ phase = "done" => FeedsFinished /\ heap = <<>>

\* What a feed has not sent yet is the end of its subscription.
SourcesAreRests ==
  \A p \in Pairs : /\ Len(source[p]) <= Len(Subscription(p))
                   /\ \A i \in 1..Len(source[p]) : source[p][i] = Subscription(p)[Sent(p) + i]

\* The array is a heap of different candles, and none of them is with a callback.
QueueHolds ==
  /\ IsHeap(heap) /\ IsDistinct(heap)
  /\ \A x \in Queued \cup sending : WasSent(x)
  /\ Queued \cap sending = {}

\* No complete candle still on its way has the time of the last trade.
Untraded(x) == x.complete /\ traded[x.pair] # <<>> => x.time # Last(traded[x.pair])

TradesMoveOn ==
  /\ \A x \in Queued \cup sending : Untraded(x)
  /\ \A p \in Pairs : \A i \in 1..Len(source[p]) : Untraded(source[p][i])
  /\ ~highFrequency => \A p \in Pairs : traded[p] # <<>> =>
       Len(frame[p]) >= Warmup /\ Last(frame[p]).time = Last(traded[p])

\* A backtest takes candles in order once the feeds have ended.
HandledFirst ==
  backtest /\ handled # NoItem => FeedsFinished /\ \A x \in Queued : ~Less(x, handled)

\* A backtest's dataframe is the beginning of the subscription, what was sent
\* after it is queued, and every row from the warm-up's end on was traded on.
RowsAreBeginnings ==
  backtest => \A p \in Pairs :
    /\ Len(frame[p]) <= Sent(p)
    /\ \A i \in 1..Len(frame[p]) : frame[p][i] = Subscription(p)[i]
    /\ \A i \in 1..Sent(p) : Subscription(p)[i] \in Queued <=> i > Len(frame[p])
    /\ \A i \in 1..Len(frame[p]) : Holds(traded[p], frame[p][i].time) <=> i >= Warmup
    /\ \A t \in Range(traded[p]) : \E i \in 1..Len(frame[p]) : frame[p][i].time = t

FlowInv ==
  /\ FlowTypes /\ PhasesHold /\ SourcesAreRests /\ QueueHolds
  /\ TradesMoveOn /\ HandledFirst /\ RowsAreBeginnings

-----------------------------------------------------------------------------
(* The queue's set of candles *)

\* Pairs are numbers.
LEMMA PairsAre == Pairs \subseteq Int
BY FlowAssumption DEF Pairs

\* The set of the queued candles and the array.
LEMMA QueuedIs == heap \in Seq(Candles) => \A x : x \in Queued <=> Holds(heap, x)
<1>1. SUFFICES ASSUME heap \in Seq(Candles), NEW x PROVE x \in Queued <=> Holds(heap, x)
  OBVIOUS
<1>2. DOMAIN heap = 1..Len(heap)
  BY <1>1, LenProperties
<1>. QED  BY <1>2 DEF Queued, Holds

\* The same of the next state.
LEMMA QueuedNext == heap' \in Seq(Candles) => \A x : x \in Queued' <=> Holds(heap', x)
<1>1. SUFFICES ASSUME heap' \in Seq(Candles), NEW x PROVE x \in Queued' <=> Holds(heap', x)
  OBVIOUS
<1>2. DOMAIN heap' = 1..Len(heap')
  BY <1>1, LenProperties
<1>. QED  BY <1>2 DEF Queued, Holds

\* An array left alone holds the same candles.
LEMMA QueuedKept == heap' = heap => Queued' = Queued
BY DEF Queued

\* An empty array holds none.
LEMMA EmptyQueue == heap = <<>> => Queued = {}
BY DEF Queued

\* A candle that is not queued yet joins the queue.
LEMMA Pushes ==
  ASSUME heap \in Seq(Candles), IsHeap(heap), IsDistinct(heap),
         NEW c \in Candles, c \notin Queued, heap' = Pushed(heap, c)
  PROVE  /\ heap' \in Seq(Candles) /\ Len(heap') = Len(heap) + 1
         /\ IsHeap(heap') /\ IsDistinct(heap')
         /\ Queued' = Queued \cup {c}
<1>1. ~Holds(heap, c)
  BY QueuedIs
<1>2. /\ Pushed(heap, c) \in Seq(Candles) /\ Len(Pushed(heap, c)) = Len(heap) + 1
      /\ IsHeap(Pushed(heap, c)) /\ IsDistinct(Pushed(heap, c))
      /\ \A x : Holds(Pushed(heap, c), x) <=> x = c \/ Holds(heap, x)
  BY <1>1, PushKeepsHeap, CandlesComparable
<1>3. heap' \in Seq(Candles) /\ \A x : Holds(heap', x) <=> x = c \/ Holds(heap, x)
  BY <1>2, Zenon
<1>4. \A x : x \in Queued' <=> x = c \/ x \in Queued
  BY <1>3, QueuedIs, QueuedNext
<1>. QED  BY <1>2, <1>4

\* Nothing queued is smaller than the first item.
LEMMA FirstIsSmallest ==
  ASSUME heap \in Seq(Candles), IsHeap(heap), heap # <<>>
  PROVE  heap[1] \in Queued /\ heap[1] \in Candles /\ \A x \in Queued : ~Less(x, heap[1])
<1>1. Len(heap) \in Nat /\ Len(heap) # 0 /\ \A i \in 1..Len(heap) : heap[i] \in Candles
  BY EmptySeq, LenProperties, ElementOfSeq
<1>2. 1 \in 1..Len(heap)
  BY <1>1
<1>3. heap[1] \in Queued
  BY <1>2, QueuedIs DEF Holds
<1>4. ASSUME NEW x \in Queued PROVE ~Less(x, heap[1])
  <2>1. PICK k \in 1..Len(heap) : heap[k] = x
    BY QueuedIs DEF Holds
  <2>2. NotAfter(heap[1], heap[k])
    BY HeapTop, CandlesComparable
  <2>. QED  BY <2>1, <2>2 DEF NotAfter
<1>. QED  BY <1>1, <1>2, <1>3, <1>4

\* Pop takes the first item.
LEMMA Pops ==
  ASSUME heap \in Seq(Candles), IsHeap(heap), IsDistinct(heap), heap # <<>>, heap' = Popped(heap)
  PROVE  /\ heap' \in Seq(Candles) /\ Len(heap') = Len(heap) - 1
         /\ IsHeap(heap') /\ IsDistinct(heap')
         /\ Queued' = Queued \ {heap[1]}
<1>1. /\ Popped(heap) \in Seq(Candles) /\ Len(Popped(heap)) = Len(heap) - 1
      /\ IsHeap(Popped(heap)) /\ IsDistinct(Popped(heap))
      /\ \A x : Holds(Popped(heap), x) <=> x # heap[1] /\ Holds(heap, x)
  BY PopKeepsHeap, CandlesComparable
<1>2. heap' \in Seq(Candles) /\ \A x : Holds(heap', x) <=> x # heap[1] /\ Holds(heap, x)
  BY <1>1, Zenon
<1>3. \A x : x \in Queued' <=> x # heap[1] /\ x \in Queued
  BY <1>2, QueuedIs, QueuedNext
<1>. QED  BY <1>1, <1>3

-----------------------------------------------------------------------------
(* Subscriptions and what was sent of them *)

\* Both kinds of subscription, as the bot is configured.
LEMMA SubscriptionIs ==
  ASSUME backtest \in BOOLEAN, ratio \in Ratios, download \in [Pairs -> Downloads], NEW p \in Pairs
  PROVE  IsSubscription(Subscription(p), p) /\ (backtest => FromFile(Subscription(p)))
<1>1. p \in Int /\ ratio \in Nat \ {0} /\ download[p] \in Downloads
  BY PairsAre, FlowAssumption
<1>2. CASE backtest
  <2> DEFINE d == download[p]
             r == ratio
  <2>1. d \in Downloads /\ r \in Nat \ {0} /\ Subscription(p) = Resample(p, FileOf(d), r)
    BY <1>1, <1>2, Zenon DEF Subscription
  <2> HIDE DEF d, r
  <2>2. IsSubscription(Resample(p, FileOf(d), r), p) /\ FromFile(Resample(p, FileOf(d), r))
    BY <1>1, <2>1, FileSubscriptionIs
  <2>. QED  BY <2>1, <2>2
<1>3. CASE ~backtest
  <2>1. Subscription(p) = Stream(p)
    BY <1>3, Zenon DEF Subscription
  <2>. QED  BY <1>1, <1>3, <2>1, StreamIs
<1>. QED  BY <1>2, <1>3

\* Subscriptions depend on the configuration alone.
LEMMA SubscriptionKept == UNCHANGED configVars => \A p : Subscription(p)' = Subscription(p)
BY DEF configVars, Subscription

\* The numbers and candles that the invariant speaks of.
LEMMA PairIs ==
  ASSUME FlowTypes, SourcesAreRests, NEW p \in Pairs
  PROVE  /\ p \in Int /\ IsSubscription(Subscription(p), p)
         /\ Len(Subscription(p)) \in Nat /\ Len(source[p]) \in Nat
         /\ Sent(p) \in Nat /\ Sent(p) + Len(source[p]) = Len(Subscription(p))
         /\ \A i \in 1..Len(Subscription(p)) : Subscription(p)[i] \in Candles /\ Subscription(p)[i].pair = p
         /\ source[p] \in Seq(Candles)
<1> DEFINE s == Subscription(p)
           rest == source[p]
<1>1. p \in Int /\ IsSubscription(s, p)
  BY PairsAre, SubscriptionIs DEF FlowTypes
<1>2. rest \in Seq(Candles) /\ s \in Seq(Candles) /\ \A i \in 1..Len(s) : s[i].pair = p
  BY <1>1 DEF IsSubscription, FlowTypes
<1>3. Len(s) \in Nat /\ Len(rest) \in Nat /\ Len(rest) <= Len(s) /\ \A i \in 1..Len(s) : s[i] \in Candles
  BY <1>2, LenProperties, ElementOfSeq DEF SourcesAreRests
<1>4. Sent(p) = Len(s) - Len(rest)
  BY DEF Sent
<1> HIDE DEF s, rest
<1>5. Sent(p) \in Nat /\ Sent(p) + Len(rest) = Len(s)
  BY <1>3, <1>4
<1>. QED  BY <1>1, <1>2, <1>3, <1>5 DEF s, rest

\* A candle that was sent is a candle of one of the pairs.
LEMMA SentIs ==
  ASSUME FlowTypes, SourcesAreRests, NEW x, WasSent(x)
  PROVE  x \in Candles /\ x.pair \in Pairs
<1>1. x.pair \in Pairs
  BY DEF WasSent
<1>2. PICK i \in 1..Sent(x.pair) : x = Subscription(x.pair)[i]
  BY DEF WasSent
<1> DEFINE p == x.pair
<1>3. p \in Pairs /\ i \in 1..Sent(p) /\ x = Subscription(p)[i]
  BY <1>1, <1>2
<1> HIDE DEF p
<1>4. i \in 1..Len(Subscription(p))
  BY <1>3, PairIs
<1>. QED  BY <1>1, <1>3, <1>4, PairIs
\* A feed that takes nothing has sent as many as before.
LEMMA Kept ==
  ASSUME UNCHANGED configVars, NEW p, source'[p] = source[p]
  PROVE  Sent(p)' = Sent(p)
<1>1. Subscription(p)' = Subscription(p)
  BY SubscriptionKept
<1>. QED  BY <1>1 DEF Sent

\* A pair's feed takes its next candle.
Takes(p) ==
  /\ source[p] # <<>>
  /\ source' = [source EXCEPT ![p] = Tail(@)]
  /\ UNCHANGED configVars

\* The candle that a feed takes is the next of its subscription.
LEMMA TakesNext ==
  ASSUME FlowTypes, SourcesAreRests, NEW p \in Pairs, Takes(p)
  PROVE  LET c == Head(source[p]) IN
         /\ c = source[p][1] /\ Len(source[p]) \in Nat \ {0}
         /\ c \in Candles /\ c.pair = p /\ ~WasSent(c)
         /\ Sent(p) + 1 \in 1..Len(Subscription(p)) /\ c = Subscription(p)[Sent(p) + 1]
         /\ source'[p] \in Seq(Candles) /\ Len(source'[p]) = Len(source[p]) - 1
         /\ \A i \in 1..Len(source'[p]) : source'[p][i] = source[p][i + 1]
         /\ Sent(p)' = Sent(p) + 1
         /\ \A q \in Pairs \ {p} : source'[q] = source[q] /\ Sent(q)' = Sent(q)
<1> DEFINE c == Head(source[p])
           rest == source[p]
           s == Subscription(p)
           n == Sent(p)
<1>1. /\ IsSubscription(s, p) /\ Len(s) \in Nat /\ Len(rest) \in Nat /\ n \in Nat
      /\ n + Len(rest) = Len(s)
      /\ \A i \in 1..Len(s) : s[i] \in Candles /\ s[i].pair = p
      /\ rest \in Seq(Candles)
  BY PairIs
<1>2. rest # <<>> /\ source' = [source EXCEPT ![p] = Tail(rest)] /\ c = Head(rest)
  BY DEF Takes
<1>3. \A i \in 1..Len(rest) : rest[i] = s[n + i]
  BY DEF SourcesAreRests
<1>4. source \in [Pairs -> Seq(Candles)]
  BY DEF FlowTypes
<1>5. s' = s
  BY SubscriptionKept DEF Takes
<1>6. source'[p] = Tail(rest) /\ \A q \in Pairs \ {p} : source'[q] = source[q]
  BY <1>2, <1>4
<1>7. n' = Len(s) - Len(source'[p])
  BY <1>5 DEF Sent
<1>8. \A q \in Pairs \ {p} : Sent(q)' = Sent(q)
  <2>1. UNCHANGED configVars
    BY DEF Takes
  <2>. QED  BY <1>6, <2>1, Kept
<1>9. WasSent(c) => \E i \in 1..Sent(c.pair) : c = Subscription(c.pair)[i]
  BY DEF WasSent
<1> HIDE DEF c, rest, s
<1>10. Len(rest) # 0 /\ c = rest[1]
  BY <1>1, <1>2, EmptySeq
<1>11. /\ Tail(rest) \in Seq(Candles) /\ Len(Tail(rest)) = Len(rest) - 1
       /\ \A i \in 1..(Len(rest) - 1) : Tail(rest)[i] = rest[i + 1]
  BY <1>1, <1>2, HeadTailProperties, <1>10
<1>12. n + 1 \in 1..Len(s) /\ c = s[n + 1] /\ c \in Candles /\ c.pair = p
  <2> DEFINE l == Len(rest)
             k == Len(s)
  <2>1. l \in Nat /\ l # 0 /\ k \in Nat /\ n \in Nat /\ n + l = k /\ 1 \in 1..l
    BY <1>1, <1>10
  <2> HIDE DEF l, k, n
  <2>2. n + 1 \in 1..k
    BY <2>1
  <2>3. c = s[n + 1]
    BY <1>3, <1>10, <2>1 DEF l
  <2>. QED  BY <2>2, <2>3, <1>1 DEF k
<1>13. ~WasSent(c)
  <2>1. SUFFICES ASSUME NEW i \in 1..n, c = s[i] PROVE FALSE
    BY <1>9, <1>12, Zenon DEF s
  <2>2. i \in 1..Len(s) /\ i # n + 1 /\ s[i] = s[n + 1]
    BY <1>1, <1>12, <2>1
  <2>. QED  BY <1>1, <1>12, <2>2 DEF IsSubscription, IsDistinct
<1>14. n' = n + 1
  <2>1. n' = Len(s) - (Len(rest) - 1)
    BY <1>6, <1>7, <1>11
  <2>. QED  BY <2>1, <1>1
<1>. QED  BY <1>1, <1>6, <1>8, <1>10, <1>11, <1>12, <1>13, <1>14 DEF c, rest, s

\* What had been sent stays sent, the candle too, and the rest is still to come.
LEMMA TakesKeep ==
  ASSUME FlowTypes, SourcesAreRests, NEW p \in Pairs, Takes(p)
  PROVE  /\ source' \in [Pairs -> Seq(Candles)]
         /\ SourcesAreRests'
         /\ \A x : WasSent(x) \/ x = Head(source[p]) => WasSent(x)'
         /\ \A q \in Pairs : \A i \in 1..Len(source'[q]) :
              \E j \in 1..Len(source[q]) : source'[q][i] = source[q][j]
<1> DEFINE c == Head(source[p])
<1>1. /\ c = source[p][1] /\ Len(source[p]) \in Nat \ {0}
      /\ c \in Candles /\ c.pair = p
      /\ Sent(p) + 1 \in 1..Len(Subscription(p)) /\ c = Subscription(p)[Sent(p) + 1]
      /\ source'[p] \in Seq(Candles) /\ Len(source'[p]) = Len(source[p]) - 1
      /\ \A i \in 1..Len(source'[p]) : source'[p][i] = source[p][i + 1]
      /\ Sent(p)' = Sent(p) + 1
      /\ \A q \in Pairs \ {p} : source'[q] = source[q] /\ Sent(q)' = Sent(q)
  BY TakesNext
<1>2. \A q : Subscription(q)' = Subscription(q)
  BY SubscriptionKept DEF Takes
<1>3. \A q \in Pairs : /\ Len(Subscription(q)) \in Nat /\ Len(source[q]) \in Nat /\ Sent(q) \in Nat
                       /\ Len(source[q]) <= Len(Subscription(q)) /\ source[q] \in Seq(Candles)
                       /\ \A i \in 1..Len(source[q]) : source[q][i] = Subscription(q)[Sent(q) + i]
  <2>1. SUFFICES ASSUME NEW q \in Pairs
                 PROVE  /\ Len(Subscription(q)) \in Nat /\ Len(source[q]) \in Nat /\ Sent(q) \in Nat
                        /\ Len(source[q]) <= Len(Subscription(q)) /\ source[q] \in Seq(Candles)
                        /\ \A i \in 1..Len(source[q]) : source[q][i] = Subscription(q)[Sent(q) + i]
    OBVIOUS
  <2>. QED  BY PairIs DEF SourcesAreRests
<1> HIDE DEF c
<1>4. source' \in [Pairs -> Seq(Candles)]
  <2>1. source' = [source EXCEPT ![p] = Tail(source[p])] /\ source \in [Pairs -> Seq(Candles)]
    BY DEF Takes, FlowTypes
  <2>2. \A q \in Pairs : source'[q] \in Seq(Candles)
    BY <1>1, <1>3
  <2>3. source' = [q \in Pairs |-> source'[q]]
    BY <2>1
  <2>. QED  BY <2>2, <2>3, Zenon
<1>5. \A q \in Pairs : /\ Len(source'[q]) <= Len(Subscription(q)')
                       /\ \A i \in 1..Len(source'[q]) : source'[q][i] = Subscription(q)'[Sent(q)' + i]
  <2>1. SUFFICES ASSUME NEW q \in Pairs
                 PROVE  /\ Len(source'[q]) <= Len(Subscription(q))
                        /\ \A i \in 1..Len(source'[q]) : source'[q][i] = Subscription(q)[Sent(q)' + i]
    BY <1>2
  <2>2. CASE q # p
    <3>1. source'[q] = source[q] /\ Sent(q)' = Sent(q)
      BY <1>1, <2>2
    <3>. QED  BY <1>3, <3>1
  <2>3. CASE q = p
    <3> DEFINE l == Len(source[p])
               m == Len(source'[p])
               n == Sent(p)
               k == Len(Subscription(p))
    <3>1. l \in Nat \ {0} /\ m = l - 1 /\ n \in Nat /\ n' = n + 1 /\ l <= k /\ k \in Nat
      BY <1>1, <1>3
    <3>2. /\ \A i \in 1..m : source'[p][i] = source[p][i + 1]
          /\ \A i \in 1..l : source[p][i] = Subscription(p)[n + i]
      BY <1>1, <1>3
    <3>3. m <= k /\ \A i \in 1..m : i + 1 \in 1..l /\ n + (i + 1) = n' + i
      <4> DEFINE u == n'
      <4>1. u = n + 1
        BY <3>1
      <4> HIDE DEF u, l, m, k, n
      <4>2. m <= k /\ \A i \in 1..m : i + 1 \in 1..l /\ n + (i + 1) = u + i
        BY <3>1, <4>1
      <4>. QED  BY <4>2 DEF u
    <3>4. \A i \in 1..m : source'[p][i] = Subscription(p)[n' + i]
      <4>1. SUFFICES ASSUME NEW i \in 1..m PROVE source'[p][i] = Subscription(p)[n' + i]
        OBVIOUS
      <4>2. source'[p][i] = source[p][i + 1]
        BY <3>2
      <4>3. source[p][i + 1] = Subscription(p)[n + (i + 1)]
        BY <3>2, <3>3
      <4>. QED  BY <4>2, <4>3, <3>3
    <3>. QED  BY <2>3, <3>3, <3>4
  <2>. QED  BY <2>2, <2>3
<1>6. SourcesAreRests'
  BY <1>5 DEF SourcesAreRests
<1>7. \A q \in Pairs : \A i \in 1..Sent(q) : i \in 1..Sent(q)'
  <2>1. SUFFICES ASSUME NEW q \in Pairs, NEW i \in 1..Sent(q) PROVE i \in 1..Sent(q)'
    OBVIOUS
  <2>2. CASE q # p
    BY <1>1, <2>2
  <2>3. CASE q = p
    <3> DEFINE n == Sent(p)
               m == Sent(p)'
    <3>1. n \in Nat /\ m = n + 1 /\ i \in 1..n
      BY <1>1, <1>3, <2>3
    <3> HIDE DEF n, m
    <3>2. i \in 1..m
      BY <3>1
    <3>. QED  BY <2>3, <3>2 DEF m
  <2>. QED  BY <2>2, <2>3
<1>8. ASSUME NEW x, WasSent(x) PROVE WasSent(x)'
  <2>1. PICK i \in 1..Sent(x.pair) : x = Subscription(x.pair)[i]
    BY <1>8 DEF WasSent
  <2>2. x.pair \in Pairs
    BY <1>8 DEF WasSent
  <2>3. i \in 1..Sent(x.pair)' /\ x = Subscription(x.pair)'[i]
    BY <1>2, <1>7, <2>1, <2>2
  <2>. QED  BY <2>2, <2>3 DEF WasSent
<1>9. ASSUME NEW x, x = c PROVE WasSent(x)'
  <2>1. Sent(p)' \in 1..Sent(p)' /\ c = Subscription(p)'[Sent(p)']
    <3> DEFINE m == Sent(p)'
               n == Sent(p)
    <3>1. m = n + 1 /\ n \in Nat
      BY <1>1, <1>3
    <3> HIDE DEF m, n
    <3>2. m \in 1..m
      BY <3>1
    <3>3. c = Subscription(p)[m]
      BY <1>1, <3>1 DEF n
    <3>. QED  BY <1>2, <3>2, <3>3 DEF m
  <2>2. x.pair = p /\ p \in Pairs
    BY <1>1, <1>9
  <2>. QED  BY <1>9, <2>1, <2>2 DEF WasSent
<1>10. \A q \in Pairs : \A i \in 1..Len(source'[q]) :
              \E j \in 1..Len(source[q]) : source'[q][i] = source[q][j]
  <2>1. SUFFICES ASSUME NEW q \in Pairs, NEW i \in 1..Len(source'[q])
                 PROVE  \E j \in 1..Len(source[q]) : source'[q][i] = source[q][j]
    OBVIOUS
  <2>2. CASE q # p
    BY <1>1, <2>2
  <2>3. CASE q = p
    <3> DEFINE l == Len(source[p])
               m == Len(source'[p])
    <3>1. l \in Nat \ {0} /\ m = l - 1 /\ i \in 1..m
      BY <1>1, <2>3
    <3> HIDE DEF l, m
    <3>2. i + 1 \in 1..l
      BY <3>1
    <3>. QED  BY <1>1, <2>3, <3>2 DEF l, m
  <2>. QED  BY <2>2, <2>3
<1>. QED  BY <1>4, <1>6, <1>8, <1>9, <1>10 DEF c

-----------------------------------------------------------------------------
(* The steps *)

\* While no feed takes a candle, nothing more is sent.
LEMMA WasSentKept ==
  ASSUME UNCHANGED <<configVars, source>>
  PROVE  /\ \A p : Subscription(p)' = Subscription(p) /\ Sent(p)' = Sent(p)
         /\ \A x : WasSent(x)' <=> WasSent(x)
<1>1. \A p : Subscription(p)' = Subscription(p)
  BY SubscriptionKept
<1>2. \A p : Sent(p)' = Sent(p)
  BY <1>1 DEF Sent
<1>. QED  BY <1>1, <1>2 DEF WasSent

\* The parts of the invariant in steps that leave their variables alone.
LEMMA RestsKept ==
  ASSUME UNCHANGED <<configVars, source>>, SourcesAreRests
  PROVE  SourcesAreRests'
BY WasSentKept DEF SourcesAreRests

\* So is the queue,
LEMMA QueueKept ==
  ASSUME UNCHANGED <<configVars, source, heap, sending>>, QueueHolds
  PROVE  QueueHolds'
<1>1. Queued' = Queued
  BY QueuedKept
<1>. QED  BY <1>1, WasSentKept DEF QueueHolds

\* the trades,
LEMMA TradesKept ==
  ASSUME UNCHANGED <<highFrequency, source, heap, sending, frame, traded>>, TradesMoveOn
  PROVE  TradesMoveOn'
<1>1. Queued' = Queued
  BY QueuedKept
<1>2. \A x : Untraded(x)' <=> Untraded(x)
  BY DEF Untraded
<1>3. \A p \in Pairs : \A i \in 1..Len(source[p]) : Untraded(source[p][i])'
  BY <1>2 DEF TradesMoveOn
<1>. QED  BY <1>1, <1>2 DEF TradesMoveOn, Untraded

\* and the rows of a backtest.
LEMMA RowsKept ==
  ASSUME UNCHANGED <<configVars, source, heap, frame, traded>>, RowsAreBeginnings
  PROVE  RowsAreBeginnings'
<1>1. Queued' = Queued
  BY QueuedKept
<1>2. backtest' = backtest /\ frame' = frame /\ traded' = traded
  BY DEF configVars
<1>. QED  BY <1>1, <1>2, WasSentKept DEF RowsAreBeginnings

\* A step that moves no candle.
LEMMA Unmoved ==
  ASSUME FlowInv, UNCHANGED <<configVars, source, heap, sending, frame, traded, handled>>,
         FeedsFinished => FeedsFinished'
  PROVE  SourcesAreRests' /\ QueueHolds' /\ TradesMoveOn' /\ HandledFirst' /\ RowsAreBeginnings'
<1>1. SourcesAreRests' /\ QueueHolds' /\ RowsAreBeginnings'
  BY RestsKept, QueueKept, RowsKept DEF FlowInv
<1>2. TradesMoveOn'
  BY TradesKept DEF FlowInv, configVars
<1>3. HandledFirst'
  <2>1. Queued' = Queued /\ backtest' = backtest
    BY QueuedKept DEF configVars
  <2>. QED  BY <2>1 DEF FlowInv, HandledFirst
<1>. QED  BY <1>1, <1>2, <1>3

\* Run sets up a pair before any candle flows.
LEMMA SetUpKeeps == FlowInv /\ SetUp => FlowInv'
<1>1. SUFFICES ASSUME FlowInv, SetUp PROVE FlowInv'
  OBVIOUS
<1>2. UNCHANGED <<configVars, source, heap, sending, traded, handled, phase, feed, callbacks, spawned, early>>
  BY <1>1 DEF SetUp, queueVars
<1>3. phase = "setup" /\ ready' = ready + 1
  BY <1>1 DEF SetUp
<1>4. FlowTypes /\ PhasesHold
  BY <1>1 DEF FlowInv
<1>5. frame' \in [Pairs -> Seq(Candles)] /\ (backtest => frame' = frame)
  <2>1. CASE backtest
    BY <1>1, <1>4, <2>1 DEF SetUp, FlowTypes
  <2>2. CASE ~backtest
    <3> DEFINE k == ready'
    <3>1. frame' = [frame EXCEPT ![k] = WarmupCandles(k)]
      BY <1>1, <2>2 DEF SetUp
    <3>2. k \in Int
      BY <1>3, <1>4 DEF FlowTypes
    <3> HIDE DEF k
    <3>3. WarmupCandles(k) \in Seq(Candles)
      <4>1. Warmup \in Nat
        BY FlowAssumption
      <4>2. \A t \in 1..Warmup : Streamed(k, t, 2) \in Candles
        BY <3>2 DEF Streamed, Candles
      <4>. QED  BY <4>1, <4>2, IsASeq DEF WarmupCandles
    <3>. QED  BY <1>4, <2>2, <3>1, <3>3 DEF FlowTypes
  <2>. QED  BY <2>1, <2>2
<1>6. FlowTypes'
  BY <1>2, <1>3, <1>4, <1>5 DEF FlowTypes, configVars
<1>7. PhasesHold'
  <2>1. FeedsFinished' <=> FeedsFinished
    BY <1>2 DEF FeedsFinished
  <2>. QED  BY <1>2, <1>4, <2>1 DEF PhasesHold, configVars
<1>8. SourcesAreRests' /\ QueueHolds'
  BY <1>1, <1>2, RestsKept, QueueKept DEF FlowInv
<1>9. Queued' = Queued
  BY <1>2, QueuedKept
<1>10. HandledFirst'
  <2>1. FeedsFinished' <=> FeedsFinished
    BY <1>2 DEF FeedsFinished
  <2>. QED  BY <1>1, <1>2, <1>9, <2>1 DEF FlowInv, HandledFirst, configVars
<1>11. TradesMoveOn'
  <2>1. \A p \in Pairs : traded[p] = <<>>
    BY <1>3, <1>4 DEF PhasesHold
  <2>2. \A x : Untraded(x)' <=> Untraded(x)
    BY <1>2 DEF Untraded
  <2>3. \A p \in Pairs : \A i \in 1..Len(source[p]) : Untraded(source[p][i])'
    BY <1>1, <1>2, <2>2 DEF FlowInv, TradesMoveOn
  <2>4. /\ \A x \in Queued' \cup sending' : Untraded(x)'
        /\ \A p \in Pairs : \A i \in 1..Len(source'[p]) : Untraded(source[p][i])'
    BY <1>1, <1>2, <1>9, <2>2, <2>3 DEF FlowInv, TradesMoveOn
  <2>. QED  BY <1>2, <2>1, <2>4 DEF TradesMoveOn, Untraded
<1>12. RowsAreBeginnings'
  <2>1. backtest => frame' = frame /\ backtest' = backtest
    BY <1>2, <1>5 DEF configVars
  <2>2. ~backtest => ~backtest'
    BY <1>2 DEF configVars
  <2>3. CASE backtest
    BY <1>1, <1>2, <2>1, <2>3, RowsKept DEF FlowInv
  <2>. QED  BY <2>2, <2>3 DEF RowsAreBeginnings
<1>. QED  BY <1>6, <1>7, <1>8, <1>10, <1>11, <1>12 DEF FlowInv

\* The feeds start.
LEMMA StartFeedsKeeps == FlowInv /\ StartFeeds => FlowInv'
<1>1. SUFFICES ASSUME FlowInv, StartFeeds PROVE FlowInv'
  OBVIOUS
<1>2. UNCHANGED <<configVars, source, heap, sending, frame, traded, handled, ready, callbacks, spawned, early>>
  BY <1>1 DEF StartFeeds, queueVars, stratVars
<1>3. phase = "setup" /\ phase' = "started" /\ feed' = [p \in Pairs |-> "open"]
  BY <1>1 DEF StartFeeds
<1>4. FlowTypes /\ PhasesHold
  BY <1>1 DEF FlowInv
<1>5. FlowTypes'
  BY <1>2, <1>3, <1>4 DEF FlowTypes, configVars
<1>6. PhasesHold'
  BY <1>2, <1>3, <1>4 DEF PhasesHold, configVars
<1>7. FeedsFinished => FeedsFinished'
  <2>1. 1 \in Pairs
    BY FlowAssumption DEF Pairs
  <2>. QED  BY <1>3, <1>4, <2>1 DEF PhasesHold, FeedsFinished
<1>. QED  BY <1>1, <1>2, <1>5, <1>6, <1>7, Unmoved DEF FlowInv

\* The live bot asks for the channel of PopLock.
LEMMA ProcessCandlesKeeps == FlowInv /\ ProcessCandles => FlowInv'
<1>1. SUFFICES ASSUME FlowInv, ProcessCandles PROVE FlowInv'
  OBVIOUS
<1>2. UNCHANGED <<configVars, source, heap, sending, frame, traded, handled, ready, feed, spawned, early>>
  BY <1>1 DEF ProcessCandles, stratVars
<1>3. phase = "started" /\ phase' = "running" /\ callbacks' = callbacks + 1 /\ ~backtest
  BY <1>1 DEF ProcessCandles, PopLock
<1>4. FlowTypes /\ PhasesHold
  BY <1>1 DEF FlowInv
<1>5. FlowTypes'
  BY <1>2, <1>3, <1>4 DEF FlowTypes, configVars
<1>6. PhasesHold'
  BY <1>2, <1>3, <1>4 DEF PhasesHold, configVars
<1>7. FeedsFinished => FeedsFinished'
  BY <1>2 DEF FeedsFinished
<1>. QED  BY <1>1, <1>2, <1>5, <1>6, <1>7, Unmoved DEF FlowInv

\* A feed ends: in a backtest it has sent everything.
LEMMA FeedEndsKeeps == ASSUME NEW p \in Pairs PROVE FlowInv /\ FeedEnds(p) => FlowInv'
<1>1. SUFFICES ASSUME FlowInv, FeedEnds(p) PROVE FlowInv'
  OBVIOUS
<1>2. UNCHANGED <<configVars, source, heap, sending, frame, traded, handled, phase, ready, callbacks, spawned, early>>
  BY <1>1 DEF FeedEnds, queueVars, stratVars
<1>3. feed[p] = "open" /\ (backtest => source[p] = <<>>) /\ feed' = [feed EXCEPT ![p] = "closed"]
  BY <1>1 DEF FeedEnds
<1>4. FlowTypes /\ PhasesHold
  BY <1>1 DEF FlowInv
<1>5. feed' \in [Pairs -> {"off", "open", "closed"}] /\ feed'[p] = "closed" /\ \A q \in Pairs \ {p} : feed'[q] = feed[q]
  BY <1>3, <1>4 DEF FlowTypes
<1>6. FlowTypes'
  BY <1>2, <1>4, <1>5 DEF FlowTypes, configVars
<1>7. FeedsFinished => FeedsFinished'
  BY <1>5 DEF FeedsFinished
<1>8. PhasesHold'
  <2>1. phase # "setup" 
    BY <1>3, <1>4 DEF PhasesHold
  <2>2. backtest => \A q \in Pairs : feed'[q] = "closed" => source[q] = <<>>
    BY <1>3, <1>4, <1>5 DEF PhasesHold
  <2>. QED  BY <1>2, <1>4, <1>7, <2>1, <2>2 DEF PhasesHold, configVars
<1>. QED  BY <1>1, <1>2, <1>6, <1>7, <1>8, Unmoved DEF FlowInv

\* The backtest ends with an empty queue.
LEMMA BacktestEndsKeeps == FlowInv /\ BacktestEnds => FlowInv'
<1>1. SUFFICES ASSUME FlowInv, BacktestEnds PROVE FlowInv'
  OBVIOUS
<1>2. UNCHANGED <<configVars, source, heap, sending, frame, traded, handled, ready, feed, callbacks, spawned, early>>
  BY <1>1 DEF BacktestEnds, queueVars, stratVars
<1>3. phase = "started" /\ phase' = "done" /\ backtest /\ FeedsFinished /\ heap = <<>>
  BY <1>1 DEF BacktestEnds
<1>4. FlowTypes /\ PhasesHold
  BY <1>1 DEF FlowInv
<1>5. FeedsFinished'
  BY <1>2, <1>3 DEF FeedsFinished
<1>6. FlowTypes'
  BY <1>2, <1>3, <1>4 DEF FlowTypes, configVars
<1>7. PhasesHold'
  BY <1>2, <1>3, <1>4, <1>5 DEF PhasesHold, configVars
<1>. QED  BY <1>1, <1>2, <1>5, <1>6, <1>7, Unmoved DEF FlowInv

\* A candle that a feed takes was untraded, and the others are still to come.
LEMMA TakesUntraded ==
  ASSUME FlowInv, NEW p \in Pairs, Takes(p), UNCHANGED traded
  PROVE  /\ Untraded(Head(source[p]))
         /\ \A x : Untraded(x)' <=> Untraded(x)
         /\ \A q \in Pairs : \A i \in 1..Len(source'[q]) : \A x : x = source'[q][i] => Untraded(x)
<1>1. \A q \in Pairs : \A i \in 1..Len(source[q]) : Untraded(source[q][i])
  BY DEF FlowInv, TradesMoveOn
<1>2. /\ \A q \in Pairs : \A i \in 1..Len(source'[q]) :
           \E j \in 1..Len(source[q]) : source'[q][i] = source[q][j]
      /\ Head(source[p]) = source[p][1] /\ Len(source[p]) \in Nat \ {0}
  BY TakesKeep, TakesNext DEF FlowInv
<1>3. Untraded(Head(source[p]))
  <2>1. 1 \in 1..Len(source[p])
    BY <1>2
  <2>. QED  BY <1>1, <1>2, <2>1
<1>4. \A x : Untraded(x)' <=> Untraded(x)
  BY DEF Untraded
<1>. QED  BY <1>1, <1>2, <1>3, <1>4

\* Live, a candle is lost while the connection is down.
LEMMA ReconnectsKeeps == ASSUME NEW p \in Pairs PROVE FlowInv /\ Reconnects(p) => FlowInv'
<1>1. SUFFICES ASSUME FlowInv, Reconnects(p) PROVE FlowInv'
  OBVIOUS
<1>2. /\ UNCHANGED <<configVars, heap, sending, frame, traded, handled, phase, ready, feed, callbacks, spawned, early>>
      /\ ~backtest /\ Takes(p)
  BY <1>1 DEF Reconnects, Takes, queueVars, stratVars
<1>3. FlowTypes /\ PhasesHold /\ SourcesAreRests
  BY <1>1 DEF FlowInv
<1>4. /\ source' \in [Pairs -> Seq(Candles)] /\ SourcesAreRests'
      /\ \A x : WasSent(x) \/ x = Head(source[p]) => WasSent(x)'
  BY <1>2, <1>3, TakesKeep
<1>5. FlowTypes'
  BY <1>2, <1>3, <1>4 DEF FlowTypes, configVars
<1>6. PhasesHold'
  <2>1. FeedsFinished' <=> FeedsFinished
    BY <1>2 DEF FeedsFinished
  <2>. QED  BY <1>2, <1>3, <2>1 DEF PhasesHold, configVars
<1>7. Queued' = Queued
  BY <1>2, QueuedKept
<1>8. QueueHolds'
  BY <1>1, <1>2, <1>4, <1>7 DEF FlowInv, QueueHolds
<1>9. TradesMoveOn'
  <2>1. /\ \A x : Untraded(x)' <=> Untraded(x)
        /\ \A q \in Pairs : \A i \in 1..Len(source'[q]) : \A x : x = source'[q][i] => Untraded(x)
    BY <1>1, <1>2, TakesUntraded
  <2>2. \A q \in Pairs : \A i \in 1..Len(source'[q]) : Untraded(source[q][i])'
    BY <1>2, <2>1 DEF Untraded
  <2>. QED  BY <1>1, <1>2, <1>7, <2>1, <2>2 DEF FlowInv, TradesMoveOn, configVars
<1>10. ~backtest'
  BY <1>2 DEF configVars
<1>. QED  BY <1>4, <1>5, <1>6, <1>8, <1>9, <1>10 DEF FlowInv, HandledFirst, RowsAreBeginnings

\* A feed pushes its next candle, which was in no queue and with no callback.
LEMMA FeedSendsKeeps == ASSUME NEW p \in Pairs PROVE FlowInv /\ FeedSends(p) => FlowInv'
<1>1. SUFFICES ASSUME FlowInv, FeedSends(p) PROVE FlowInv'
  OBVIOUS
<1> DEFINE c == Head(source[p])
<1>2. /\ UNCHANGED <<configVars, sending, frame, traded, handled, phase, ready, feed, callbacks>>
      /\ Takes(p) /\ feed[p] = "open" /\ heap' = Pushed(heap, c)
      /\ spawned' = spawned + callbacks /\ early' = early + (IF callbacks = 0 THEN 1 ELSE 0)
  BY <1>1 DEF FeedSends, Takes, stratVars
<1>3. FlowTypes /\ PhasesHold /\ SourcesAreRests /\ QueueHolds
  BY <1>1 DEF FlowInv
<1>4. /\ source' \in [Pairs -> Seq(Candles)] /\ SourcesAreRests'
      /\ \A x : WasSent(x) \/ x = c => WasSent(x)'
  BY <1>2, <1>3, TakesKeep
<1>5. /\ c \in Candles /\ c.pair = p /\ ~WasSent(c)
      /\ Sent(p) + 1 \in 1..Len(Subscription(p)) /\ c = Subscription(p)[Sent(p) + 1]
      /\ Sent(p)' = Sent(p) + 1
      /\ \A q \in Pairs \ {p} : source'[q] = source[q] /\ Sent(q)' = Sent(q)
  BY <1>2, <1>3, TakesNext
<1>6. Untraded(c) /\ (\A x : Untraded(x)' <=> Untraded(x))
      /\ \A q \in Pairs : \A i \in 1..Len(source'[q]) : \A x : x = source'[q][i] => Untraded(x)
  BY <1>1, <1>2, TakesUntraded
<1>7. c \notin Queued /\ c \notin sending
  BY <1>3, <1>5 DEF QueueHolds
<1>8. /\ heap' \in Seq(Candles) /\ Len(heap') = Len(heap) + 1
      /\ IsHeap(heap') /\ IsDistinct(heap') /\ Queued' = Queued \cup {c}
  <2>1. heap \in Seq(Candles) /\ IsHeap(heap) /\ IsDistinct(heap)
    BY <1>3 DEF FlowTypes, QueueHolds
  <2> HIDE DEF c
  <2>. QED  BY <2>1, <1>2, <1>5, <1>7, Pushes
<1> HIDE DEF c
<1>9. callbacks \in {0, 1} /\ (backtest => callbacks = 0)
  BY <1>3 DEF PhasesHold
<1>10. FlowTypes'
  BY <1>2, <1>3, <1>4, <1>8, <1>9 DEF FlowTypes, configVars
<1>11. PhasesHold'
  <2>1. FeedsFinished' <=> FeedsFinished
    BY <1>2 DEF FeedsFinished
  <2>2. phase # "setup" /\ phase # "done"
    BY <1>2, <1>3 DEF PhasesHold, FeedsFinished
  <2>3. backtest => \A q \in Pairs : feed[q] = "closed" => source'[q] = <<>>
    BY <1>2, <1>3, <1>5 DEF PhasesHold
  <2>4. backtest => spawned' = 0 /\ sending = {}
    BY <1>2, <1>3, <1>9 DEF PhasesHold
  <2>5. ~backtest => Len(heap') = early' + spawned'
    <3>1. spawned \in Nat /\ early \in Nat /\ Len(heap) \in Nat /\ (~backtest => Len(heap) = early + spawned)
      BY <1>3 DEF FlowTypes, PhasesHold
    <3>. QED  BY <1>2, <1>8, <1>9, <3>1
  <2>. QED  BY <1>2, <1>3, <2>2, <2>3, <2>4, <2>5 DEF PhasesHold, configVars
<1>12. QueueHolds'
  <2>1. \A x \in Queued' \cup sending' : WasSent(x)'
    BY <1>2, <1>3, <1>4, <1>8 DEF QueueHolds
  <2>2. Queued' \cap sending' = {}
    BY <1>2, <1>3, <1>7, <1>8 DEF QueueHolds
  <2>. QED  BY <1>8, <2>1, <2>2 DEF QueueHolds
<1>13. TradesMoveOn'
  <2>1. \A q \in Pairs : \A i \in 1..Len(source'[q]) : Untraded(source[q][i])'
    BY <1>2, <1>6 DEF Untraded
  <2>2. \A x \in Queued' \cup sending' : Untraded(x)'
    BY <1>1, <1>2, <1>6, <1>8 DEF FlowInv, TradesMoveOn
  <2>. QED  BY <1>1, <1>2, <2>1, <2>2 DEF FlowInv, TradesMoveOn, configVars
<1>14. HandledFirst'
  <2>1. ~FeedsFinished
    BY <1>2 DEF FeedsFinished
  <2>. QED  BY <1>1, <1>2, <2>1 DEF FlowInv, HandledFirst, configVars
<1>15. RowsAreBeginnings'
  <2>1. SUFFICES ASSUME backtest, NEW q \in Pairs
          PROVE  /\ Len(frame[q]) <= Sent(q)'
                 /\ \A i \in 1..Len(frame[q]) : frame[q][i] = Subscription(q)[i]
                 /\ \A i \in 1..Sent(q)' : Subscription(q)[i] \in Queued' <=> i > Len(frame[q])
                 /\ \A i \in 1..Len(frame[q]) : Holds(traded[q], frame[q][i].time) <=> i >= Warmup
                 /\ \A t \in Range(traded[q]) : \E i \in 1..Len(frame[q]) : frame[q][i].time = t
    <3>1. UNCHANGED configVars /\ backtest' = backtest
      BY <1>2 DEF configVars
    <3>2. \A r : Subscription(r)' = Subscription(r)
      BY <3>1, SubscriptionKept
    <3>. QED  BY <1>2, <3>1, <3>2, Zenon DEF RowsAreBeginnings
  <2>2. /\ Len(frame[q]) <= Sent(q)
        /\ \A i \in 1..Len(frame[q]) : frame[q][i] = Subscription(q)[i]
        /\ \A i \in 1..Sent(q) : Subscription(q)[i] \in Queued <=> i > Len(frame[q])
        /\ \A i \in 1..Len(frame[q]) : Holds(traded[q], frame[q][i].time) <=> i >= Warmup
        /\ \A t \in Range(traded[q]) : \E i \in 1..Len(frame[q]) : frame[q][i].time = t
    BY <1>1, <2>1 DEF FlowInv, RowsAreBeginnings
  <2>3. frame[q] \in Seq(Candles)
    BY <1>3 DEF FlowTypes
  <2> DEFINE s == Subscription(q)
             f == Len(frame[q])
             n == Sent(q)
             l == Len(s)
             m == Sent(q)'
  <2>4. /\ IsSubscription(s, q) /\ l \in Nat /\ f \in Nat /\ n \in Nat /\ n <= l /\ f <= n
        /\ \A i \in 1..l : s[i].pair = q
    <3> DEFINE r == Len(source[q])
    <3>1. /\ IsSubscription(s, q) /\ l \in Nat /\ n \in Nat /\ r \in Nat /\ n + r = l
          /\ \A i \in 1..l : s[i].pair = q
      BY <1>3, PairIs
    <3>2. f \in Nat /\ f <= n
      BY <2>2, <2>3, LenProperties
    <3> HIDE DEF r, s, l, n, f
    <3>. QED  BY <3>1, <3>2
  <2>5. IF q = p THEN m = n + 1 /\ n + 1 \in 1..l /\ c = s[n + 1] ELSE m = n
    BY <1>5
  <2>6. \A i \in 1..n : s[i] \in Queued <=> i > f
    BY <2>2
  <2> HIDE DEF s, f, n, l, m
  <2>7. f <= m
    BY <2>4, <2>5
  <2>8. \A i \in 1..n : s[i] # c
    <3>1. SUFFICES ASSUME NEW i \in 1..n, s[i] = c PROVE FALSE
      OBVIOUS
    <3>2. i \in 1..l /\ i # n + 1
      BY <2>4
    <3>3. q = p
      BY <1>5, <2>4, <3>1, <3>2
    <3>. QED  BY <2>4, <2>5, <3>1, <3>2, <3>3 DEF IsSubscription, IsDistinct, l
  <2>9. \A i \in 1..m : s[i] \in Queued' <=> i > f
    <3>1. SUFFICES ASSUME NEW i \in 1..m PROVE s[i] \in Queued' <=> i > f
      OBVIOUS
    <3>2. CASE i \in 1..n
      BY <1>8, <2>6, <2>8, <3>2
    <3>3. CASE i \notin 1..n
      <4>1. q = p /\ i = n + 1 /\ s[i] = c /\ i > f
        BY <2>4, <2>5, <3>1, <3>3
      <4>. QED  BY <1>8, <4>1
    <3>. QED  BY <3>2, <3>3
  <2>. QED  BY <2>2, <2>7, <2>9 DEF s, f, m
<1>. QED  BY <1>4, <1>10, <1>11, <1>12, <1>13, <1>14, <1>15 DEF FlowInv

-----------------------------------------------------------------------------
(* A candle reaches its pair's controller *)

Accepted(c) ==
  IF c.complete THEN ~IsLateCandle(frame[c.pair], c)
  ELSE highFrequency /\ HasSufficientData(frame[c.pair])

RowsAfter(c) == IF Accepted(c) THEN UpdateDataFrame(frame[c.pair], c) ELSE frame[c.pair]

TradedOn(c) == Accepted(c) /\ c.complete /\ HasSufficientData(RowsAfter(c))

\* The three updates of a handled candle.
LEMMA HandleIs ==
  ASSUME NEW c, Handle(c)
  PROVE  /\ frame' = [frame EXCEPT ![c.pair] = RowsAfter(c)]
         /\ traded' = IF TradedOn(c) THEN [traded EXCEPT ![c.pair] = Append(@, c.time)] ELSE traded
         /\ handled' = c
BY Zenon DEF Handle, TradedOn, RowsAfter, Accepted

\* The dataframe ends with the candle and does not shrink.
LEMMA UpdateIs ==
  ASSUME NEW rows \in Seq(Candles), NEW c \in Candles
  PROVE  /\ UpdateDataFrame(rows, c) \in Seq(Candles)
         /\ Len(UpdateDataFrame(rows, c)) \in Nat \ {0}
         /\ Len(UpdateDataFrame(rows, c)) >= Len(rows)
         /\ Last(UpdateDataFrame(rows, c)) = c
         /\ rows = <<>> \/ Last(rows).time # c.time => UpdateDataFrame(rows, c) = Append(rows, c)
<1>1. ASSUME NEW s \in Seq(Candles)
      PROVE  Append(s, c) \in Seq(Candles) /\ Len(Append(s, c)) = Len(s) + 1 /\ Last(Append(s, c)) = c
             /\ Len(s) \in Nat
  <2>1. Append(s, c) \in Seq(Candles) /\ Len(Append(s, c)) = Len(s) + 1 /\ Append(s, c)[Len(s) + 1] = c /\ Len(s) \in Nat
    BY AppendProperties, LenProperties
  <2>. QED  BY <2>1 DEF Last
<1>2. CASE rows # <<>> /\ Last(rows).time = c.time
  <2>1. Len(rows) \in Nat \ {0}
    BY <1>2, EmptySeq, LenProperties
  <2>2. Front(rows) \in Seq(Candles) /\ Len(Front(rows)) = Len(rows) - 1
    <3> DEFINE n == Len(rows)
    <3>1. n \in Nat \ {0} /\ n - 1 \in Nat /\ n - 1 <= n /\ \A i \in 1..n : rows[i] \in Candles
      BY <2>1, ElementOfSeq
    <3>2. SubSeq(rows, 1, n - 1) \in Seq(Candles) /\ Len(SubSeq(rows, 1, n - 1)) = n - 1
      <4> DEFINE m == n - 1
      <4>1. m \in Nat /\ m <= n
        BY <3>1
      <4> HIDE DEF m
      <4>2. \A i \in 1..m : rows[i] \in Candles
        BY <3>1, <4>1
      <4>3. /\ SubSeq(rows, 1, m) \in Seq(Candles)
            /\ Len(SubSeq(rows, 1, m)) = IF 1 <= m THEN m - 1 + 1 ELSE 0
        BY <4>1, <4>2, SubSeqProperties
      <4>4. m = IF 1 <= m THEN m - 1 + 1 ELSE 0
        BY <4>1
      <4>5. SubSeq(rows, 1, m) \in Seq(Candles) /\ Len(SubSeq(rows, 1, m)) = m
        BY <4>3, <4>4
      <4>. QED  BY <4>5 DEF m
    <3>. QED  BY <3>2 DEF Front
  <2>3. UpdateDataFrame(rows, c) = Append(Front(rows), c)
    BY <1>2 DEF UpdateDataFrame
  <2>. QED  BY <1>1, <1>2, <2>1, <2>2, <2>3
<1>3. CASE ~(rows # <<>> /\ Last(rows).time = c.time)
  <2>1. UpdateDataFrame(rows, c) = Append(rows, c)
    BY <1>3, Zenon DEF UpdateDataFrame
  <2>2. Len(rows) \in Nat /\ Append(rows, c) \in Seq(Candles) /\ Len(Append(rows, c)) = Len(rows) + 1 /\ Last(Append(rows, c)) = c
    BY <1>1
  <2>. QED  BY <2>1, <2>2
<1>. QED  BY <1>2, <1>3

\* Complete candles of one pair differ in time.
LEMMA Apart ==
  ASSUME FlowTypes, SourcesAreRests, NEW c, NEW x, WasSent(c), WasSent(x),
         x # c, x.pair = c.pair, x.complete, c.complete
  PROVE  x.time # c.time
<1> DEFINE p == c.pair
<1>1. p \in Pairs
  BY DEF WasSent
<1>2. PICK i \in 1..Sent(p) : c = Subscription(p)[i]
  BY DEF WasSent
<1>3. PICK j \in 1..Sent(p) : x = Subscription(p)[j]
  BY DEF WasSent
<1> HIDE DEF p
<1>4. i \in 1..Len(Subscription(p)) /\ j \in 1..Len(Subscription(p)) /\ IsSubscription(Subscription(p), p)
  BY <1>1, PairIs
<1>. QED  BY <1>2, <1>3, <1>4 DEF IsSubscription

\* So they do from what the feed has yet to send.
LEMMA ApartFromRest ==
  ASSUME FlowTypes, SourcesAreRests, NEW c, WasSent(c), NEW i \in 1..Len(source[c.pair]),
         source[c.pair][i].complete, c.complete
  PROVE  source[c.pair][i].time # c.time
<1> DEFINE p == c.pair
           n == Sent(p)
           s == Subscription(p)
           l == Len(source[p])
           k == Len(s)
<1>1. p \in Pairs
  BY DEF WasSent
<1>2. PICK j \in 1..n : c = s[j]
  BY DEF WasSent
<1>3. source[p][i] = s[n + i] /\ i \in 1..l
  BY <1>1 DEF SourcesAreRests
<1> HIDE DEF p
<1>4. n \in Nat /\ l \in Nat /\ k \in Nat /\ n + l = k /\ IsSubscription(s, p)
  BY <1>1, PairIs
<1> HIDE DEF n, s, l, k
<1>5. j \in 1..k /\ n + i \in 1..k /\ j # n + i
  BY <1>2, <1>3, <1>4
<1>6. source[p][i].time # c.time
  BY <1>2, <1>3, <1>4, <1>5 DEF IsSubscription, k, p
<1>. QED  BY <1>6 DEF p

\* What handling a candle of the queue or of a callback does to its pair.
LEMMA HandleMoves ==
  ASSUME FlowInv, NEW c \in Queued \cup sending, Handle(c)
  PROVE  LET p == c.pair IN
         /\ p \in Pairs /\ c \in Candles /\ WasSent(c)
         /\ frame' \in [Pairs -> Seq(Candles)] /\ traded' \in [Pairs -> Seq(Int)]
         /\ frame'[p] = RowsAfter(c)
         /\ traded'[p] = IF TradedOn(c) THEN Append(traded[p], c.time) ELSE traded[p]
         /\ \A q \in Pairs \ {p} : frame'[q] = frame[q] /\ traded'[q] = traded[q]
         /\ handled' = c
<1> DEFINE p == c.pair
<1>1. FlowTypes /\ SourcesAreRests /\ WasSent(c)
  BY DEF FlowInv, QueueHolds
<1>2. p \in Pairs /\ c \in Candles
  BY <1>1, SentIs
<1>3. /\ frame' = [frame EXCEPT ![p] = RowsAfter(c)]
      /\ traded' = IF TradedOn(c) THEN [traded EXCEPT ![p] = Append(@, c.time)] ELSE traded
      /\ handled' = c
  BY HandleIs
<1>4. frame \in [Pairs -> Seq(Candles)] /\ traded \in [Pairs -> Seq(Int)] /\ c.time \in Int
  BY <1>1, <1>2, CandlesComparable DEF FlowTypes
<1>5. RowsAfter(c) \in Seq(Candles)
  BY <1>2, <1>4, UpdateIs DEF RowsAfter
<1> HIDE DEF p
<1>6. frame' \in [Pairs -> Seq(Candles)] /\ frame'[p] = RowsAfter(c) /\ \A q \in Pairs \ {p} : frame'[q] = frame[q]
  BY <1>2, <1>3, <1>4, <1>5
<1>7. /\ traded' \in [Pairs -> Seq(Int)]
      /\ traded'[p] = IF TradedOn(c) THEN Append(traded[p], c.time) ELSE traded[p]
      /\ \A q \in Pairs \ {p} : traded'[q] = traded[q]
  <2>1. Append(traded[p], c.time) \in Seq(Int)
    BY <1>2, <1>4, AppendProperties
  <2>. QED  BY <1>2, <1>3, <1>4, <2>1
<1>. QED  BY <1>1, <1>2, <1>3, <1>6, <1>7 DEF p

\* What the controller's step means for the trades of the pair.
LEMMA HandleTrades ==
  ASSUME FlowInv, NEW c \in Queued \cup sending, Handle(c), UNCHANGED <<configVars, source>>,
         Queued' \cup sending' \subseteq (Queued \cup sending) \ {c}
  PROVE  TradesMoveOn'
<1> DEFINE p == c.pair
<1>1. /\ p \in Pairs /\ c \in Candles /\ WasSent(c)
      /\ frame'[p] = RowsAfter(c)
      /\ traded'[p] = IF TradedOn(c) THEN Append(traded[p], c.time) ELSE traded[p]
      /\ \A q \in Pairs \ {p} : frame'[q] = frame[q] /\ traded'[q] = traded[q]
  BY HandleMoves
<1>2. FlowTypes /\ SourcesAreRests /\ QueueHolds /\ TradesMoveOn
  BY DEF FlowInv
<1>3. frame[p] \in Seq(Candles) /\ traded[p] \in Seq(Int) /\ c.time \in Int
  BY <1>1, <1>2, CandlesComparable DEF FlowTypes
<1>4. TradedOn(c) => traded'[p] # <<>> /\ Last(traded'[p]) = c.time /\ c.complete
  <2> DEFINE s == traded[p]
             t == c.time
  <2>1. s \in Seq(Int) /\ t \in Int
    BY <1>3
  <2> HIDE DEF s, t
  <2>2. Append(s, t) \in Seq(Int) /\ Len(Append(s, t)) = Len(s) + 1 /\ Append(s, t)[Len(s) + 1] = t /\ Len(s) \in Nat
    BY <2>1, AppendProperties, LenProperties
  <2>3. Append(s, t) # <<>> /\ Last(Append(s, t)) = t
    BY <2>2, EmptySeq DEF Last
  <2>. QED  BY <1>1, <2>3 DEF TradedOn, s, t
<1> HIDE DEF p
\* An entry on its way is not of the time traded on now.
<1>5. ASSUME NEW x, Untraded(x), x.pair \in Pairs,
             x.pair = p /\ x.complete /\ c.complete => x.time # c.time
      PROVE  Untraded(x)'
  <2>1. SUFFICES ASSUME x.complete, traded'[x.pair] # <<>> PROVE x.time # Last(traded'[x.pair])
    BY DEF Untraded
  <2>2. CASE x.pair = p /\ TradedOn(c)
    BY <1>4, <1>5, <2>1, <2>2
  <2>3. CASE ~(x.pair = p /\ TradedOn(c))
    <3>1. traded'[x.pair] = traded[x.pair]
      BY <1>1, <1>5, <2>3
    <3>. QED  BY <1>5, <2>1, <3>1 DEF Untraded
  <2>. QED  BY <2>2, <2>3
<1>6. ASSUME NEW x \in Queued' \cup sending' PROVE Untraded(x)'
  <2>1. x \in Queued \cup sending /\ x # c
    OBVIOUS
  <2>2. WasSent(x) /\ Untraded(x)
    BY <1>2, <2>1 DEF QueueHolds, TradesMoveOn
  <2>3. x.pair \in Pairs
    BY <2>2 DEF WasSent
  <2>4. x.pair = p /\ x.complete /\ c.complete => x.time # c.time
    BY <1>1, <1>2, <2>1, <2>2, Apart DEF p
  <2>. QED  BY <1>5, <2>2, <2>3, <2>4
<1>7. ASSUME NEW q \in Pairs, NEW i \in 1..Len(source[q]), NEW x, x = source[q][i] PROVE Untraded(x)'
  <2>1. Untraded(x)
    BY <1>2, <1>7 DEF TradesMoveOn
  <2>2. x.pair = q
    <3> DEFINE n == Sent(q)
               s == Subscription(q)
               l == Len(source[q])
               k == Len(s)
    <3>1. x = s[n + i] /\ i \in 1..l
      BY <1>2, <1>7 DEF SourcesAreRests
    <3>2. n \in Nat /\ l \in Nat /\ k \in Nat /\ n + l = k /\ \A j \in 1..k : s[j].pair = q
      BY <1>2, PairIs
    <3> HIDE DEF n, s, l, k
    <3>3. n + i \in 1..k
      BY <3>1, <3>2
    <3>. QED  BY <3>1, <3>2, <3>3
  <2>3. x.pair = p /\ x.complete /\ c.complete => x.time # c.time
    BY <1>1, <1>2, <1>7, <2>2, ApartFromRest DEF p
  <2>. QED  BY <1>5, <2>1, <2>2, <2>3
<1>8. ASSUME ~highFrequency, NEW q \in Pairs, traded'[q] # <<>>
      PROVE  Len(frame'[q]) >= Warmup /\ Last(frame'[q]).time = Last(traded'[q])
  <2>1. traded[q] # <<>> => Len(frame[q]) >= Warmup /\ Last(frame[q]).time = Last(traded[q])
    BY <1>2, <1>8 DEF TradesMoveOn
  <2>2. CASE q # p
    BY <1>1, <1>8, <2>1, <2>2
  <2>3. CASE q = p /\ ~Accepted(c)
    <3>1. frame'[p] = frame[p] /\ traded'[p] = traded[p]
      BY <1>1, <2>3 DEF RowsAfter, TradedOn, p
    <3>. QED  BY <1>8, <2>1, <2>3, <3>1
  <2>4. CASE q = p /\ Accepted(c)
    <3>1. c.complete
      BY <1>8, <2>4 DEF Accepted
    <3>2. frame'[p] = UpdateDataFrame(frame[p], c)
      BY <1>1, <2>4 DEF RowsAfter, p
    <3>3. Last(frame'[p]) = c /\ Len(frame'[p]) >= Len(frame[p]) /\ Len(frame'[p]) \in Nat /\ Len(frame[p]) \in Nat
      BY <1>1, <1>3, <3>2, UpdateIs, LenProperties
    <3>4. CASE TradedOn(c)
      <4>1. Len(frame'[p]) >= Warmup
        BY <1>1, <3>4 DEF TradedOn, HasSufficientData
      <4>. QED  BY <1>4, <2>4, <3>3, <3>4, <4>1
    <3>5. CASE ~TradedOn(c)
      <4>1. ~(Len(frame'[p]) >= Warmup) /\ traded'[p] = traded[p]
        BY <1>1, <2>4, <3>1, <3>5 DEF TradedOn, HasSufficientData
      <4>2. Warmup \in Nat
        BY FlowAssumption
      <4>. QED  BY <1>8, <2>1, <2>4, <3>3, <4>1, <4>2
    <3>. QED  BY <3>4, <3>5
  <2>. QED  BY <2>2, <2>3, <2>4
<1>9. source' = source /\ highFrequency' = highFrequency
  BY DEF configVars
<1>10. \A q \in Pairs : \A i \in 1..Len(source'[q]) : Untraded(source[q][i])'
  <2>1. \A q \in Pairs : \A i \in 1..Len(source[q]) : \A x : x = source'[q][i] => Untraded(x)'
    BY <1>7, <1>9
  <2>. QED  BY <1>9, <2>1 DEF Untraded
<1>. QED  BY <1>6, <1>8, <1>9, <1>10 DEF TradesMoveOn

\* A callback goroutine moves the first candle from the queue to its send.
LEMMA CallbackPopsKeeps == FlowInv /\ CallbackPops => FlowInv'
<1>1. SUFFICES ASSUME FlowInv, CallbackPops PROVE FlowInv'
  OBVIOUS
<1>2. /\ UNCHANGED <<configVars, source, frame, traded, handled, phase, ready, feed, callbacks, early>>
      /\ spawned > 0 /\ spawned' = spawned - 1 /\ heap' = Popped(heap)
      /\ sending' = sending \cup {IF heap = <<>> THEN NoItem ELSE heap[1]}
  BY <1>1 DEF CallbackPops, stratVars
<1>3. FlowTypes /\ PhasesHold /\ SourcesAreRests /\ QueueHolds /\ TradesMoveOn
  BY <1>1 DEF FlowInv
<1>4. heap \in Seq(Candles) /\ spawned \in Nat /\ early \in Nat /\ Len(heap) \in Nat
  BY <1>3, LenProperties DEF FlowTypes
<1>5. ~backtest /\ Len(heap) = early + spawned /\ spawned # 0
  BY <1>2, <1>3, <1>4 DEF PhasesHold
<1>6. heap # <<>>
  <2>1. Len(heap) # 0
    BY <1>4, <1>5
  <2>. QED  BY <1>4, <2>1, EmptySeq
<1> DEFINE c == heap[1]
<1>7. c \in Queued /\ sending' = sending \cup {c}
  BY <1>2, <1>3, <1>4, <1>6, FirstIsSmallest DEF QueueHolds
<1>8. /\ heap' \in Seq(Candles) /\ Len(heap') = Len(heap) - 1
      /\ IsHeap(heap') /\ IsDistinct(heap') /\ Queued' = Queued \ {c}
  BY <1>2, <1>3, <1>4, <1>6, Pops DEF QueueHolds
<1> HIDE DEF c
<1>9. ~backtest' /\ highFrequency' = highFrequency
  BY <1>2, <1>5 DEF configVars
<1>10. FlowTypes'
  <2>1. spawned' \in Nat
    BY <1>2, <1>4
  <2>. QED  BY <1>2, <1>3, <1>8, <2>1 DEF FlowTypes, configVars
<1>11. PhasesHold'
  <2>1. Len(heap') = early' + spawned'
    BY <1>2, <1>4, <1>5, <1>8
  <2>. QED  BY <1>2, <1>3, <1>5, <1>9, <2>1 DEF PhasesHold
<1>12. SourcesAreRests'
  BY <1>2, <1>3, RestsKept
<1>13. QueueHolds'
  <2>1. Queued' \cup sending' = Queued \cup sending /\ Queued' \cap sending' = {}
    BY <1>3, <1>7, <1>8 DEF QueueHolds
  <2>2. \A x \in Queued' \cup sending' : WasSent(x)'
    BY <1>2, <1>3, <2>1, WasSentKept DEF QueueHolds
  <2>. QED  BY <1>8, <2>1, <2>2 DEF QueueHolds
<1>14. TradesMoveOn'
  <2>1. Queued' \cup sending' = Queued \cup sending
    BY <1>7, <1>8
  <2>2. \A x : Untraded(x)' <=> Untraded(x)
    BY <1>2 DEF Untraded
  <2>3. \A p \in Pairs : \A i \in 1..Len(source[p]) : Untraded(source[p][i])'
    BY <1>2, <1>3, <2>2 DEF TradesMoveOn
  <2>4. \A x \in Queued' \cup sending' : Untraded(x)'
    BY <1>3, <2>1, <2>2 DEF TradesMoveOn
  <2>. QED  BY <1>2, <1>3, <1>9, <2>3, <2>4 DEF TradesMoveOn
<1>. QED  BY <1>9, <1>10, <1>11, <1>12, <1>13, <1>14 DEF FlowInv, HandledFirst, RowsAreBeginnings

\* The live loop receives from any of the goroutines.
LEMMA ReceiveKeeps == FlowInv /\ Receive => FlowInv'
<1>1. SUFFICES ASSUME FlowInv, Receive PROVE FlowInv'
  OBVIOUS
<1>2. PICK c \in sending \ {NoItem} : Handle(c) /\ sending' = sending \ {c}
  BY <1>1 DEF Receive
<1>3. /\ UNCHANGED <<configVars, source, heap, phase, ready, feed, callbacks, spawned, early>>
      /\ phase = "running"
  BY <1>1 DEF Receive
<1>4. FlowTypes /\ PhasesHold /\ SourcesAreRests /\ QueueHolds
  BY <1>1 DEF FlowInv
<1>5. ~backtest /\ ~backtest'
  BY <1>3, <1>4 DEF PhasesHold, configVars
<1>6. Queued' = Queued /\ c \in Queued \cup sending
  BY <1>2, <1>3, QueuedKept
<1>7. frame' \in [Pairs -> Seq(Candles)] /\ traded' \in [Pairs -> Seq(Int)]
  BY <1>1, <1>2, <1>6, HandleMoves
<1>8. FlowTypes'
  BY <1>3, <1>4, <1>7 DEF FlowTypes, configVars
<1>9. PhasesHold'
  BY <1>3, <1>4, <1>5 DEF PhasesHold
<1>10. SourcesAreRests'
  BY <1>3, <1>4, RestsKept
<1>11. QueueHolds'
  <2>1. \A x \in Queued' \cup sending' : WasSent(x)'
    BY <1>2, <1>3, <1>4, <1>6, WasSentKept DEF QueueHolds
  <2>2. Queued' \cap sending' = {}
    BY <1>2, <1>4, <1>6 DEF QueueHolds
  <2>. QED  BY <1>3, <1>4, <2>1, <2>2 DEF QueueHolds
<1>12. TradesMoveOn'
  <2>1. Queued' \cup sending' \subseteq (Queued \cup sending) \ {c}
    BY <1>2, <1>4, <1>6 DEF QueueHolds
  <2>. QED  BY <1>1, <1>2, <1>3, <1>6, <2>1, HandleTrades
<1>. QED  BY <1>5, <1>8, <1>9, <1>10, <1>11, <1>12 DEF FlowInv, HandledFirst, RowsAreBeginnings

-----------------------------------------------------------------------------
(* The backtest *)

\* The values of a sequence of times.
LEMMA RangeHolds ==
  ASSUME NEW w \in Seq(Int), NEW t
  PROVE  /\ t \in Range(w) <=> Holds(w, t)
         /\ Holds(w, t) => t \in Int
<1>1. DOMAIN w = 1..Len(w) /\ \A i \in 1..Len(w) : w[i] \in Int
  BY LenProperties, ElementOfSeq
<1>. QED  BY <1>1 DEF Range, Holds

\* One time more.
LEMMA AppendHolds ==
  ASSUME NEW w \in Seq(Int), NEW t \in Int, NEW x
  PROVE  Holds(Append(w, t), x) <=> x = t \/ Holds(w, x)
<1> DEFINE v == Append(w, t)
           n == Len(w)
<1>1. /\ n \in Nat /\ Len(v) = n + 1 /\ v[n + 1] = t
      /\ \A i \in 1..n : v[i] = w[i]
  BY AppendProperties, LenProperties
<1> HIDE DEF v, n
<1>2. /\ n + 1 \in 1..(n + 1)
      /\ \A i \in 1..(n + 1) : i \in 1..n \/ i = n + 1
      /\ \A i \in 1..n : i \in 1..(n + 1)
  BY <1>1
<1>3. Holds(v, x) <=> x = t \/ Holds(w, x)
  BY <1>1, <1>2 DEF Holds, n
<1>. QED  BY <1>3 DEF v

\* In a backtest the first candle of the queue is the next row of its pair: an
\* earlier one would still be queued, and smaller. It is never late.
LEMMA FirstIsNext ==
  ASSUME FlowInv, backtest, heap # <<>>
  PROVE  LET c == heap[1]
             p == c.pair
             f == Len(frame[p]) IN
         /\ p \in Pairs /\ f \in Nat /\ f + 1 \in 1..Sent(p) /\ c = Subscription(p)[f + 1]
         /\ RowsAfter(c) = Append(frame[p], c)
         /\ TradedOn(c) <=> f + 1 >= Warmup
<1> DEFINE c == heap[1]
           p == c.pair
           rows == frame[p]
           f == Len(rows)
           s == Subscription(p)
           n == Sent(p)
           k == Len(s)
           l == Len(source[p])
<1>1. FlowTypes /\ SourcesAreRests /\ QueueHolds /\ RowsAreBeginnings
  BY DEF FlowInv
<1>2. c \in Queued /\ c \in Candles /\ \A x \in Queued : ~Less(x, c)
  BY <1>1, FirstIsSmallest DEF FlowTypes, QueueHolds
<1>3. WasSent(c)
  BY <1>1, <1>2 DEF QueueHolds
<1>4. p \in Pairs /\ \E j \in 1..n : c = s[j]
  BY <1>3 DEF WasSent
<1>5. /\ f <= n
      /\ \A i \in 1..f : rows[i] = s[i]
      /\ \A i \in 1..n : s[i] \in Queued <=> i > f
  BY <1>1, <1>4 DEF RowsAreBeginnings
<1>6. rows \in Seq(Candles) /\ f \in Nat
  BY <1>1, <1>4, LenProperties DEF FlowTypes
<1>7. backtest \in BOOLEAN /\ ratio \in Ratios /\ download \in [Pairs -> Downloads]
  BY <1>1 DEF FlowTypes
<1>8. FromFile(s)
  BY <1>4, <1>7, SubscriptionIs
<1>9. /\ n \in Nat /\ k \in Nat /\ l \in Nat /\ n + l = k
      /\ \A i \in 1..k : s[i] \in Candles /\ s[i].pair = p
  BY <1>1, <1>4, PairIs
<1> HIDE DEF c, p, rows, f, s, n, k, l
<1>10. \A i \in 1..n : i \in 1..k
  BY <1>9
<1>11. \A i \in 1..k : s[i].complete /\ s[i].time \in Int
  BY <1>8, <1>9, CandlesComparable DEF FromFile, k
<1>12. PICK j \in 1..n : c = s[j]
  BY <1>4
<1>13. j > f
  BY <1>2, <1>5, <1>12
<1>14. j = f + 1
  <2>1. SUFFICES ASSUME j # f + 1 PROVE FALSE
    OBVIOUS
  <2>2. f + 1 \in 1..n /\ f + 1 < j /\ f + 1 > f
    BY <1>6, <1>9, <1>12, <1>13, <2>1
  <2>3. s[f + 1] \in Queued
    BY <1>5, <2>2
  <2>4. s[f + 1].time < s[j].time
    BY <1>8, <1>10, <1>12, <2>2 DEF FromFile, k
  <2>5. Less(s[f + 1], c)
    BY <1>12, <2>4 DEF Less
  <2>. QED  BY <1>2, <2>3, <2>5
<1>15. f + 1 \in 1..n /\ c = s[f + 1] /\ c.complete /\ c.time \in Int
  BY <1>10, <1>11, <1>12, <1>14
<1>16. rows = <<>> \/ (rows # <<>> /\ Last(rows).time < c.time /\ Last(rows).time \in Int)
  <2>1. SUFFICES ASSUME rows # <<>> PROVE Last(rows).time < c.time /\ Last(rows).time \in Int
    OBVIOUS
  <2>2. f \in 1..f /\ f \in 1..k /\ f + 1 \in 1..k /\ f < f + 1
    <3>1. f # 0
      BY <1>6, <2>1, EmptySeq DEF f
    <3>. QED  BY <1>5, <1>6, <1>9, <1>15, <3>1
  <2>3. Last(rows) = s[f]
    BY <1>5, <2>2 DEF Last, f
  <2>. QED  BY <1>8, <1>11, <1>15, <2>2, <2>3 DEF FromFile, k
<1>17. Accepted(c)
  <2>1. ~IsLateCandle(rows, c)
    BY <1>15, <1>16 DEF IsLateCandle
  <2>. QED  BY <1>15, <2>1 DEF Accepted, rows, p
<1>18. RowsAfter(c) = Append(rows, c)
  <2>1. rows = <<>> \/ Last(rows).time # c.time
    BY <1>15, <1>16
  <2>2. UpdateDataFrame(rows, c) = Append(rows, c)
    BY <1>2, <1>6, <2>1, UpdateIs
  <2>. QED  BY <1>17, <2>2 DEF RowsAfter, rows, p
<1>19. TradedOn(c) <=> f + 1 >= Warmup
  <2>1. Len(Append(rows, c)) = f + 1
    BY <1>2, <1>6, AppendProperties DEF f
  <2>. QED  BY <1>15, <1>17, <1>18, <2>1 DEF TradedOn, HasSufficientData
<1>. QED  BY <1>4, <1>6, <1>15, <1>18, <1>19 DEF c, p, rows, f, s, n

\* A turn of backtestCandles appends the next row of a pair.
LEMMA BacktestCandleKeeps == FlowInv /\ BacktestCandle => FlowInv'
<1>1. SUFFICES ASSUME FlowInv, BacktestCandle PROVE FlowInv'
  OBVIOUS
<1> DEFINE c == heap[1]
           p == c.pair
           f == Len(frame[p])
<1>2. /\ UNCHANGED <<configVars, source, phase, ready, feed, callbacks, spawned, sending, early>>
      /\ phase = "started" /\ backtest /\ FeedsFinished /\ heap # <<>>
      /\ Handle(c) /\ heap' = Popped(heap)
  BY <1>1 DEF BacktestCandle
<1>3. FlowTypes /\ PhasesHold /\ SourcesAreRests /\ QueueHolds /\ RowsAreBeginnings
  BY <1>1 DEF FlowInv
<1>4. c \in Queued /\ c \in Candles /\ \A x \in Queued : ~Less(x, c)
  BY <1>2, <1>3, FirstIsSmallest DEF FlowTypes, QueueHolds
<1>5. /\ heap' \in Seq(Candles) /\ IsHeap(heap') /\ IsDistinct(heap') /\ Queued' = Queued \ {c}
  BY <1>2, <1>3, Pops DEF FlowTypes, QueueHolds
<1>6. /\ frame' \in [Pairs -> Seq(Candles)] /\ traded' \in [Pairs -> Seq(Int)]
      /\ frame'[p] = RowsAfter(c)
      /\ traded'[p] = IF TradedOn(c) THEN Append(traded[p], c.time) ELSE traded[p]
      /\ \A q \in Pairs \ {p} : frame'[q] = frame[q] /\ traded'[q] = traded[q]
      /\ handled' = c
  BY <1>1, <1>2, <1>4, HandleMoves
<1>7. /\ p \in Pairs /\ f \in Nat /\ f + 1 \in 1..Sent(p) /\ c = Subscription(p)[f + 1]
      /\ RowsAfter(c) = Append(frame[p], c)
      /\ TradedOn(c) <=> f + 1 >= Warmup
  BY <1>1, <1>2, FirstIsNext
<1>8. sending = {} /\ spawned = 0
  BY <1>2, <1>3 DEF PhasesHold
<1> HIDE DEF c, p, f
<1>9. FlowTypes'
  BY <1>2, <1>3, <1>5, <1>6 DEF FlowTypes, configVars
<1>10. FeedsFinished'
  BY <1>2 DEF FeedsFinished
<1>11. PhasesHold'
  BY <1>2, <1>3, <1>8, <1>10 DEF PhasesHold, configVars
<1>12. SourcesAreRests'
  BY <1>2, <1>3, RestsKept
<1>13. QueueHolds'
  <2>1. \A x \in Queued' \cup sending' : WasSent(x)'
    BY <1>2, <1>3, <1>5, WasSentKept DEF QueueHolds
  <2>. QED  BY <1>2, <1>5, <1>8, <2>1 DEF QueueHolds
<1>14. TradesMoveOn'
  <2>1. Queued' \cup sending' \subseteq (Queued \cup sending) \ {c} /\ c \in Queued \cup sending
    BY <1>2, <1>4, <1>5, <1>8
  <2>. QED  BY <1>1, <1>2, <2>1, HandleTrades
<1>15. HandledFirst'
  BY <1>4, <1>5, <1>6, <1>10 DEF HandledFirst
<1>16. ASSUME NEW q \in Pairs
       PROVE  /\ Len(frame'[q]) <= Sent(q)
              /\ \A i \in 1..Len(frame'[q]) : frame'[q][i] = Subscription(q)[i]
              /\ \A i \in 1..Sent(q) : Subscription(q)[i] \in Queued' <=> i > Len(frame'[q])
              /\ \A i \in 1..Len(frame'[q]) : Holds(traded'[q], frame'[q][i].time) <=> i >= Warmup
              /\ \A t \in Range(traded'[q]) : \E i \in 1..Len(frame'[q]) : frame'[q][i].time = t
  <2> DEFINE s == Subscription(q)
             n == Sent(q)
             k == Len(s)
             l == Len(source[q])
             rows == frame[q]
             w == traded[q]
  <2>1. /\ Len(rows) <= n
        /\ \A i \in 1..Len(rows) : rows[i] = s[i]
        /\ \A i \in 1..n : s[i] \in Queued <=> i > Len(rows)
        /\ \A i \in 1..Len(rows) : Holds(w, rows[i].time) <=> i >= Warmup
        /\ \A t \in Range(w) : \E i \in 1..Len(rows) : rows[i].time = t
    BY <1>2, <1>3 DEF RowsAreBeginnings
  <2>2. rows \in Seq(Candles) /\ w \in Seq(Int)
    BY <1>3 DEF FlowTypes
  <2>3. /\ n \in Nat /\ k \in Nat /\ l \in Nat /\ n + l = k
        /\ \A i \in 1..k : s[i] \in Candles /\ s[i].pair = q
    BY <1>3, PairIs
  <2>4. FromFile(s)
    BY <1>2, <1>3, SubscriptionIs DEF FlowTypes
  <2>5. IF q = p
        THEN /\ Len(rows) = f /\ f + 1 \in 1..n /\ c = s[f + 1]
             /\ frame'[q] = Append(rows, c)
             /\ traded'[q] = IF f + 1 >= Warmup THEN Append(w, c.time) ELSE w
        ELSE frame'[q] = rows /\ traded'[q] = w
    BY <1>6, <1>7 DEF f
  <2> HIDE DEF s, n, l, rows, w
  <2>6. \A i \in 1..n : i \in 1..k
    BY <2>3
  <2>7. CASE q # p
    <3>1. \A i \in 1..n : s[i] # c
      BY <2>3, <2>6, <2>7 DEF p
    <3>. QED  BY <1>5, <2>1, <2>5, <2>7, <3>1 DEF s, n
  <2>8. CASE q = p
    <3> DEFINE longer == Append(rows, c)
               trades == IF f + 1 >= Warmup THEN Append(w, c.time) ELSE w
    <3>1. /\ Len(longer) = f + 1 /\ longer[f + 1] = c /\ \A i \in 1..f : longer[i] = rows[i]
          /\ Len(rows) = f /\ f \in Nat /\ f + 1 \in 1..n /\ c = s[f + 1]
      BY <1>4, <1>7, <2>2, <2>5, <2>8, AppendProperties
    <3>2. \A i \in 1..(f + 1) : i \in 1..f \/ i = f + 1
      BY <3>1
    <3>3. c.time \in Int /\ Warmup \in Nat
      BY <1>4, CandlesComparable, FlowAssumption
    <3>4. \A i \in 1..f : rows[i].time \in Int /\ rows[i].time < c.time
      <4>1. SUFFICES ASSUME NEW i \in 1..f PROVE rows[i].time \in Int /\ rows[i].time < c.time
        OBVIOUS
      <4>2. i \in 1..k /\ f + 1 \in 1..k /\ i < f + 1
        BY <2>3, <3>1
      <4>3. rows[i] = s[i] /\ s[i] \in Candles
        BY <2>1, <2>3, <3>1, <4>2
      <4>. QED  BY <2>4, <3>1, <4>2, <4>3, CandlesComparable DEF FromFile
    <3>5. Holds(trades, c.time) <=> f + 1 >= Warmup
      <4>1. ~Holds(w, c.time)
        <5>1. SUFFICES ASSUME Holds(w, c.time) PROVE FALSE
          OBVIOUS
        <5>2. c.time \in Range(w)
          BY <2>2, <5>1, LenProperties DEF Holds, Range
        <5>3. PICK i \in 1..f : rows[i].time = c.time
          BY <2>1, <3>1, <5>2
        <5>. QED  BY <3>3, <3>4, <5>3
      <4>2. f + 1 >= Warmup => Holds(trades, c.time)
        BY <2>2, <3>3, AppendHolds
      <4>. QED  BY <4>1, <4>2
    <3>6. \A t \in Int : t # c.time => (Holds(trades, t) <=> Holds(w, t))
      BY <2>2, <3>3, AppendHolds
    <3> HIDE DEF trades, longer
    <3>7. \A i \in 1..(f + 1) : longer[i] = s[i]
      BY <2>1, <3>1, <3>2
    <3>8. \A i \in 1..(f + 1) : Holds(trades, longer[i].time) <=> i >= Warmup
      <4>1. SUFFICES ASSUME NEW i \in 1..(f + 1) PROVE Holds(trades, longer[i].time) <=> i >= Warmup
        OBVIOUS
      <4>2. CASE i = f + 1
        BY <3>1, <3>5, <4>2
      <4>3. CASE i \in 1..f
        <5>1. longer[i].time = rows[i].time /\ rows[i].time \in Int /\ rows[i].time # c.time
          BY <3>1, <3>3, <3>4, <4>3
        <5>2. Holds(w, rows[i].time) <=> i >= Warmup
          BY <2>1, <3>1, <4>3
        <5>. QED  BY <3>6, <5>1, <5>2
      <4>. QED  BY <3>2, <4>2, <4>3
    <3>9. \A t \in Range(trades) : \E i \in 1..(f + 1) : longer[i].time = t
      <4>1. SUFFICES ASSUME NEW t \in Range(trades) PROVE \E i \in 1..(f + 1) : longer[i].time = t
        OBVIOUS
      <4>2. trades \in Seq(Int)
        BY <2>2, <3>3, AppendProperties DEF trades
      <4>3. t \in Int /\ Holds(trades, t)
        BY <4>1, <4>2, RangeHolds
      <4>4. CASE t = c.time
        <5>1. f + 1 \in 1..(f + 1)
          BY <3>1
        <5>. QED  BY <3>1, <4>4, <5>1
      <4>5. CASE t # c.time
        <5>1. t \in Range(w)
          BY <2>2, <3>6, <4>3, <4>5, RangeHolds
        <5>2. PICK i \in 1..f : rows[i].time = t
          BY <2>1, <3>1, <5>1
        <5>3. i \in 1..(f + 1) /\ longer[i] = rows[i]
          BY <3>1, <5>2
        <5>. QED  BY <5>2, <5>3
      <4>. QED  BY <4>4, <4>5
    <3>10. \A i \in 1..n : s[i] \in Queued' <=> i > f + 1
      <4>1. SUFFICES ASSUME NEW i \in 1..n PROVE s[i] \in Queued' <=> i > f + 1
        OBVIOUS
      <4>2. i # f + 1 => s[i] # c
        <5>1. SUFFICES ASSUME i # f + 1 PROVE s[i].time # s[f + 1].time
          BY <3>1
        <5>2. i \in 1..k /\ f + 1 \in 1..k /\ (i < f + 1 \/ f + 1 < i)
          BY <2>6, <3>1, <5>1
        <5>3. s[i].time \in Int /\ s[f + 1].time \in Int
          BY <2>3, <5>2, CandlesComparable
        <5>. QED  BY <2>4, <5>2, <5>3 DEF FromFile
      <4>3. s[i] \in Queued <=> i > f
        BY <2>1, <3>1
      <4>4. (i > f /\ i # f + 1) <=> i > f + 1
        BY <3>1
      <4>. QED  BY <1>5, <3>1, <4>2, <4>3, <4>4
    <3>11. f + 1 <= n
      BY <2>3, <3>1
    <3>12. frame'[q] = longer /\ traded'[q] = trades
      BY <2>5, <2>8 DEF longer, trades
    <3>. QED  BY <3>1, <3>7, <3>8, <3>9, <3>10, <3>11, <3>12 DEF s, n
  <2>. QED  BY <2>7, <2>8
<1>17. RowsAreBeginnings'
  <2>1. \A q \in Pairs : Subscription(q)' = Subscription(q) /\ Sent(q)' = Sent(q)
    BY <1>2, WasSentKept
  <2>. QED  BY <1>16, <2>1, Zenon DEF RowsAreBeginnings
<1>. QED  BY <1>9, <1>11, <1>12, <1>13, <1>14, <1>15, <1>17 DEF FlowInv

-----------------------------------------------------------------------------
(* The invariant and the theorems *)

\* The invariant holds at first,
LEMMA FlowStarts == FlowInit => FlowInv
<1>1. SUFFICES ASSUME FlowInit PROVE FlowInv
  OBVIOUS
<1>2. /\ backtest \in BOOLEAN /\ highFrequency \in BOOLEAN
      /\ ratio \in Ratios /\ download \in [Pairs -> Downloads]
      /\ phase = "setup" /\ ready = 0 /\ callbacks = 0 /\ spawned = 0 /\ early = 0
      /\ sending = {} /\ handled = NoItem
      /\ source = [p \in Pairs |-> Subscription(p)]
      /\ feed = [p \in Pairs |-> "off"]
      /\ frame = [p \in Pairs |-> <<>>] /\ traded = [p \in Pairs |-> <<>>]
  BY <1>1 DEF FlowInit
<1>3. heap = <<>>
  BY <1>1 DEF FlowInit, NewPriorityQueue
<1>4. \A p \in Pairs : Subscription(p) \in Seq(Candles)
  BY <1>2, SubscriptionIs DEF IsSubscription
<1>5. \A p \in Pairs : source[p] = Subscription(p) /\ frame[p] = <<>> /\ traded[p] = <<>> /\ feed[p] = "off"
  BY <1>2
<1>6. \A S : <<>> \in Seq(S) /\ Len(<<>>) = 0
  OBVIOUS
<1>7. FlowTypes
  BY <1>2, <1>3, <1>4, <1>6 DEF FlowTypes
<1>8. Queued = {}
  BY <1>3, EmptyQueue
<1>9. PhasesHold
  BY <1>2, <1>3, <1>5, <1>6 DEF PhasesHold
<1>10. \A p \in Pairs : Sent(p) = 0
  BY <1>4, <1>5, LenProperties DEF Sent
<1>11. SourcesAreRests
  <2>1. SUFFICES ASSUME NEW p \in Pairs
                 PROVE  /\ Len(source[p]) <= Len(Subscription(p))
                        /\ \A i \in 1..Len(source[p]) : source[p][i] = Subscription(p)[Sent(p) + i]
    BY DEF SourcesAreRests
  <2> DEFINE s == Subscription(p)
             n == Sent(p)
             k == Len(s)
  <2>2. source[p] = s /\ n = 0 /\ k \in Nat
    BY <1>4, <1>5, <1>10, LenProperties
  <2> HIDE DEF s, n
  <2>3. k <= k /\ \A i \in 1..k : s[i] = s[n + i]
    <3> HIDE DEF k
    <3>1. \A i \in 1..k : n + i = i
      BY <2>2
    <3>. QED  BY <2>2, <3>1
  <2>. QED  BY <2>2, <2>3 DEF s, n
<1>12. QueueHolds
  <2>1. IsHeap(heap) /\ IsDistinct(heap)
    BY <1>3, <1>6, SMT DEF IsHeap, IsDistinct
  <2>. QED  BY <1>2, <1>8, <2>1 DEF QueueHolds
<1>13. \A x : x.pair \in Pairs => Untraded(x)
  BY <1>5 DEF Untraded
<1>14. TradesMoveOn
  <2>1. \A p \in Pairs : \A i \in 1..Len(source[p]) : Untraded(source[p][i])
    <3>1. SUFFICES ASSUME NEW p \in Pairs, NEW i \in 1..Len(source[p]) PROVE Untraded(source[p][i])
      OBVIOUS
    <3>2. Subscription(p)[i].pair = p
      <4>1. IsSubscription(Subscription(p), p)
        BY <1>2, SubscriptionIs
      <4>. QED  BY <1>5, <3>1, <4>1 DEF IsSubscription
    <3>. QED  BY <1>5, <1>13, <3>2
  <2>. QED  BY <1>2, <1>5, <1>8, <2>1 DEF TradesMoveOn
<1>15. HandledFirst
  BY <1>2 DEF HandledFirst
<1>16. RowsAreBeginnings
  <2>1. Range(<<>>) = {}
    BY DEF Range
  <2>2. \A p \in Pairs : Len(frame[p]) = 0 /\ Sent(p) = 0 /\ Range(traded[p]) = {}
    BY <1>5, <1>6, <1>10, <2>1
  <2>3. 1..0 = {} /\ 0 <= 0
    OBVIOUS
  <2>. QED  BY <2>2, <2>3, Zenon DEF RowsAreBeginnings
<1>. QED  BY <1>7, <1>9, <1>11, <1>12, <1>14, <1>15, <1>16 DEF FlowInv

\* and every step keeps it.
LEMMA FlowSteps == FlowInv /\ [FlowNext]_flowVars => FlowInv'
<1>1. FlowInv /\ UNCHANGED flowVars => FlowInv'
  <2>1. SUFFICES ASSUME FlowInv, UNCHANGED flowVars PROVE FlowInv'
    OBVIOUS
  <2>2. UNCHANGED <<configVars, source, heap, sending, frame, traded, handled, phase, ready, feed,
                    callbacks, spawned, early>>
    BY <2>1 DEF flowVars, queueVars, stratVars
  <2>3. FeedsFinished' <=> FeedsFinished
    BY <2>2 DEF FeedsFinished
  <2>4. FlowTypes' /\ PhasesHold'
    <3>1. FlowTypes'
      BY <2>1, <2>2 DEF FlowInv, FlowTypes, configVars
    <3>2. PhasesHold'
      BY <2>1, <2>2, <2>3 DEF FlowInv, PhasesHold, configVars
    <3>. QED  BY <3>1, <3>2
  <2>. QED  BY <2>1, <2>2, <2>3, <2>4, Unmoved DEF FlowInv
<1>. QED  BY <1>1, SetUpKeeps, StartFeedsKeeps, ProcessCandlesKeeps, FeedSendsKeeps, ReconnectsKeeps,
            FeedEndsKeeps, BacktestCandleKeeps, BacktestEndsKeeps, CallbackPopsKeeps, ReceiveKeeps
          DEF FlowNext

\* The inductive invariant of the candle flow.
THEOREM FlowInvariant == FlowSpec => []FlowInv
BY FlowStarts, FlowSteps, PTL DEF FlowSpec

\* QueueLag: live, the queue holds one candle for each callback still to pop and one
\* for each push before PopLock, so no callback ever meets an empty queue.
THEOREM QueueLagHolds == FlowSpec => []QueueLag
<1>1. FlowInv => QueueLag
  BY DEF FlowInv, PhasesHold, QueueLag
<1>. QED  BY <1>1, FlowInvariant, PTL

\* The rows a finished backtest has are what the subscription sent.
LEMMA DoneHasAll ==
  ASSUME FlowInv, phase = "done", NEW p \in Pairs
  PROVE  backtest /\ frame[p] = Subscription(p)
<1> DEFINE s == Subscription(p)
           rows == frame[p]
           n == Sent(p)
           k == Len(s)
           l == Len(source[p])
           f == Len(rows)
<1>1. FlowTypes /\ PhasesHold /\ SourcesAreRests /\ RowsAreBeginnings
  BY DEF FlowInv
<1>2. backtest /\ source[p] = <<>> /\ heap = <<>>
  BY <1>1 DEF PhasesHold, FeedsFinished
<1>3. n \in Nat /\ k \in Nat /\ l \in Nat /\ n + l = k /\ s \in Seq(Candles)
  BY <1>1, PairIs DEF IsSubscription
<1>4. l = 0 /\ Queued = {}
  BY <1>2, EmptyQueue
<1>5. rows \in Seq(Candles) /\ f \in Nat
  BY <1>1, LenProperties DEF FlowTypes
<1>6. /\ f <= n /\ \A i \in 1..f : rows[i] = s[i]
      /\ \A i \in 1..n : s[i] \in Queued <=> i > f
  BY <1>1, <1>2 DEF RowsAreBeginnings
<1> HIDE DEF s, rows, n, l
<1>7. n = k /\ f = k
  <2> HIDE DEF k, f
  <2>1. \A i \in 1..n : ~(i > f)
    BY <1>4, <1>6
  <2>2. n = k
    BY <1>3, <1>4
  <2>3. f = n
    <3>1. SUFFICES ASSUME f # n PROVE FALSE
      OBVIOUS
    <3>2. n \in 1..n /\ n > f
      BY <1>3, <1>5, <1>6, <3>1
    <3>. QED  BY <2>1, <3>2
  <2>. QED  BY <2>2, <2>3
<1>8. rows = s
  BY <1>3, <1>5, <1>6, <1>7, SeqEqual
<1>. QED  BY <1>2, <1>8 DEF rows, s

\* BacktestSeesHistory: a finished backtest has put every candle of the downloaded
\* file, from the first whole period on, into exactly one row, in whole periods, and
\* has shown the strategy every row from the end of the warm-up on.
THEOREM BacktestSeesAll == FlowSpec => []BacktestSeesHistory
<1>1. ASSUME FlowInv, phase = "done", NEW p \in Pairs
      PROVE  LET file == FileOf(download[p]) IN
             /\ FileIsWhole(download[p])
             /\ Volume(frame[p]) = Len(file) - StartIndex(file, ratio) + 1
             /\ PeriodsAreWhole(p)
             /\ \A i \in 1..Len(frame[p]) : i >= Warmup <=> frame[p][i].time \in Range(traded[p])
  <2> DEFINE d == download[p]
             file == FileOf(d)
             width == ratio
             rows == frame[p]
  <2>1. FlowTypes /\ RowsAreBeginnings
    BY <1>1 DEF FlowInv
  <2>2. backtest /\ rows = Subscription(p)
    BY <1>1, DoneHasAll
  <2>3. d \in Downloads /\ width \in Nat \ {0}
    BY <2>1, FlowAssumption DEF FlowTypes
  <2>4. rows = Resample(p, file, width)
    BY <2>2 DEF Subscription
  <2> HIDE DEF d, width, rows
  <2>5. file \in Seq(Int) /\ Increasing(file) /\ FileIsWhole(d)
    BY <2>3, FileOfIs
  <2> HIDE DEF file
  <2>6. /\ Volume(Resample(p, file, width)) = Len(file) - StartIndex(file, width) + 1
        /\ width > 1 /\ Gapless(file) =>
             \A j \in 1..(Len(Resample(p, file, width)) - 1) : Whole(Resample(p, file, width)[j], width)
    BY <2>3, <2>5, ResampleIs
  <2>7. Volume(rows) = Len(file) - StartIndex(file, width) + 1
    BY <2>4, <2>6
  <2>8. PeriodsAreWhole(p)
    <3>1. width > 1 /\ Gapless(file) => \A j \in 1..(Len(rows) - 1) : Whole(rows[j], width)
      BY <2>4, <2>6
    <3>. QED  BY <3>1, Zenon DEF PeriodsAreWhole, Whole, d, file, width, rows
  <2>9. \A i \in 1..Len(rows) : i >= Warmup <=> rows[i].time \in Range(traded[p])
    <3>1. traded[p] \in Seq(Int)
      BY <2>1 DEF FlowTypes
    <3>2. \A i \in 1..Len(rows) : Holds(traded[p], rows[i].time) <=> i >= Warmup
      BY <2>1, <2>2 DEF RowsAreBeginnings, rows
    <3>. QED  BY <3>1, <3>2, RangeHolds
  <2>. QED  BY <2>5, <2>7, <2>8, <2>9 DEF d, file, width, rows
<1>2. FlowInv => BacktestSeesHistory
  BY <1>1, Zenon DEF BacktestSeesHistory
<1>. QED  BY <1>2, FlowInvariant, PTL

\* BacktestInOrder: a backtest handles the candles of all pairs in the order of Less.
THEOREM BacktestTakesInOrder == FlowSpec => BacktestInOrder
<1>1. ASSUME FlowInv, [FlowNext]_flowVars, backtest, handled # NoItem, handled' # handled
      PROVE  ~Less(handled', handled)
  <2>1. BacktestCandle \/ Receive
    BY <1>1 DEF FlowNext, flowVars, queueVars, stratVars, SetUp, StartFeeds, ProcessCandles, FeedSends, Reconnects,
                FeedEnds, BacktestEnds, CallbackPops
  <2>2. ~Receive
    BY <1>1 DEF Receive, FlowInv, PhasesHold
  <2>3. heap # <<>> /\ Handle(heap[1])
    BY <2>1, <2>2 DEF BacktestCandle
  <2>4. heap[1] \in Queued
    BY <1>1, <2>3, FirstIsSmallest DEF FlowInv, FlowTypes, QueueHolds
  <2>5. handled' = heap[1]
    BY <2>3, HandleIs
  <2>. QED  BY <1>1, <2>4, <2>5 DEF FlowInv, HandledFirst
<1>2. FlowInv /\ [FlowNext]_flowVars => [backtest /\ handled # NoItem => ~Less(handled', handled)]_handled
  BY <1>1
<1>. QED  BY <1>2, FlowInvariant, PTL DEF FlowSpec, BacktestInOrder

\* The controller's step, whichever loop takes it, trades on a later period.
LEMMA HandleMovesForward ==
  ASSUME FlowInv, NEW c \in Queued \cup sending, Handle(c), NEW p \in Pairs,
         ~highFrequency, Len(traded[p]) > 0, traded'[p] # traded[p]
  PROVE  Last(traded'[p]) > Last(traded[p])
<1>1. FlowTypes /\ QueueHolds /\ TradesMoveOn
  BY DEF FlowInv
<1>2. /\ c \in Candles /\ WasSent(c)
      /\ traded'[c.pair] = IF TradedOn(c) THEN Append(traded[c.pair], c.time) ELSE traded[c.pair]
      /\ \A q \in Pairs \ {c.pair} : traded'[q] = traded[q]
  BY HandleMoves
<1>3. p = c.pair /\ TradedOn(c)
  BY <1>2
<1> DEFINE w == traded[p]
           t == c.time
<1>4. w \in Seq(Int) /\ t \in Int /\ frame[p] \in Seq(Candles)
  BY <1>1, <1>2, CandlesComparable DEF FlowTypes
<1>5. traded'[p] = Append(w, t) /\ w # <<>>
  BY <1>2, <1>3, <1>4, EmptySeq
<1>6. c.complete /\ ~IsLateCandle(frame[p], c)
  BY <1>3 DEF TradedOn, Accepted
<1>7. t # Last(w)
  BY <1>1, <1>3, <1>5, <1>6 DEF TradesMoveOn, Untraded
<1>8. Len(frame[p]) >= Warmup /\ Last(frame[p]).time = Last(w)
  BY <1>1, <1>5 DEF TradesMoveOn
<1>9. frame[p] # <<>>
  <2>1. Warmup \in Nat \ {0} /\ Len(frame[p]) \in Nat
    BY <1>4, FlowAssumption, LenProperties
  <2>2. Len(frame[p]) # 0
    BY <1>8, <2>1
  <2>. QED  BY <1>4, <2>2, EmptySeq
<1>10. ~(t < Last(w))
  BY <1>6, <1>8, <1>9 DEF IsLateCandle
<1> HIDE DEF w, t
<1>11. Last(w) \in Int
  <2>1. Len(w) \in Nat /\ Len(w) # 0 /\ \A i \in 1..Len(w) : w[i] \in Int
    BY <1>4, <1>5, EmptySeq, LenProperties, ElementOfSeq
  <2>. QED  BY <2>1 DEF Last
<1>12. Last(Append(w, t)) = t
  <2>1. Len(Append(w, t)) = Len(w) + 1 /\ Append(w, t)[Len(w) + 1] = t
    BY <1>4, AppendProperties
  <2>. QED  BY <2>1 DEF Last
<1>13. t > Last(w)
  BY <1>4, <1>7, <1>10, <1>11
<1>. QED  BY <1>5, <1>12, <1>13 DEF w

\* StrategyMovesForward: a strategy that is not called for partial candles never
\* trades on a period twice or on one before the last.
THEOREM TradesMoveForward == FlowSpec => StrategyMovesForward
<1>1. ASSUME FlowInv, [FlowNext]_flowVars, traded' # traded, NEW p \in Pairs,
             ~highFrequency, Len(traded[p]) > 0, traded'[p] # traded[p]
      PROVE  Last(traded'[p]) > Last(traded[p])
  <2>1. BacktestCandle \/ Receive
    BY <1>1 DEF FlowNext, flowVars, queueVars, stratVars, SetUp, StartFeeds, ProcessCandles, FeedSends, Reconnects,
                FeedEnds, BacktestEnds, CallbackPops
  <2>2. \E c \in Queued \cup sending : Handle(c)
    <3>1. CASE BacktestCandle
      <4>1. heap # <<>> /\ Handle(heap[1])
        BY <3>1 DEF BacktestCandle
      <4>2. heap[1] \in Queued
        BY <1>1, <4>1, FirstIsSmallest DEF FlowInv, FlowTypes, QueueHolds
      <4>. QED  BY <4>1, <4>2
    <3>2. CASE Receive
      BY <3>2 DEF Receive
    <3>. QED  BY <2>1, <3>1, <3>2
  <2>. QED  BY <1>1, <2>2, HandleMovesForward
<1>2. FlowInv /\ [FlowNext]_flowVars =>
        [\A p \in Pairs : ~highFrequency /\ Len(traded[p]) > 0 /\ traded'[p] # traded[p]
           => Last(traded'[p]) > Last(traded[p])]_traded
  BY <1>1
<1>. QED  BY <1>2, FlowInvariant, PTL DEF FlowSpec, StrategyMovesForward

\* Each step pushes one candle, pops a smallest one or leaves the queue alone.
LEMMA QueueSteps ==
  ASSUME FlowInv, [FlowNext]_flowVars
  PROVE  [\E x \in Queued \cup Queued' : Queue!Push(x) \/ Queue!Pop(x)]_Queued
<1>1. heap \in Seq(Candles) /\ IsHeap(heap) /\ IsDistinct(heap)
  BY DEF FlowInv, FlowTypes, QueueHolds
<1>2. ASSUME heap' = heap PROVE Queued' = Queued
  BY <1>2, QueuedKept
<1>3. ASSUME heap' = Popped(heap) PROVE [\E x \in Queued \cup Queued' : Queue!Push(x) \/ Queue!Pop(x)]_Queued
  <2>1. CASE heap = <<>>
    <3>1. heap' = <<>>
      BY <1>3, <2>1 DEF Popped
    <3>. QED  BY <1>2, <2>1, <3>1
  <2>2. CASE heap # <<>>
    <3>1. heap[1] \in Queued /\ (\A y \in Queued : ~Less(y, heap[1])) /\ Queued' = Queued \ {heap[1]}
      BY <1>1, <1>3, <2>2, FirstIsSmallest, Pops
    <3>2. Queue!Pop(heap[1])
      BY <3>1 DEF Queue!Pop
    <3>. QED  BY <3>1, <3>2
  <2>. QED  BY <2>1, <2>2
<1>4. ASSUME NEW p \in Pairs, FeedSends(p)
      PROVE  [\E x \in Queued \cup Queued' : Queue!Push(x) \/ Queue!Pop(x)]_Queued
  <2> DEFINE c == Head(source[p])
  <2>1. Takes(p) /\ heap' = Pushed(heap, c)
    BY <1>4 DEF FeedSends, Takes
  <2>2. c \in Candles /\ ~WasSent(c)
    BY <2>1, TakesNext DEF FlowInv
  <2> HIDE DEF c
  <2>3. c \notin Queued
    BY <2>2 DEF FlowInv, QueueHolds
  <2>4. Queued' = Queued \cup {c}
    BY <1>1, <2>1, <2>2, <2>3, Pushes
  <2>5. Queue!Push(c)
    BY <2>3, <2>4 DEF Queue!Push
  <2>. QED  BY <2>4, <2>5
<1>5. \/ heap' = heap \/ heap' = Popped(heap) \/ \E p \in Pairs : FeedSends(p)
  BY DEF FlowNext, flowVars, queueVars, SetUp, StartFeeds, ProcessCandles, Reconnects,
         FeedEnds, BacktestEnds, CallbackPops, BacktestCandle, Receive
<1>. QED  BY <1>2, <1>3, <1>4, <1>5

\* QueueIsPriorityBag: the binary heap of core.PriorityQueue implements a bag from
\* which only a smallest candle is taken.
THEOREM QueueImplementsBag == FlowSpec => QueueIsPriorityBag
<1>1. FlowInit => Queued = {}
  BY EmptyQueue DEF FlowInit, NewPriorityQueue
<1>2. FlowInv /\ [FlowNext]_flowVars => [\E x \in Queued \cup Queued' : Queue!Push(x) \/ Queue!Pop(x)]_Queued
  BY QueueSteps
<1>. QED  BY <1>1, <1>2, FlowInvariant, PTL DEF FlowSpec, QueueIsPriorityBag, Queue!Spec
=============================================================================
