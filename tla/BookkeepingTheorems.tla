------------------------ MODULE BookkeepingTheorems -------------------------
(***************************************************************************)
(* What the books of several components rest on: the sum over a finite set *)
(* of indices, and the position that an executed order leaves.             *)
(*                                                                         *)
(* SumFunctionOnSet of the community modules is a recursive function over  *)
(* the subsets of its set, so every fact about it is an induction: a set   *)
(* of counterexamples has a smallest one, because strict inclusion is well *)
(* founded on finite sets.                                                 *)
(***************************************************************************)
EXTENDS Position, Functions, FiniteSetTheorems, TLAPS

-----------------------------------------------------------------------------
(* Sums *)

Pick(s) == CHOOSE x \in s : TRUE

\* g is the recursive function of a sum, on a domain of index sets.
IsSum(g, f, D) == g = [s \in D |-> IF s = {} THEN 0 ELSE f[Pick(s)] + g[s \ {Pick(s)}]]

LEMMA SmallestSet ==
  ASSUME NEW S, IsFiniteSet(S), NEW Bad, Bad \subseteq SUBSET S, Bad # {}
  PROVE  \E T \in Bad : \A U \in Bad : U \subseteq T => U = T
<1>1. Bad \subseteq FiniteSubsetsOf(S)
  BY FS_FiniteSubsetsOfFinite
<1>2. PICK T \in Bad : \A U \in Bad : <<U, T>> \notin StrictSubsetOrdering(S)
  BY <1>1, FS_StrictSubsetOrderingWellFounded, WFMin
<1>. QED  BY <1>2 DEF StrictSubsetOrdering

LEMMA SmallestNat ==
  ASSUME NEW Bad, Bad \subseteq Nat, Bad # {}
  PROVE  \E n \in Bad : \A m \in Bad : n <= m
<1>1. PICK k : k \in Bad
  OBVIOUS
<1> DEFINE Upto == {S \in SUBSET (0 .. k) : \E m \in Bad : S = 0 .. m}
<1> DEFINE All == 0 .. k
<1>2. IsFiniteSet(All)
  BY <1>1, FS_Interval
<1>3. All \in Upto /\ Upto \subseteq SUBSET All /\ Upto # {}
  BY <1>1
<1>4. PICK S \in Upto : \A U \in Upto : U \subseteq S => U = S
  <2> HIDE DEF Upto, All
  <2>. QED  BY <1>2, <1>3, SmallestSet
<1>5. PICK n \in Bad : S = 0 .. n /\ n <= k
  <2>1. PICK n \in Bad : S = 0 .. n
    BY <1>4
  <2>2. n \in 0 .. n
    BY <2>1
  <2>. QED  BY <1>4, <2>1, <2>2
<1>6. ASSUME NEW m \in Bad, ~(n <= m) PROVE FALSE
  <2>1. m \in Nat /\ n \in Nat /\ m < n
    BY <1>5, <1>6
  <2>2. 0 .. m \subseteq S /\ n \in S /\ n \notin 0 .. m
    BY <1>5, <2>1
  <2>3. 0 .. m \in Upto
    BY <1>4, <2>2
  <2>. QED  BY <1>4, <2>2, <2>3
<1>. QED  BY <1>6

LEMMA SumsDefined == \A f, S : SumFunctionOnSet(f, S) = (CHOOSE g : IsSum(g, f, SUBSET S))[S]
BY DEF SumFunctionOnSet, FoldFunctionOnSet, MapThenFoldSet, IsSum, Pick

\* Two such functions agree where both are defined.
LEMMA SumsAgree ==
  ASSUME NEW f, NEW g, NEW h, NEW D, NEW E, NEW S, IsFiniteSet(S),
         SUBSET S \subseteq D, SUBSET S \subseteq E, IsSum(g, f, D), IsSum(h, f, E)
  PROVE  g[S] = h[S]
<1> DEFINE Bad == {T \in SUBSET S : g[T] # h[T]}
<1>1. SUFFICES ASSUME Bad # {} PROVE FALSE
  OBVIOUS
<1>2. PICK T \in Bad : \A U \in Bad : U \subseteq T => U = T
  <2>1. Bad \subseteq SUBSET S
    OBVIOUS
  <2> HIDE DEF Bad
  <2>. QED  BY <1>1, <2>1, SmallestSet
<1>3. T \in D /\ T \in E
  BY <1>2
<1>4. T # {}
  BY <1>2, <1>3 DEF IsSum
<1>5. Pick(T) \in T
  BY <1>4 DEF Pick
<1> DEFINE U == T \ {Pick(T)}
<1>6. g[U] = h[U]
  BY <1>2, <1>5
<1>. QED  BY <1>2, <1>3, <1>4, <1>6 DEF IsSum

\* There is such a function for the subsets of a finite set.
LEMMA SumsExist ==
  ASSUME NEW f, NEW S, IsFiniteSet(S)
  PROVE  \E g : IsSum(g, f, SUBSET S)
<1> DEFINE D(n) == {T \in SUBSET S : Cardinality(T) <= n}
           Bad == {n \in Nat : ~ \E g : IsSum(g, f, D(n))}
<1>1. \A T \in SUBSET S : IsFiniteSet(T) /\ Cardinality(T) \in Nat /\ Cardinality(T) <= Cardinality(S)
  BY FS_Subset, FS_CardinalityType
<1>2. Cardinality(S) \in Nat /\ SUBSET S = D(Cardinality(S))
  BY <1>1, FS_CardinalityType
<1>3. SUFFICES ASSUME Bad # {} PROVE FALSE
  BY <1>2
<1>4. PICK n \in Bad : \A m \in Bad : n <= m
  BY <1>3, SmallestNat
<1>5. CASE n = 0
  <2>1. \A T \in D(0) : T = {}
    BY <1>1, FS_EmptySet
  <2> DEFINE g == [T \in D(0) |-> 0]
  <2>2. g = [s \in D(0) |-> IF s = {} THEN 0 ELSE f[Pick(s)] + g[s \ {Pick(s)}]]
    BY <2>1
  <2>. QED  BY <1>4, <1>5, <2>2 DEF IsSum
<1>6. CASE n # 0
  <2>1. n \in Nat /\ n - 1 \in Nat /\ ~(n <= n - 1)
    BY <1>4, <1>6
  <2>2. PICK h : IsSum(h, f, D(n - 1))
    BY <1>4, <2>1
  <2> DEFINE g == [s \in D(n) |-> IF s = {} THEN 0 ELSE f[Pick(s)] + h[s \ {Pick(s)}]]
  <2>3. ASSUME NEW s \in D(n), s # {}
        PROVE  s \ {Pick(s)} \in D(n - 1) /\ s \ {Pick(s)} \in D(n)
    <3>1. Pick(s) \in s /\ IsFiniteSet(s) /\ Cardinality(s) <= n
      BY <1>1, <2>3 DEF Pick
    <3>2. Cardinality(s \ {Pick(s)}) = Cardinality(s) - 1
      BY <3>1, FS_RemoveElement
    <3>3. s \ {Pick(s)} \in SUBSET S
      OBVIOUS
    <3>. QED  BY <1>1, <2>1, <3>1, <3>2, <3>3
  <2>4. ASSUME NEW s \in D(n - 1) PROVE s \in D(n) /\ g[s] = h[s]
    <3>1. s \in D(n)
      BY <1>1, <2>1
    <3>2. h[s] = IF s = {} THEN 0 ELSE f[Pick(s)] + h[s \ {Pick(s)}]
      BY <2>2 DEF IsSum
    <3>. QED  BY <3>1, <3>2
  <2>5. ASSUME NEW s \in D(n), s # {} PROVE g[s \ {Pick(s)}] = h[s \ {Pick(s)}]
    BY <2>3, <2>4, <2>5
  <2>6. g = [s \in D(n) |-> IF s = {} THEN 0 ELSE f[Pick(s)] + g[s \ {Pick(s)}]]
    BY <2>5
  <2>. QED  BY <1>4, <2>6 DEF IsSum
<1>. QED  BY <1>5, <1>6

\* The equation that defines a sum.
LEMMA SumStep ==
  ASSUME NEW f, NEW S, IsFiniteSet(S)
  PROVE  SumFunctionOnSet(f, S) =
           IF S = {} THEN 0 ELSE f[Pick(S)] + SumFunctionOnSet(f, S \ {Pick(S)})
<1> DEFINE F(T) == CHOOSE g : IsSum(g, f, SUBSET T)
           R == S \ {Pick(S)}
<1>1. ASSUME NEW T, IsFiniteSet(T) PROVE IsSum(F(T), f, SUBSET T)
  <2>1. \E g : IsSum(g, f, SUBSET T)
    BY <1>1, SumsExist
  <2>. QED  BY <2>1
<1>2. IsFiniteSet(R)
  BY FS_RemoveElement
<1> HIDE DEF F
<1>3. IsSum(F(S), f, SUBSET S) /\ IsSum(F(R), f, SUBSET R)
  BY <1>1, <1>2
<1>4. F(R)[R] = F(S)[R]
  BY <1>2, <1>3, SumsAgree
<1>5. F(S)[S] = IF S = {} THEN 0 ELSE f[Pick(S)] + F(S)[R]
  BY <1>3 DEF IsSum
<1>6. SumFunctionOnSet(f, S) = F(S)[S] /\ SumFunctionOnSet(f, R) = F(R)[R]
  BY SumsDefined DEF F
<1>. QED  BY <1>4, <1>5, <1>6

-----------------------------------------------------------------------------
(* What a sum of integers is *)

LEMMA SumEmpty == \A f : SumFunctionOnSet(f, {}) = 0
BY SumStep, FS_EmptySet

LEMMA SumInt ==
  ASSUME NEW f, NEW S, IsFiniteSet(S), \A x \in S : f[x] \in Int
  PROVE  SumFunctionOnSet(f, S) \in Int
<1> DEFINE Bad == {T \in SUBSET S : SumFunctionOnSet(f, T) \notin Int}
<1>1. SUFFICES ASSUME Bad # {} PROVE FALSE
  OBVIOUS
<1>2. Bad \subseteq SUBSET S
  OBVIOUS
<1>3. PICK T \in Bad : \A U \in Bad : U \subseteq T => U = T
  <2> HIDE DEF Bad
  <2>. QED  BY <1>1, <1>2, SmallestSet
<1>4. IsFiniteSet(T)
  BY <1>2, FS_Subset
<1>5. CASE T = {}
  BY <1>5, SumEmpty
<1>6. CASE T # {}
  <2>1. Pick(T) \in T
    BY <1>6 DEF Pick
  <2>2. SumFunctionOnSet(f, T \ {Pick(T)}) \in Int
    BY <1>3, <2>1
  <2>3. SumFunctionOnSet(f, T) = f[Pick(T)] + SumFunctionOnSet(f, T \ {Pick(T)})
    BY <1>4, <1>6, SumStep
  <2>. QED  BY <1>3, <2>1, <2>2, <2>3
<1>. QED  BY <1>5, <1>6

\* Any element may be taken out, not only the one that the definition picks.
LEMMA SumRemove ==
  ASSUME NEW f, NEW S, IsFiniteSet(S), \A x \in S : f[x] \in Int, NEW a \in S
  PROVE  SumFunctionOnSet(f, S) = f[a] + SumFunctionOnSet(f, S \ {a})
<1> DEFINE Sum(T) == SumFunctionOnSet(f, T)
           Bad == {T \in SUBSET S : \E x \in T : Sum(T) # f[x] + Sum(T \ {x})}
<1>1. SUFFICES ASSUME Bad # {} PROVE FALSE
  OBVIOUS
<1>2. Bad \subseteq SUBSET S
  OBVIOUS
<1>3. PICK T \in Bad : \A U \in Bad : U \subseteq T => U = T
  <2> HIDE DEF Bad
  <2>. QED  BY <1>1, <1>2, SmallestSet
<1>4. PICK x \in T : Sum(T) # f[x] + Sum(T \ {x})
  BY <1>3
<1> DEFINE c == Pick(T)
<1>5. c \in T
  BY <1>4 DEF Pick
<1> HIDE DEF c
<1>6. IsFiniteSet(T) /\ IsFiniteSet(T \ {x}) /\ IsFiniteSet(T \ {c})
  BY <1>2, FS_Subset
<1>7. Sum(T) = f[c] + Sum(T \ {c})
  BY <1>5, <1>6, SumStep DEF c
<1>8. x # c
  BY <1>4, <1>7
<1>9. Sum(T \ {c}) = f[x] + Sum((T \ {c}) \ {x})
  <2>1. T \ {c} \notin Bad /\ T \ {c} \in SUBSET S /\ x \in T \ {c}
    BY <1>3, <1>5, <1>8
  <2>. QED  BY <2>1
<1>10. Sum(T \ {x}) = f[c] + Sum((T \ {x}) \ {c})
  <2>1. T \ {x} \notin Bad /\ T \ {x} \in SUBSET S /\ c \in T \ {x}
    BY <1>3, <1>5, <1>8
  <2>. QED  BY <2>1
<1> DEFINE d == Sum((T \ {x}) \ {c})
<1>11. f[c] \in Int /\ f[x] \in Int /\ d \in Int
  <2>1. IsFiniteSet((T \ {x}) \ {c}) /\ \A y \in (T \ {x}) \ {c} : f[y] \in Int
    BY <1>3, <1>6, FS_RemoveElement
  <2>. QED  BY <1>3, <1>5, <2>1, SumInt
<1>12. (T \ {c}) \ {x} = (T \ {x}) \ {c}
  OBVIOUS
<1>13. Sum(T \ {c}) = f[x] + d
  BY <1>9, <1>12
<1> HIDE DEF d, Sum
<1>14. Sum(T) = f[c] + (f[x] + d) /\ Sum(T) # f[x] + (f[c] + d)
  BY <1>4, <1>7, <1>10, <1>13 DEF d
<1>. QED  BY <1>11, <1>14

LEMMA SumAdd ==
  ASSUME NEW f, NEW S, IsFiniteSet(S), NEW a, a \notin S, \A x \in S \cup {a} : f[x] \in Int
  PROVE  SumFunctionOnSet(f, S \cup {a}) = f[a] + SumFunctionOnSet(f, S)
<1>1. IsFiniteSet(S \cup {a}) /\ (S \cup {a}) \ {a} = S
  BY FS_AddElement
<1>. QED  BY <1>1, SumRemove

\* Only the values at the indices count.
LEMMA SumEqual ==
  ASSUME NEW f, NEW g, NEW S, IsFiniteSet(S), \A x \in S : f[x] = g[x]
  PROVE  SumFunctionOnSet(f, S) = SumFunctionOnSet(g, S)
<1> DEFINE Bad == {T \in SUBSET S : SumFunctionOnSet(f, T) # SumFunctionOnSet(g, T)}
<1>1. SUFFICES ASSUME Bad # {} PROVE FALSE
  OBVIOUS
<1>2. Bad \subseteq SUBSET S
  OBVIOUS
<1>3. PICK T \in Bad : \A U \in Bad : U \subseteq T => U = T
  <2> HIDE DEF Bad
  <2>. QED  BY <1>1, <1>2, SmallestSet
<1>4. IsFiniteSet(T) /\ T \subseteq S
  BY <1>2, FS_Subset
<1>5. T # {}
  BY <1>3, SumEmpty
<1>6. Pick(T) \in T
  BY <1>5 DEF Pick
<1>7. SumFunctionOnSet(f, T \ {Pick(T)}) = SumFunctionOnSet(g, T \ {Pick(T)})
  BY <1>3, <1>6
<1>. QED  BY <1>3, <1>4, <1>5, <1>6, <1>7, SumStep

LEMMA SumNat ==
  ASSUME NEW f, NEW S, IsFiniteSet(S), \A x \in S : f[x] \in Nat
  PROVE  SumFunctionOnSet(f, S) \in Nat
<1> DEFINE Bad == {T \in SUBSET S : SumFunctionOnSet(f, T) \notin Nat}
<1>1. SUFFICES ASSUME Bad # {} PROVE FALSE
  OBVIOUS
<1>2. Bad \subseteq SUBSET S
  OBVIOUS
<1>3. PICK T \in Bad : \A U \in Bad : U \subseteq T => U = T
  <2> HIDE DEF Bad
  <2>. QED  BY <1>1, <1>2, SmallestSet
<1>4. IsFiniteSet(T)
  BY <1>2, FS_Subset
<1>5. T # {}
  <2>1. SumFunctionOnSet(f, {}) \in Nat
    BY SumEmpty
  <2>. QED  BY <1>3, <2>1
<1>6. Pick(T) \in T
  BY <1>5 DEF Pick
<1>7. SumFunctionOnSet(f, T \ {Pick(T)}) \in Nat
  BY <1>3, <1>6
<1>8. SumFunctionOnSet(f, T) = f[Pick(T)] + SumFunctionOnSet(f, T \ {Pick(T)})
  BY <1>4, <1>5, SumStep
<1>. QED  BY <1>3, <1>6, <1>7, <1>8

\* No term is larger than a sum of natural numbers.
LEMMA SumBounds ==
  ASSUME NEW f, NEW S, IsFiniteSet(S), \A x \in S : f[x] \in Nat, NEW a \in S
  PROVE  SumFunctionOnSet(f, S) >= f[a]
<1>1. SumFunctionOnSet(f, S) = f[a] + SumFunctionOnSet(f, S \ {a})
  BY SumRemove
<1>2. SumFunctionOnSet(f, S \ {a}) \in Nat
  BY SumNat, FS_RemoveElement
<1>. QED  BY <1>1, <1>2

\* Over the same indices the sum is the same, and one index more adds its value.
LEMMA SumMoves ==
  ASSUME NEW S, IsFiniteSet(S), NEW f, NEW g, \A x \in S : f[x] \in Int /\ g[x] = f[x]
  PROVE  /\ SumFunctionOnSet(f, S) \in Int
         /\ SumFunctionOnSet(g, S) = SumFunctionOnSet(f, S)
         /\ \A x : x \notin S /\ g[x] \in Int =>
              SumFunctionOnSet(g, S \cup {x}) = SumFunctionOnSet(f, S) + g[x]
<1>1. SumFunctionOnSet(f, S) \in Int
  BY SumInt
<1>2. SumFunctionOnSet(g, S) = SumFunctionOnSet(f, S)
  BY SumEqual
<1>3. ASSUME NEW x, x \notin S, g[x] \in Int
      PROVE  SumFunctionOnSet(g, S \cup {x}) = SumFunctionOnSet(f, S) + g[x]
  <2>1. \A y \in S \cup {x} : g[y] \in Int
    BY <1>3
  <2>2. SumFunctionOnSet(g, S \cup {x}) = g[x] + SumFunctionOnSet(g, S)
    BY <1>3, <2>1, SumAdd
  <2>. QED  BY <1>1, <1>2, <1>3, <2>2
<1>. QED  BY <1>1, <1>2, <1>3

-----------------------------------------------------------------------------
(* Positions *)

Positions == [side : Sides, qty : Nat, avg : Nat]

\* What Position.Update reads of an executed order.
IsFill(o) == o.side \in Sides /\ o.qty \in Nat \ {0} /\ o.price \in Nat /\ o.stop \in Nat

\* The weighted average of two prices is a price.
LEMMA AverageType ==
  ASSUME NEW price1 \in Nat, NEW qty1 \in Nat, NEW price2 \in Nat, NEW qty2 \in Nat \ {0}
  PROVE  WeightedAverage(price1, qty1, price2, qty2) \in Nat
  <1>1. price1 * qty1 \in Nat /\ price2 * qty2 \in Nat
    BY SMT
  <1>2. \A a \in Nat, b \in Nat \ {0} : a \div b \in Nat
    BY SMT
  <1>3. price1 * qty1 + price2 * qty2 \in Nat /\ qty1 + qty2 \in Nat \ {0}
    BY <1>1
  <1>. QED
    BY <1>2, <1>3 DEF WeightedAverage

\* An executed order adds its signed quantity to the position, whichever of
\* Update's four cases it falls into, and leaves a position.
LEMMA OrderNets ==
  ASSUME NEW pos \in Positions, NEW o, IsFill(o)
  PROVE  /\ AfterOrder(pos, o) \in Positions
         /\ Net(AfterOrder(pos, o)) = Net(pos) + Signed(o.side, o.qty)
  <1>1. /\ pos.side \in Sides /\ pos.qty \in Nat /\ pos.avg \in Nat
        /\ o.side \in Sides /\ o.qty \in Nat \ {0} /\ o.price \in Nat
        /\ EffectivePrice(o) \in Nat
    BY DEF Positions, IsFill, EffectivePrice
  <1>2. NoPosition \in Positions /\ Net(NoPosition) = 0
    BY DEF NoPosition, Positions, Sides, Net, Signed
  <1>3. CASE pos = NoPosition
    <2>1. AfterOrder(pos, o) = [side |-> o.side, qty |-> o.qty, avg |-> o.price]
      BY <1>3 DEF AfterOrder
    <2>. QED
      BY <1>1, <1>2, <1>3, <2>1 DEF Positions, Net, Signed
  <1>4. CASE pos # NoPosition /\ Extends(pos, o)
    <2>. DEFINE avg == WeightedAverage(pos.avg, pos.qty, EffectivePrice(o), o.qty)
    <2>1. avg \in Nat
      BY <1>1, AverageType
    <2>. HIDE DEF avg
    <2>3. AfterOrder(pos, o) = [side |-> pos.side, qty |-> pos.qty + o.qty, avg |-> avg]
      BY <1>1, <1>4 DEF AfterOrder, Updated, Extends, Closes, Reduces, Reverses, avg
    <2>4. pos.qty + o.qty \in Nat /\ o.side = pos.side
      BY <1>1, <1>4 DEF Extends
    <2>5. AfterOrder(pos, o) \in Positions
      BY <1>1, <2>1, <2>3, <2>4 DEF Positions
    <2>6. Net(AfterOrder(pos, o)) = Signed(pos.side, pos.qty + o.qty)
      BY <2>3 DEF Net
    <2>. QED
      BY <1>1, <2>4, <2>5, <2>6 DEF Net, Signed
  <1>5. CASE pos # NoPosition /\ Closes(pos, o)
    BY <1>1, <1>2, <1>5 DEF AfterOrder, Closes, Net, Signed, Sides, Buy, Sell
  <1>6. CASE pos # NoPosition /\ Reduces(pos, o)
    <2>1. AfterOrder(pos, o) = [pos EXCEPT !.qty = pos.qty - o.qty]
      BY <1>1, <1>6 DEF AfterOrder, Updated, Extends, Closes, Reduces, Reverses
    <2>2. AfterOrder(pos, o) = [side |-> pos.side, qty |-> pos.qty - o.qty, avg |-> pos.avg]
      BY <1>1, <2>1 DEF Positions
    <2>3. pos.qty - o.qty \in Nat
      BY <1>1, <1>6 DEF Reduces
    <2>4. AfterOrder(pos, o) \in Positions
      BY <1>1, <2>2, <2>3 DEF Positions
    <2>5. Net(AfterOrder(pos, o)) = Signed(pos.side, pos.qty - o.qty)
      BY <2>2 DEF Net
    <2>6. Signed(pos.side, pos.qty - o.qty)
            = Signed(pos.side, pos.qty) + Signed(o.side, o.qty)
      BY <1>1, <1>6 DEF Signed, Reduces, Sides, Buy, Sell
    <2>. QED
      BY <2>4, <2>5, <2>6 DEF Net
  <1>7. CASE pos # NoPosition /\ Reverses(pos, o)
    <2>1. AfterOrder(pos, o) =
            [side |-> o.side, qty |-> o.qty - pos.qty, avg |-> EffectivePrice(o)]
      BY <1>1, <1>7 DEF AfterOrder, Updated, Extends, Closes, Reduces, Reverses
    <2>2. o.qty - pos.qty \in Nat
      BY <1>1, <1>7 DEF Reverses
    <2>. QED
      BY <1>1, <1>7, <2>1, <2>2 DEF Positions, Net, Signed, Reverses, Sides, Buy, Sell
  <1>. QED
    BY <1>1, <1>3, <1>4, <1>5, <1>6, <1>7 DEF Extends, Closes, Reduces, Reverses
=============================================================================
