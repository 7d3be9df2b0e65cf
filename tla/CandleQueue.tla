----------------------------- MODULE CandleQueue ----------------------------
(***************************************************************************)
(* core.PriorityQueue as operators on its array: a binary heap, here       *)
(* 1-based, ordered by core.Candle's Less.                                 *)
(***************************************************************************)
EXTENDS Integers, Sequences, SequencesExt

\* Candle.Less: time, then UpdatedAt, then pair. Every feed sets UpdatedAt to
\* Time, so the partial and the final candle of one period are not ordered.
Less(a, b) == a.time < b.time \/ (a.time = b.time /\ a.pair < b.pair)

\* The smaller child of a position that has one.
LeastChild(data, pos) ==
  IF 2 * pos < Len(data) /\ Less(data[2 * pos + 1], data[2 * pos])
  THEN 2 * pos + 1 ELSE 2 * pos

\* down: the hole at pos moves down while a child is smaller than the item.
\* down[i] is the array in which the item fell from position i.
Down(data, pos, item) ==
  LET down[i \in pos..Len(data)] ==
        IF \/ i > Len(data) \div 2
           \/ ~Less(data[LeastChild(data, i)], item)
        THEN [data EXCEPT ![i] = item]
        ELSE [down[LeastChild(data, i)] EXCEPT ![i] = data[LeastChild(data, i)]]
  IN  down[pos]

\* BUG: the new item is compared with its parent once only.
UpOnce(data, pos, item) ==
  IF pos > 1 /\ Less(item, data[pos \div 2])
  THEN [data EXCEPT ![pos] = data[pos \div 2], ![pos \div 2] = item]
  ELSE [data EXCEPT ![pos] = item]

\* up: the hole at pos moves up while its parent is larger than the item.
\* up[i] is the array in which the item rose from position i.
Up(data, pos, item) ==
  LET up[i \in 1..pos] ==
        IF i > 1 /\ Less(item, data[i \div 2])
        THEN [up[i \div 2] EXCEPT ![i] = data[i \div 2]]
        ELSE [data EXCEPT ![i] = item]
  IN  up[pos]

Pushed(data, item) == Up(Append(data, item), Len(data) + 1, item)

\* Pop moves the last item to the top; an empty queue is left alone.
Popped(data) ==
  IF Len(data) <= 1 THEN <<>> ELSE Down(Front(data), 1, Last(data))

\* from[i] is the array in which the items from position i on have sunk.
NewPriorityQueue(data) ==
  LET top == Len(data) \div 2 + 1
      from[i \in 1..(top + 1)] ==
        IF i > top THEN data ELSE Down(from[i + 1], i, from[i + 1][i])
  IN  IF data = <<>> THEN <<>> ELSE from[1]
=============================================================================
