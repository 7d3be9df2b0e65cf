----------------------------- MODULE PriorityBag ----------------------------
(***************************************************************************)
(* What a priority queue promises: a bag of distinct items from which only *)
(* an item with nothing smaller beside it is ever taken.                   *)
(***************************************************************************)
CONSTANT Smaller(_, _)

VARIABLE bag

Push(x) == x \notin bag /\ bag' = bag \cup {x}

Pop(x) ==
  /\ x \in bag
  /\ \A y \in bag : ~Smaller(y, x)
  /\ bag' = bag \ {x}

\* Any item may be pushed.
Spec == bag = {} /\ [][\E x \in bag \cup bag' : Push(x) \/ Pop(x)]_bag
=============================================================================
