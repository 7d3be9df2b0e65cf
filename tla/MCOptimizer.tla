----------------------------- MODULE MCOptimizer ----------------------------
(* Bounds for TLC: six combinations of which three are evaluated, two workers. *)
EXTENDS Optimizer

MCParameters ==
  << [name |-> "length", type |-> "int", min |-> 1, max |-> 5, step |-> 2, options |-> <<>>],
     [name |-> "trail", type |-> "bool", min |-> 0, max |-> 0, step |-> 0, options |-> <<1, 0>>] >>
MCScores == {1, 2}
MCRandom == { <<1, 0>>, <<2, 1>> }
=============================================================================
