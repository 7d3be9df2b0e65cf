---------------------------- MODULE MCCandleFlow ----------------------------
(* Bounds for TLC: histories with and without gaps, batches of three. *)
EXTENDS CandleFlow

MCHistories == { [t \in 1..9 |-> t], <<0, 1, 2, 4, 5, 6, 8>>, <<1, 3>> }
MCEnds   == {6, 7}
MCTicks  == << [time |-> 1, n |-> 2], [time |-> 2, n |-> 1], [time |-> 2, n |-> 2] >>
MCRatios == {2, 3}
=============================================================================
