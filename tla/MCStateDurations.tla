-------------------------- MODULE MCStateDurations --------------------------
(* Small instance of StateDurations: a positive and a negative weight, and *)
(* controls that lengthen, shorten and turn durations negative.            *)
EXTENDS StateDurations
MCWeights == {-1, 1}
MCUpdateValues == {-3, 2}
=============================================================================
