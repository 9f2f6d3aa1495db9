------------------------------ MODULE MCScorer ------------------------------
(* Values for the constants of Scorer that a configuration cannot spell.   *)
EXTENDS Scorer

CorrectingDeltas == {-1, 0, 1}
=============================================================================
