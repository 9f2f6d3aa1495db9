------------------------------- MODULE MCDesk -------------------------------
(* Players, halves and requests are alike.                                 *)
EXTENDS Desk

Alike == Permutations(Players) \cup Permutations(Half) \cup Permutations(Requests)
=============================================================================
