----------------------------- MODULE MCRegistry -----------------------------
(* Requests are alike.                                                     *)
EXTENDS Registry

Alike == Permutations(Clients)
=============================================================================
