----------------------------- MODULE MCPongGame -----------------------------
(* What the run injects, and its bounds.                                  *)
EXTENDS Games

(* Every fault, but a counter reset never in a game that also delays: with *)
(* both, NoFindings does not hold (README, "What the runs found").         *)
FaultSetsApart ==
  {FaultKinds \ drop : drop \in {{"counter_reset"}, {"latency"}, {"counter_reset", "correct"},
                                 {"latency", "correct"}}}
FaultSetsTogether == {{"counter_reset", "latency"}}
=============================================================================
