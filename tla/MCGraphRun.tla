----------------------------- MODULE MCGraphRun -----------------------------
(* Three sinks, the graph's default interrupter and another one.  The      *)
(* round-robin and liveness properties name sinks, so symmetry is not used.*)
EXTENDS GraphRun
=============================================================================
