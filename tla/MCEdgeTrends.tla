---------------------------- MODULE MCEdgeTrends ----------------------------
(* Instances of EdgeTrends for TLC: an agent and one started by hand, two  *)
(* groups of which only the first fits into the budget of a cycle.         *)
EXTENDS EdgeTrends

CONSTANTS agent, once

MCSizes == <<<<1, 1>>, <<2>>>>
MCInterval == [g \in Groups |-> 1]
=============================================================================
