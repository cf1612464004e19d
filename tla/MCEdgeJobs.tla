---------------------------- MODULE MCEdgeJobs ----------------------------
(* Instances of EdgeJobs for TLC.                                          *)
EXTENDS EdgeJobs, TLC

CONSTANTS j1, w1, h1, h2

PollSymmetry == Permutations({h1, h2})
=============================================================================
