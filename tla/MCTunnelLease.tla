--------------------------- MODULE MCTunnelLease ---------------------------
(* Instances of TunnelLease for TLC.                                       *)
EXTENDS TunnelLease, TLC

CONSTANTS s1, s2

SocketSymmetry == Permutations({s1, s2})
=============================================================================
