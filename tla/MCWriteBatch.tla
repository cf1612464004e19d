--------------------------- MODULE MCWriteBatch ---------------------------
(* Instances of WriteBatch: three commands for two devices.                *)
EXTENDS WriteBatch, TLC

CONSTANTS a1, a2, c1, c2, c3, d1, d2

MCDeviceOf == (c1 :> d1) @@ (c2 :> d1) @@ (c3 :> d2)
=============================================================================
