---------------------------- MODULE MCInventory ----------------------------
(* A gateway with up to two device rows that may share one of two          *)
(* instances, one object and one mirrored profile, and up to two handlers  *)
(* at a time.  MaxSize keeps the product small: with one point of one      *)
(* device two handlers overlap, with more rows one runs after the other.   *)
EXTENDS Inventory, TLC

CONSTANTS d1, d2, r1, r2, MaxSize

Symmetric == Permutations(Devices) \cup Permutations(Requests)

Running == {r \in Requests : pending[r] # Idle}

(* Rows that are saved or about to be, and handlers under way.             *)
Size ==
  Cardinality(Saved \cup
              UNION {DOMAIN pending[r].writes.instance : r \in Running})
  + Cardinality(SavedPoints \cup UNION {pending[r].newPoints : r \in Running})
  + Cardinality(Running)

MCNext == Next /\ Size' <= MaxSize
MCSpec == Init /\ [][MCNext]_vars
=============================================================================
