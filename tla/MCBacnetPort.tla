---------------------------- MODULE MCBacnetPort ----------------------------
(***************************************************************************)
(* An instance starts with the lock of the port, taken by the agent's two  *)
(* threads and an agent that was started by hand, or with a job that has   *)
(* taken it and reads a device; the other side stays as it is.             *)
(***************************************************************************)
EXTENDS BacnetPort, BacnetReads

CONSTANTS command, trend, once, agent, byHand

MCProcOf == [t \in Threads |-> IF t = once THEN byHand ELSE agent]
MCDoes == [t \in Threads |->
             IF t = command THEN {"read", "discover"}
             ELSE IF t = trend THEN {"trend"}
             ELSE {"read", "check"}]

CONSTANTS b1, b2, b3

MCRequests == {<<b1, b2, b3>>, <<b2, b1, b2>>}
MCLists == {<<b1, b2, b3>>, <<b1, b1>>, <<>>}

VARIABLE part   \* "port" or "reads"

bacnetVars == <<part, vars, readVars>>

BacnetInit ==
  /\ part \in {"port", "reads"}
  /\ Init /\ ReadsInit
  /\ part = "port" => ~routed /\ ~native /\ ~SaidBehind /\ ~SaidWhere

BacnetNext ==
  \/ part = "port" /\ Next /\ UNCHANGED <<part, readVars>>
  \/ part = "reads" /\ ReadsNext /\ UNCHANGED <<part, vars>>

(* The fairness is the lock's; the reads are checked for safety only.      *)
BacnetSpec == BacnetInit /\ [][BacnetNext]_bacnetVars /\ Fairness
=============================================================================
