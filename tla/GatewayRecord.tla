---------------------------- MODULE GatewayRecord ----------------------------
(***************************************************************************)
(* What the cloud keeps of a gateway, and what a heartbeat, a completed    *)
(* update and a provisioning write into it.  Times are natural numbers;    *)
(* Never stands for a column that holds none.                              *)
(***************************************************************************)
EXTENDS Integers, FiniteSets

CONSTANTS
  Versions,     \* released versions; of the agent, the version of its package
  Configured,   \* the ui_version in the agent's configuration file
  StaleAfter, OfflineAfter

ASSUME RecordAssumption ==
  /\ StaleAfter \in Nat /\ OfflineAfter \in Nat /\ StaleAfter <= OfflineAfter

Never == -1
Time == Nat \cup {Never}
Scopes == {"ui_only", "agent", "edge_release"}

Marks == Versions \cup {Configured}

Records ==
  [agent : Marks, ui : Marks, ok : BOOLEAN, oldest : Time, at : Time]

(* collect_status: what the agent sends.  It reads its own version from    *)
(* its package and the version of the interface from its configuration;    *)
(* the time is that of the gateway's clock.                                *)
Beat(agent, ok, oldest, time) ==
  [agent |-> agent, ui |-> Configured, ok |-> ok,
   oldest |-> IF ok THEN oldest ELSE Never, at |-> time]

(* EdgeNode.  A heartbeat overwrites all of it, the latest_heartbeat_at by *)
(* the time the gateway wrote on it, whatever was heard since.             *)
ReceiveNewer(node, beat) ==
  IF beat.at > node.at THEN beat ELSE node
Receive(node, beat) ==
  [agent |-> beat.agent, ui |-> beat.ui, ok |-> beat.ok,
   oldest |-> beat.oldest, at |-> beat.at]

(* provision_gateway: a new row has not been heard of; an old one keeps    *)
(* what was heard.                                                         *)
Preprovisioned(agent, ui) ==
  [agent |-> agent, ui |-> ui, ok |-> FALSE, oldest |-> Never, at |-> Never]
Reprovisioned(node, agent, ui) == [node EXCEPT !.agent = agent, !.ui = ui]

(* admin_complete_gateway_update sets the markers of the release.          *)
Marked(node, scope, target) ==
  CASE scope = "ui_only"      -> [node EXCEPT !.ui = target]
    [] scope = "edge_release" -> [node EXCEPT !.ui = target, !.agent = target]
    [] OTHER                  -> node

(* _heartbeat_age_seconds and _effective_status: a heartbeat from the      *)
(* future counts as new.                                                   *)
Age(node, now) == IF node.at > now THEN 0 ELSE now - node.at
EffectiveStatus(node, now) ==
  IF node.at = Never \/ Age(node, now) > OfflineAfter THEN "offline"
  ELSE IF Age(node, now) > StaleAfter THEN "stale" ELSE "online"
IsOffline(node, now) == EffectiveStatus(node, now) = "offline"
=============================================================================
