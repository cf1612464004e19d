------------------------------- MODULE MCFleet -------------------------------
(***************************************************************************)
(* Three sides of a gateway's record that do not touch: an instance starts *)
(* with the updates of a gateway, with the alerts about one, or with the   *)
(* machines that may share its identity, and the variables of the other    *)
(* sides stay as they are.                                                 *)
(***************************************************************************)
EXTENDS GatewayUpdates, OfflineAlerts, DuplicateIdentity

CONSTANTS g1, lw, dw, v0, v1, v2, m1, m2, n1, n2, p1, p2

VARIABLE part   \* "updates", "alerts" or "identity"

fleetVars == <<part, vars, alertVars, identityVars>>

(* Two machines that start with one name and one address, with the disk of *)
(* one machine or disks of their own, and one clock that is off.           *)
OneImage ==
  /\ installation[m1] = m1 /\ ahead[m2] = 0
  /\ name = [m \in Machines |-> n1] /\ address = [m \in Machines |-> p1]

FleetInit ==
  /\ part \in {"updates", "alerts", "identity"}
  /\ Init /\ AlertsInit /\ IdentityInit
  /\ part # "alerts" => webhook = FALSE
  /\ OneImage
  /\ IF part = "identity" THEN ahead[m1] # 0
     ELSE ahead[m1] = 0 /\ installation[m2] = m2

FleetNext ==
  \/ part = "updates" /\ Next /\ UNCHANGED <<part, alertVars, identityVars>>
  \/ /\ part = "alerts" /\ AlertsNext
     /\ UNCHANGED <<part, vars, identityVars>>
  \/ /\ part = "identity" /\ IdentityNext
     /\ UNCHANGED <<part, vars, alertVars>>

(* Alerts and identities are checked for safety only.                      *)
FleetSpec == FleetInit /\ [][FleetNext]_fleetVars /\ Fairness

FleetTypeOK == TypeOK /\ AlertsTypeOK /\ IdentityTypeOK
=============================================================================
