------------------------- MODULE MCEquipmentRoles -------------------------
(* A device with an enabled and a disabled point of one name, a large and  *)
(* a small HVAC template, one thread that is overtaken.                    *)
EXTENDS EquipmentRoles, TLC

CONSTANTS p1, p2

MCTemplates ==
  [big   |-> [categories |-> {"HVAC"}, roles |-> {"space", "supply"}],
   small |-> [categories |-> {"HVAC"}, roles |-> {"space"}]]
MCNameOf == [p \in DevicePoints |-> "name"]
MCRules == {[space |-> "name", supply |-> "name"]}
=============================================================================
