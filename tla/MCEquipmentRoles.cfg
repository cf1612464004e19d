SPECIFICATION RolesSpec
CONSTANTS
  p1 = p1
  p2 = p2
  Workers = {w}
  DevicePoints = {p1, p2}
  Enabled = {p1}
  NameOf <- MCNameOf
  Names = {"name"}
  Groups = {g}
  Categories = {"HVAC"}
  Templates <- MCTemplates
  Rules <- MCRules
  Mappings = {m}
  MaxEdited = 1
  None = None
INVARIANTS
  RolesFitUnlessOverlapped
