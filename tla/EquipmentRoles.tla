--------------------------- MODULE EquipmentRoles ---------------------------
(***************************************************************************)
(* The equipment configuration of one saved device: the group that is its  *)
(* category, its graphic template, the logical roles bound to its points,  *)
(* and the mapping templates that bind roles by object name.               *)
(*                                                                         *)
(* A handler validates what it reads and then writes; nothing locks the    *)
(* rows in between.  It runs undisturbed, in one step, or in two, so that  *)
(* others commit between its look at the rows and its own commit.  The ORM *)
(* writes only the columns a handler changed, and the database refuses a   *)
(* second point with the same role.                                        *)
(***************************************************************************)
EXTENDS Naturals, FiniteSets

CONSTANTS
  Workers,     \* threads whose handlers others overtake
  DevicePoints,      \* the points of the device
  Enabled,     \* those of them that are enabled
  NameOf,      \* their object names
  Names,       \* object names
  Groups,      \* identifiers of group rows
  Categories,  \* names of groups
  Templates,   \* TEMPLATES, a record of categories and roles per key
  Rules,       \* the rules a mapping template may have: names by role
  Mappings,    \* identifiers of mapping templates
  MaxEdited,   \* bound on the points of a request given point by point
  None         \* no group, template, role, mapping template; an idle worker

ASSUME EquipmentRolesAssumption ==
  /\ Enabled \subseteq DevicePoints
  /\ None \notin Groups \cup Categories \cup DOMAIN Templates \cup Mappings
  /\ NameOf \in [DevicePoints -> Names]
  /\ Rules \subseteq UNION {[rs -> Names] :
       rs \in SUBSET UNION {Templates[t].roles : t \in DOMAIN Templates}}
  /\ MaxEdited \in Nat

Keys == DOMAIN Templates
Roles == UNION {Templates[t].roles : t \in Keys}

VARIABLES
  groups,    \* the names of the groups that exist
  saved,     \* whether the device is saved
  group,     \* its group_id
  template,  \* its template_key
  role,      \* logical_role of each point
  mappings,  \* the mapping templates that exist
  open,      \* what each worker's transaction is about to write
  overlapped,\* a transaction committed on rows that had changed since it
             \* looked (history)
  moved      \* the device's category changed by a handler that does not
             \* look at templates (history)

device == <<saved, group, template, role>>
rolesVars == <<groups, device, mappings, open, overlapped, moved>>

(* What a handler writes: a set with the new value of each column it       *)
(* changes, and new roles of some points; stale, if others have committed. *)
Writes == [group : SUBSET (Groups \cup {None}), create : SUBSET Categories,
           template : SUBSET (Keys \cup {None}),
           roles : UNION {[ps -> Roles \cup {None}] :
                             ps \in SUBSET DevicePoints},
           stale : BOOLEAN]

RolesTypeOK ==
  /\ DOMAIN groups \subseteq Groups
  /\ \A g \in DOMAIN groups : groups[g] \in Categories
  /\ saved \in BOOLEAN
  /\ group \in DOMAIN groups \cup {None}
  /\ template \in Keys \cup {None}
  /\ role \in [DevicePoints -> Roles \cup {None}]
  /\ DOMAIN mappings \subseteq Mappings
  /\ \A m \in DOMAIN mappings :
       /\ mappings[m].template \in Keys
       /\ mappings[m].rules \in UNION {[rs -> Names] : rs \in SUBSET Roles}
  /\ open \in [Workers -> Writes \cup {None}]
  /\ overlapped \in BOOLEAN /\ moved \in BOOLEAN

RolesInit ==
  /\ groups = <<>> /\ saved = FALSE
  /\ group = None /\ template = None
  /\ role = [p \in DevicePoints |-> None]
  /\ mappings = <<>>
  /\ open = [w \in Workers |-> None]
  /\ overlapped = FALSE /\ moved = FALSE

-----------------------------------------------------------------------------
(* _device_category: the name of group g.                                  *)
CategoryOf(g) == IF g \in DOMAIN groups THEN groups[g] ELSE None

Compatible(t, category) == t # None => category \in Templates[t].categories

(* Whether the roles of assignment r belong to template t.                 *)
Fit(r, t) ==
  \A p \in DOMAIN r :
    r[p] # None => t # None /\ r[p] \in Templates[t].roles

CategoryOnly(t, g) == Compatible(t, CategoryOf(g))

RolesOnly(t, g) == t # None => Fit(role, t)

(* _validate_template_assignment, with the device in group g.              *)
ValidTemplate(t, g) ==
  /\ Compatible(t, CategoryOf(g))
  /\ t # None => Fit(role, t)

(* The names of roles that assignment r would give to two points.          *)
Clash(r) == \E p, q \in DOMAIN r : p # q /\ r[p] = r[q] /\ r[p] # None

Changed(r) == [p \in {x \in DOMAIN r : r[x] # role[x]} |-> r[p]]

Overlay(r) == [p \in DevicePoints |-> IF p \in DOMAIN r THEN r[p] ELSE role[p]]

NoRoles == [p \in {} |-> None]

(* The transactions that are open rest on rows that have changed.          *)
Stale == [w \in Workers |-> IF open[w] = None THEN None
                            ELSE [open[w] EXCEPT !.stale = TRUE]]

AcceptedWithoutIndex(t, g) ==
  /\ \A x \in t.group : x \in DOMAIN groups \cup {None}
  /\ t.create # {} => /\ g \notin DOMAIN groups
                      /\ \A h \in DOMAIN groups : groups[h] \notin t.create

(* The database refuses a commit if a group it names is gone, a group that *)
(* it creates exists by now, or a role would be bound twice; g is the new  *)
(* group's identifier.                                                     *)
Accepted(t, g) ==
  /\ \A x \in t.group : x \in DOMAIN groups \cup {None}
  /\ t.create # {} => /\ g \notin DOMAIN groups
                      /\ \A h \in DOMAIN groups : groups[h] \notin t.create
  /\ ~Clash(Overlay(t.roles))

Publish(t, g) ==
  /\ groups' = [x \in DOMAIN groups \cup {y \in {g} : t.create # {}} |->
       IF x \in DOMAIN groups THEN groups[x] ELSE CHOOSE n \in t.create : TRUE]
  /\ group' = IF t.create # {} THEN g
              ELSE IF t.group = {} THEN group ELSE CHOOSE x \in t.group : TRUE
  /\ template' = IF t.template = {} THEN template
                 ELSE CHOOSE k \in t.template : TRUE
  /\ role' = Overlay(t.roles)
  /\ overlapped' = (overlapped \/ t.stale)
  /\ UNCHANGED <<saved, mappings, moved>>

Run(t) ==
  \/ \E g \in Groups : Accepted(t, g) /\ Publish(t, g) /\ open' = Stale
  \/ \E w \in Workers :
       /\ open[w] = None
       /\ open' = [open EXCEPT ![w] = t]
       /\ UNCHANGED <<groups, device, mappings, overlapped, moved>>

Commit(w, g) ==
  /\ open[w] # None
  /\ Accepted(open[w], g) /\ Publish(open[w], g)
  /\ open' = [Stale EXCEPT ![w] = None]

Abort(w) ==
  /\ open[w] # None
  /\ \A g \in Groups : ~Accepted(open[w], g)
  /\ open' = [open EXCEPT ![w] = None]
  /\ UNCHANGED <<groups, device, mappings, overlapped, moved>>

-----------------------------------------------------------------------------
(* Groups: one row each, and no look at the templates of their devices.    *)

(* ui_create_group; the name is unique.                                    *)
CreateGroup(g, name) ==
  /\ g \notin DOMAIN groups
  /\ \A h \in DOMAIN groups : groups[h] # name
  /\ groups' = [h \in DOMAIN groups \cup {g} |->
                  IF h = g THEN name ELSE groups[h]]
  /\ open' = Stale
  /\ UNCHANGED <<device, mappings, overlapped, moved>>

(* ui_rename_group.                                                        *)
RenameGroup(g, name) ==
  /\ g \in DOMAIN groups
  /\ \A h \in DOMAIN groups \ {g} : groups[h] # name
  /\ groups' = [groups EXCEPT ![g] = name]
  /\ open' = Stale
  /\ moved' = (moved \/ group = g)
  /\ UNCHANGED <<device, mappings, overlapped>>

(* ui_delete_group: its devices become ungrouped and keep their template.  *)
DeleteGroup(g) ==
  /\ g \in DOMAIN groups
  /\ groups' = [h \in DOMAIN groups \ {g} |-> groups[h]]
  /\ group' = IF group = g THEN None ELSE group
  /\ open' = Stale
  /\ moved' = (moved \/ group = g)
  /\ UNCHANGED <<saved, template, role, mappings, overlapped>>

(* ui_import_commissioning_template: a group, whatever the template.       *)
ImportGroup(g) ==
  /\ saved /\ g \in DOMAIN groups
  /\ group' = g
  /\ open' = Stale
  /\ moved' = TRUE
  /\ UNCHANGED <<groups, saved, template, role, mappings, overlapped>>

-----------------------------------------------------------------------------
(* The device and its points.                                              *)

(* ui_save_device: a new device has no roles yet.                          *)
SaveWithTemplate(g, t) ==
  /\ ~saved
  /\ g \in DOMAIN groups \cup {None}
  /\ Compatible(t, CategoryOf(g))
  /\ saved' = TRUE /\ group' = g /\ template' = t
  /\ UNCHANGED <<groups, role, mappings, open, overlapped, moved>>

(* ui_patch_device: first the group with the template as it is, then the   *)
(* template, each if the request names it.                                 *)
PatchTemplate(gs, ts) ==
  LET g == IF gs = {} THEN group ELSE CHOOSE x \in gs : TRUE IN
  /\ saved
  /\ gs \subseteq DOMAIN groups \cup {None}
  /\ gs # {} => ValidTemplate(template, g)
  /\ \A t \in ts : ValidTemplate(t, g)
  /\ Run([group |-> gs \ {group}, create |-> {},
               template |-> ts \ {template}, roles |-> NoRoles,
               stale |-> FALSE])

(* ui_save_device_configuration: the group by its name, created if it is   *)
(* new, the template, and the roles.  Given role by role, the bindings r   *)
(* are all there are; given point by point, the other points keep theirs.  *)
Configure(name, t, r, roleFirst) ==
  LET final == IF roleFirst
               THEN [p \in DevicePoints |->
                       IF p \in DOMAIN r THEN r[p] ELSE None]
               ELSE Overlay(r)
      gs    == IF name = None THEN {None}
               ELSE {g \in DOMAIN groups : groups[g] = name}
  IN
  /\ saved
  /\ Compatible(t, name)
  /\ ~Clash(final)
  /\ Fit(final, t)
  /\ Run([group |-> gs \ {group},
               create |-> IF gs = {} THEN {name} ELSE {},
               template |-> {t} \ {template}, roles |-> Changed(final),
               stale |-> FALSE])

(* ui_patch_point with a logical_role.                                     *)
PatchRole(p, r) ==
  /\ saved
  /\ Fit([x \in {p} |-> r], template)
  /\ Run([group |-> {}, create |-> {}, template |-> {},
               roles |-> Changed([x \in {p} |-> r]), stale |-> FALSE])

(* ui_create_mapping_template, ui_import_mapping_template.                 *)
CreateMapping(m, t, rules) ==
  /\ m \notin DOMAIN mappings
  /\ DOMAIN rules \subseteq Templates[t].roles
  /\ mappings' = [x \in DOMAIN mappings \cup {m} |->
       IF x = m THEN [template |-> t, rules |-> rules] ELSE mappings[x]]
  /\ UNCHANGED <<groups, device, open, overlapped, moved>>

(* ui_create_mapping_template_from_device: its bindings, read now, under   *)
(* its graphic template.                                                   *)
MappingFromDevice(m) ==
  LET bound == {p \in DevicePoints : role[p] # None}
      rules == [r \in {role[p] : p \in bound} |->
                  NameOf[CHOOSE p \in bound : role[p] = r]]
  IN
  /\ m \notin DOMAIN mappings
  /\ saved /\ template # None /\ bound # {}
  /\ mappings' = [x \in DOMAIN mappings \cup {m} |->
       IF x = m THEN [template |-> template, rules |-> rules]
       ELSE mappings[x]]
  /\ UNCHANGED <<groups, device, open, overlapped, moved>>

(* ui_apply_mapping_template: a rule binds the one enabled point with its  *)
(* name, unless that point or the role is taken among the enabled points;  *)
(* of two rules that claim a point the first one has it.                   *)
Matches(rules, r) == {p \in Enabled : NameOf[p] = rules[r]}

ApplyMapping(m, order) ==
  LET rules    == mappings[m].rules
      single   == {r \in DOMAIN rules : Cardinality(Matches(rules, r)) = 1}
      first    == {r \in single : \A s \in single \ {r} :
                     Matches(rules, s) = Matches(rules, r)
                       => order[r] < order[s]}
      free     == {r \in first : \A p \in Matches(rules, r) : role[p] = None}
      binding  == {r \in free : \A p \in Enabled : role[p] # r}
  IN
  /\ saved /\ m \in DOMAIN mappings
  /\ template = mappings[m].template
  /\ Run([group |-> {}, create |-> {}, template |-> {},
               roles |-> [p \in UNION {Matches(rules, r) : r \in binding} |->
                            CHOOSE r \in binding : p \in Matches(rules, r)],
               stale |-> FALSE])

-----------------------------------------------------------------------------
(* What requests give: by role, the point of each; by point, the role of   *)
(* each, or none.                                                          *)
Bindings == UNION {[ps -> Roles] : ps \in SUBSET DevicePoints}
Assignments ==
  UNION {[ps -> Roles \cup {None}] :
           ps \in {s \in SUBSET DevicePoints : Cardinality(s) <= MaxEdited}}

GroupStep ==
  \/ \E g \in Groups, n \in Categories : CreateGroup(g, n) \/ RenameGroup(g, n)
  \/ \E g \in Groups : DeleteGroup(g) \/ ImportGroup(g)

DeviceStep ==
  \/ \E g \in Groups \cup {None}, t \in Keys \cup {None} :
       SaveWithTemplate(g, t)
  \/ \E gs \in {{}} \cup {{g} : g \in Groups \cup {None}},
        ts \in {{}} \cup {{t} : t \in Keys \cup {None}} : PatchTemplate(gs, ts)
  \/ \E n \in Categories \cup {None}, t \in Keys \cup {None} :
       \/ \E r \in Bindings : Configure(n, t, r, TRUE)
       \/ \E r \in Assignments : Configure(n, t, r, FALSE)
  \/ \E p \in DevicePoints, r \in Roles \cup {None} : PatchRole(p, r)
  \/ \E w \in Workers, g \in Groups : Commit(w, g)
  \/ \E w \in Workers : Abort(w)

MappingStep ==
  \/ \E m \in Mappings : \/ MappingFromDevice(m)
                         \/ \E t \in Keys, rules \in Rules :
                              CreateMapping(m, t, rules)
  \/ \E m \in Mappings,
        order \in {f \in [Roles -> 1..Cardinality(Roles)] :
                     \A r, s \in Roles : f[r] = f[s] => r = s} :
       ApplyMapping(m, order)

RolesNext == GroupStep \/ DeviceStep \/ MappingStep

RolesSpec == RolesInit /\ [][RolesNext]_rolesVars

-----------------------------------------------------------------------------
(* Properties.                                                             *)

(* A bound role belongs to the device's template, if it has one (taking    *)
(* the template away leaves the roles).  Every handler checks its own      *)
(* change, so it takes two that overlap to break this: one binds a role    *)
(* while the other changes the template.                                   *)
RolesFitUnlessOverlapped ==
  ~overlapped /\ template # None => Fit(role, template)

(* The template is one for the device's category, unless handlers          *)
(* overlapped or the category changed under it: renaming or deleting the   *)
(* group and importing a commissioning template do not look.               *)
CategoryFitsUnlessMoved ==
  ~overlapped /\ ~moved => Compatible(template, CategoryOf(group))
=============================================================================
