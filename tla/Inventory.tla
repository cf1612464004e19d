------------------------------ MODULE Inventory ------------------------------
(***************************************************************************)
(* The saved inventory of one gateway: its BACnet devices, their points    *)
(* and the trend configuration of each point, as operators, edge results,  *)
(* imported templates and the edge's own inventory snapshots change them.  *)
(*                                                                         *)
(* Every handler reads what it needs, assigns columns of the rows it has   *)
(* read and commits.  Sessions do not flush on their own, take no lock     *)
(* while they read and run under READ COMMITTED, so anything may be        *)
(* committed between the look of a handler and its own commit.  A commit   *)
(* writes the columns that differ from what the handler read, and fails as *)
(* a whole if a row it inserts is there already.  (An import or a snapshot *)
(* flushes once it has a new device, and others wait from there on to      *)
(* write the rows it holds: that takes interleavings away, and the         *)
(* properties hold without it.)                                            *)
(***************************************************************************)
EXTENDS Naturals, FiniteSets

CONSTANTS
  Devices,    \* identifiers of device rows
  Instances,  \* BACnet device instances
  Objects,    \* (object type, object instance, property) keys
  Profiles,   \* device profiles of the edge's own interface
  NoProfile,  \* a row that mirrors none
  Requests,   \* handlers that may run at the same time
  Idle,       \* nothing is handled
  MaxLoads    \* how many devices the edge is asked to load points of

Points == Devices \X Objects

ASSUME InventoryAssumption == NoProfile \notin Profiles /\ MaxLoads \in Nat

VARIABLES
  db,       \* the columns that matter, each a function of its rows
  asked,    \* devices whose points the edge was once asked to load
  pending,     \* what each handler under way will write
  \* history:
  stops,    \* points a handler retires for an operator, not trended since
  stopped,  \* points an operator has retired, not trended since
  late,     \* devices whose addresses others wrote since a handler's look
  strayed   \* points whose address may be old

history == <<stops, stopped, late, strayed>>
vars == <<db, asked, pending, history>>

Columns == {"profile",   \* edge_device_profile_id of a device
            "instance",  \* device_instance of a device
            "live",      \* enabled of a device
            "address",   \* device_instance copied to a point
            "enabled",   \* enabled of a point
            "trend"}     \* enabled of a PointTrendConfig

Saved == DOMAIN db.instance
SavedPoints == DOMAIN db.address
Live == {d \in Saved : db.live[d]}
EnabledPoints == {p \in SavedPoints : db.enabled[p]}
Trended == {p \in DOMAIN db.trend : db.trend[p]}
PointsOf(d) == {p \in SavedPoints : p[1] = d}

(* f, with the values of g where g has one.                                *)
Updated(f, g) ==
  [x \in DOMAIN f \cup DOMAIN g |-> IF x \in DOMAIN g THEN g[x] ELSE f[x]]

IsTable(f, K, V) == DOMAIN f \subseteq K /\ \A x \in DOMAIN f : f[x] \in V

(* Columns with values of their types; a row that is not saved comes with  *)
(* all its columns, a point with its device, a configuration with a point. *)
Sound(w) ==
  /\ IsTable(w.profile, Devices, Profiles \cup {NoProfile})
  /\ IsTable(w.instance, Devices, Instances)
  /\ IsTable(w.live, Devices, BOOLEAN)
  /\ IsTable(w.address, Points, Instances)
  /\ IsTable(w.enabled, Points, BOOLEAN)
  /\ IsTable(w.trend, SavedPoints, BOOLEAN)
  /\ \A d \in DOMAIN w.profile \cup DOMAIN w.instance \cup DOMAIN w.live :
       \/ d \in Saved
       \/ d \in DOMAIN w.profile \cap DOMAIN w.instance \cap DOMAIN w.live
  /\ \A p \in DOMAIN w.address \cup DOMAIN w.enabled :
       \/ p \in SavedPoints
       \/ /\ p \in DOMAIN w.address \cap DOMAIN w.enabled
          /\ p[1] \in Saved \cup DOMAIN w.instance

TypeOK ==
  /\ Sound(db)
  /\ DOMAIN db.profile = Saved /\ DOMAIN db.live = Saved
  /\ DOMAIN db.enabled = SavedPoints /\ SavedPoints \subseteq Saved \X Objects
  /\ asked \subseteq Saved
  /\ DOMAIN pending = Requests
  /\ \A r \in Requests : pending[r] # Idle => Sound(pending[r].writes)
  /\ stops \in [Requests -> SUBSET SavedPoints]
  /\ late \in [Requests -> SUBSET Devices]
  /\ stopped \subseteq SavedPoints /\ strayed \subseteq SavedPoints

Nothing == [c \in Columns |-> <<>>]

Init ==
  /\ db = Nothing
  /\ asked = {} /\ pending = [r \in Requests |-> Idle]
  /\ stops = [r \in Requests |-> {}] /\ stopped = {}
  /\ late = [r \in Requests |-> {}] /\ strayed = {}

-----------------------------------------------------------------------------
(* A handler up to its commit.                                             *)

(* Of the values a handler assigns, those that are not what it has read.   *)
NetChange(a) ==
  [c \in Columns |->
     [x \in {y \in DOMAIN a[c] : y \in DOMAIN db[c] => db[c][y] # a[c][y]}
        |-> a[c][x]]]

(* Request r has read what there is and assigned a.  ps and named are the  *)
(* points that it retires for an operator or names in a snapshot.          *)
Begin(r, a, ps, named) ==
  /\ pending[r] = Idle
  /\ pending' = [pending EXCEPT ![r] =
       [writes    |-> NetChange(a),
        newPoints |-> DOMAIN a.address \ SavedPoints,
        newTrends |-> DOMAIN a.trend \ DOMAIN db.trend,
        named     |-> named]]
  /\ stops' = [stops EXCEPT ![r] = ps]
  /\ UNCHANGED <<db, asked, stopped, late, strayed>>

Assign(r, a) == Begin(r, a, {}, {})

(* A row that is not there yet has an identifier of its own.               *)
NewRow(d) ==
  /\ d \notin Saved
  /\ \A r \in Requests :
       pending[r] # Idle => d \notin DOMAIN pending[r].writes.live

Same(xs, v) == [x \in xs |-> v]

(* ui_save_device: nothing makes the instance unique in the gateway.       *)
SaveDevice(r, d, i, on) ==
  /\ NewRow(d)
  /\ Assign(r, [Nothing EXCEPT !.profile = Same({d}, NoProfile),
                               !.instance = Same({d}, i),
                               !.live = Same({d}, on)])

(* ui_patch_device: enabled alone, its points stay as they are.            *)
PatchDevice(r, d, on) ==
  /\ d \in Saved
  /\ Assign(r, [Nothing EXCEPT !.live = Same({d}, on)])

(* ui_save_point: also under a retired device.                             *)
SavePoint(r, p, on) ==
  /\ p[1] \in Saved /\ p \notin SavedPoints
  /\ Assign(r, [Nothing EXCEPT !.address = Same({p}, db.instance[p[1]]),
                               !.enabled = Same({p}, on)])

(* ui_patch_point.                                                         *)
PatchPoint(r, p, on) ==
  /\ p \in SavedPoints
  /\ Assign(r, [Nothing EXCEPT !.enabled = Same({p}, on)])

(* ui_remove_device, ui_remove_point and ui_bulk_remove_points: with the   *)
(* points go the configurations that are seen enabled.                     *)
RetireEnabled(r, ds, ps) ==
  Begin(r, [Nothing EXCEPT !.live = Same(ds, FALSE),
                           !.enabled = Same(ps, FALSE),
                           !.trend = Same(ps \cap Trended \cap EnabledPoints,
                                          FALSE)],
        ps, {})

Retire(r, ds, ps) ==
  Begin(r, [Nothing EXCEPT !.live = Same(ds, FALSE),
                           !.enabled = Same(ps, FALSE),
                           !.trend = Same(ps \cap Trended, FALSE)],
        ps, {})

RemoveDevice(r, d) == d \in Saved /\ Retire(r, {d}, PointsOf(d))
RemovePoints(r, ps) == ps # {} /\ Retire(r, {}, ps)

(* ui_upsert_point_trend and ui_upsert_gateway_point_trends: whether the   *)
(* points are enabled does not matter.                                     *)
PutTrends(r, ps, on) ==
  /\ ps # {}
  /\ Assign(r, [Nothing EXCEPT !.trend = Same(ps, on)])

(* admin_disable_retired_trend_configs.                                    *)
Repair(r) ==
  Assign(r, [Nothing EXCEPT !.trend = Same(Trended \ EnabledPoints, FALSE)])

(* ui_load_device_points writes no row of the inventory.                   *)
LoadPoints(d) ==
  /\ d \in Live /\ Cardinality(asked) < MaxLoads
  /\ asked' = asked \cup {d}
  /\ UNCHANGED <<db, pending, history>>

-----------------------------------------------------------------------------
(* What others report.                                                     *)

RowsOf(i) == {d \in Saved : db.instance[d] = i}

(* The row that a lookup by instance finds: any of those that have it, or  *)
(* a new one.                                                              *)
Found(d, i) == IF RowsOf(i) = {} THEN NewRow(d) ELSE d \in RowsOf(i)

(* The device is active again and so are the points os of it; a point that *)
(* is known keeps its address.                                             *)
Seen(d, i, os) ==
  LET ps == {d} \X os IN
  [Nothing EXCEPT !.profile = Same({d} \ Saved, NoProfile),
                  !.instance = Same({d} \ Saved, i),
                  !.live = Same({d}, TRUE),
                  !.address = Same(ps \ SavedPoints, i),
                  !.enabled = Same(ps, TRUE)]

(* ui_import_commissioning_template, for one device of the template.       *)
Import(r, d, i, os) == Found(d, i) /\ Assign(r, Seen(d, i, os))

(* receive_job_result of a bacnet_discover job that reports i.             *)
ReceiveDiscovered(r, d, i) == Found(d, i) /\ Assign(r, Seen(d, i, {}))

(* receive_job_result of a bacnet_load_points job, late or repeated: the   *)
(* device comes back to life, whatever happened to it meanwhile.           *)
ReceivePoints(r, d, os) ==
  d \in asked /\ Assign(r, Seen(d, db.instance[d], os))

(* edge_sync_inventory: the snapshot s of the edge's profiles, each with   *)
(* its instance and its points; row is the row that mirrors each.          *)
Mirrored == {d \in Saved : db.profile[d] # NoProfile}

Mirrors(row, s) ==
  \A q \in DOMAIN s :
    /\ IF \E d \in Mirrored : db.profile[d] = q
       THEN row[q] \in Mirrored /\ db.profile[row[q]] = q
       ELSE NewRow(row[q])
    /\ \A q2 \in DOMAIN s : row[q2] = row[q] => q2 = q

Incoming(s, row) == UNION {{row[q]} \X s[q].objects : q \in DOMAIN s}

(* The points whose address is copied from the device: new ones, and those *)
(* that are known.                                                         *)
CopiedWhenNew(s, row) == Incoming(s, row) \ SavedPoints
Copied(s, row) == Incoming(s, row)

Snapshot(s, row) ==
  LET missing  == {d \in Mirrored \cap Live : db.profile[d] \notin DOMAIN s}
      rowsOf   == {row[q] : q \in DOMAIN s}
      incoming == Incoming(s, row)
      Of(d)    == CHOOSE q \in DOMAIN s : row[q] = d
      gone     == {p \in SavedPoints : \/ p[1] \in missing
                                       \/ p[1] \in rowsOf /\ p \notin incoming}
  IN  [profile  |-> [d \in rowsOf |-> Of(d)],
       instance |-> [d \in rowsOf |-> s[Of(d)].instance],
       live     |-> [d \in missing \cup rowsOf |-> d \in rowsOf],
       address  |-> [p \in Copied(s, row) |-> s[Of(p[1])].instance],
       enabled  |-> [p \in gone \cup incoming |-> p \in incoming],
       trend    |-> <<>>]

Sync(r, s, row) ==
  /\ Mirrors(row, s)
  /\ Begin(r, Snapshot(s, row), {}, Incoming(s, row))

-----------------------------------------------------------------------------
(* The commit.                                                             *)

(* A point, a configuration or the mirror of a profile that somebody else  *)
(* has inserted meanwhile.                                                 *)
Conflicts(o) ==
  \/ o.newPoints \cap SavedPoints # {}
  \/ o.newTrends \cap DOMAIN db.trend # {}
  \/ \E d \in DOMAIN o.writes.profile, e \in Mirrored :
       d # e /\ db.profile[e] = o.writes.profile[d]

SwitchedOn(w) == {p \in DOMAIN w.trend : w.trend[p]}
Readdressed(w) == DOMAIN w.instance \cup {p[1] : p \in DOMAIN w.address}

CommitRequest(r) ==
  LET o == pending[r]
      w == o.writes
  IN
  /\ o # Idle /\ ~Conflicts(o)
  /\ db' = [c \in Columns |-> Updated(db[c], w[c])]
  /\ pending' = [pending EXCEPT ![r] = Idle]
  /\ stops' = [q \in Requests |->
                IF q = r THEN {} ELSE stops[q] \ SwitchedOn(w)]
  /\ stopped' = (stopped \cup stops[r]) \ SwitchedOn(w)
  /\ late' = [q \in Requests |->
               IF q = r \/ pending[q] = Idle THEN {}
               ELSE late[q] \cup Readdressed(w)]
  /\ strayed' =
       {p \in DOMAIN db'.address :
          IF p[1] \in late[r]
          THEN p \in strayed \/ p[1] \in Readdressed(w)
          ELSE /\ p \notin o.named
               /\ p \in strayed \/ p[1] \in DOMAIN w.instance \cap Saved}
  /\ UNCHANGED asked

(* A conflict, an error of the database or a process that goes down.       *)
RollBack(r) ==
  /\ pending[r] # Idle
  /\ pending' = [pending EXCEPT ![r] = Idle]
  /\ stops' = [stops EXCEPT ![r] = {}]
  /\ late' = [late EXCEPT ![r] = {}]
  /\ UNCHANGED <<db, asked, stopped, strayed>>

-----------------------------------------------------------------------------
Snapshots == UNION {[Q -> [instance : Instances, objects : SUBSET Objects]] :
                    Q \in SUBSET Profiles}

Operator(r) ==
  \/ \E d \in Devices, on \in BOOLEAN :
       PatchDevice(r, d, on) \/ \E i \in Instances : SaveDevice(r, d, i, on)
  \/ \E p \in Points, on \in BOOLEAN :
       SavePoint(r, p, on) \/ PatchPoint(r, p, on)
  \/ \E d \in Devices : RemoveDevice(r, d)
  \/ \E ps \in SUBSET SavedPoints :
       RemovePoints(r, ps) \/ \E on \in BOOLEAN : PutTrends(r, ps, on)
  \/ Repair(r)

Report(r) ==
  \/ \E d \in Devices, i \in Instances :
       \/ ReceiveDiscovered(r, d, i)
       \/ \E os \in SUBSET Objects : Import(r, d, i, os)
  \/ \E d \in Devices, os \in SUBSET Objects : ReceivePoints(r, d, os)
  \/ \E s \in Snapshots : \E row \in [DOMAIN s -> Devices] : Sync(r, s, row)

Next ==
  \/ \E r \in Requests :
       Operator(r) \/ Report(r) \/ CommitRequest(r) \/ RollBack(r)
  \/ \E d \in Devices : LoadPoints(d)

Spec == Init /\ [][Next]_vars

-----------------------------------------------------------------------------
(* Properties.                                                             *)

(* What an operator retired stays out of the trend workload, whatever was  *)
(* committed between the look of the retirement and its commit, and also   *)
(* when an import, a late result or the edge's snapshot enables the point  *)
(* again: its trend configuration is off until somebody's commit switches  *)
(* it on.  (The defect of the GW032 incident, at                           *)
(* _disable_trend_configs_for_points.)                                     *)
RetiredStaysStopped == stopped \cap Trended = {}

(* The address that reads and trends of a point use is the instance of its *)
(* device (ERD: denormalized), although handlers copy one to the other at  *)
(* different times, unless a snapshot that moved the device left the point *)
(* out, or two handlers that write addresses of one device overlapped, and *)
(* no snapshot has named the point since.                                  *)
AddressIsCopied ==
  \A p \in SavedPoints \ strayed : db.address[p] = db.instance[p[1]]

(* Without the exceptions: a load result enables a point that a snapshot   *)
(* has left out, with the address that it had before.                      *)
AddressIsTheDevices ==
  \A p \in EnabledPoints : db.address[p] = db.instance[p[1]]
=============================================================================
