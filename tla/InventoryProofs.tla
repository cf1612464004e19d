--------------------------- MODULE InventoryProofs ---------------------------
(***************************************************************************)
(* Inventory: a point that is retired stays without a trend, and a point   *)
(* has the address of its device unless handlers that write it overlapped  *)
(* or a snapshot left it out, whichever handlers run at the same time.     *)
(*                                                                         *)
(* EquipmentRoles: the roles that points are bound to fit the template of  *)
(* their device, and the template suits its category, as long as no        *)
(* transaction is overtaken by another one.                                *)
(***************************************************************************)
EXTENDS Inventory, EquipmentRoles, TLAPS

(* What the commit of a handler would make of the columns.                 *)
After(w) == [c \in Columns |-> Updated(db[c], w[c])]

(* A retirement switches off what it retires unless others do.             *)
StopsWillBeOff ==
  \A r \in Requests : pending[r] # Idle =>
    \A p \in stops[r] \cap Trended : /\ p \in DOMAIN pending[r].writes.trend
                                     /\ ~pending[r].writes.trend[p]

(* A handler that nobody has overtaken writes addresses of new points and  *)
(* of those it names, and leaves them with the instance of their device.   *)
CopiesFrom(w, named, ds) ==
  \A p \in SavedPoints \cup DOMAIN w.address : p[1] \notin ds =>
    /\ p \in named \/ p \notin SavedPoints =>
         After(w).address[p] = After(w).instance[p[1]]
    /\ p \in DOMAIN w.address => p \in named \/ p \notin SavedPoints

CopiesWhatItRead ==
  \A r \in Requests : pending[r] # Idle =>
    CopiesFrom(pending[r].writes, pending[r].named, late[r])

InventoryInv ==
  /\ TypeOK
  /\ RetiredStaysStopped /\ StopsWillBeOff
  /\ AddressIsCopied /\ CopiesWhatItRead

(* What a handler keeps of the values it assigns has their types ...       *)
LEMMA NetChangeIsSound ==
  ASSUME TypeOK, NEW a, Sound(a)
  PROVE  Sound(NetChange(a))
<1> DEFINE w == NetChange(a)
<1>1. \A c \in Columns : /\ DOMAIN w[c] \subseteq DOMAIN a[c]
                         /\ \A x \in DOMAIN w[c] : w[c][x] = a[c][x]
                         /\ \A x \in DOMAIN a[c] \ DOMAIN db[c] :
                              x \in DOMAIN w[c]
  BY DEF NetChange
<1>2. Columns = {"profile", "instance", "live", "address", "enabled", "trend"}
  BY DEF Columns
<1> HIDE DEF w
<1>3. Sound(w)
  BY <1>1, <1>2 DEF Sound, IsTable, TypeOK, Saved, SavedPoints
<1> QED  BY <1>3 DEF w

(* ... and the same effect.                                                *)
LEMMA NetChangeActs ==
  ASSUME NEW a, NEW c \in Columns, NEW x \in DOMAIN db[c] \cup DOMAIN a[c]
  PROVE  /\ After(NetChange(a))[c][x] = Updated(db[c], a[c])[x]
         /\ x \in DOMAIN NetChange(a)[c] => x \in DOMAIN a[c]
  BY DEF After, NetChange, Updated

(* A handler that begins.                                                  *)
LEMMA BeginKeepsInv ==
  ASSUME InventoryInv, NEW r \in Requests, NEW a, NEW ps, NEW named,
         Begin(r, a, ps, named), Sound(a), ps \subseteq SavedPoints,
         \A p \in ps \cap Trended : p \in DOMAIN a.trend /\ ~a.trend[p],
         \A p \in DOMAIN a.address :
           /\ p \in named \/ p \notin SavedPoints
           /\ a.address[p] = Updated(db.instance, a.instance)[p[1]],
         named \subseteq DOMAIN a.address
  PROVE  InventoryInv'
<1> DEFINE w == NetChange(a)
<1>1. /\ DOMAIN pending' = Requests
      /\ pending'[r].writes = w /\ pending'[r].named = named
      /\ \A q \in Requests \ {r} : pending'[q] = pending[q]
  BY DEF Begin, InventoryInv, TypeOK
<1>2. /\ stops' = [stops EXCEPT ![r] = ps]
      /\ UNCHANGED <<db, asked, stopped, late, strayed>>
  BY DEF Begin
<1>3. \A v : Sound(v)' <=> Sound(v)
  BY <1>2 DEF Sound, Saved, SavedPoints
<1>4. TypeOK'
  BY <1>1, <1>2, <1>3, NetChangeIsSound
     DEF InventoryInv, TypeOK, Saved, SavedPoints
<1>5. \A p \in ps \cap Trended : p \in DOMAIN w.trend /\ ~w.trend[p]
  BY DEF NetChange, Trended, Columns
<1>6. StopsWillBeOff'
  BY <1>1, <1>2, <1>5 DEF StopsWillBeOff, InventoryInv, TypeOK, Trended
<1>7. RetiredStaysStopped' /\ AddressIsCopied'
  BY <1>2 DEF InventoryInv, RetiredStaysStopped, AddressIsCopied, Trended,
     SavedPoints
<1>8. CopiesFrom(w, named, late[r])
  <2> SUFFICES ASSUME NEW p \in SavedPoints \cup DOMAIN w.address
               PROVE  /\ p \in named \/ p \notin SavedPoints =>
                           After(w).address[p] = After(w).instance[p[1]]
                      /\ p \in DOMAIN w.address =>
                           p \in named \/ p \notin SavedPoints
    BY DEF CopiesFrom
  <2>1. "address" \in Columns /\ "instance" \in Columns
    BY DEF Columns
  <2>2. p \in DOMAIN w.address => p \in DOMAIN a.address
    BY <2>1 DEF NetChange
  <2>3. CASE p \in named \/ p \notin SavedPoints
    <3>1. p \in DOMAIN a.address
      BY <2>2, <2>3
    <3>2. p[1] \in DOMAIN db.instance \cup DOMAIN a.instance
      BY <3>1 DEF Sound, InventoryInv, TypeOK, SavedPoints, Saved
    <3>3. After(w).address[p] = Updated(db.address, a.address)[p]
      BY <2>1, <3>1, NetChangeActs
    <3>4. After(w).instance[p[1]] = Updated(db.instance, a.instance)[p[1]]
      BY <2>1, <3>2, NetChangeActs
    <3> QED  BY <2>3, <3>1, <3>3, <3>4 DEF Updated
  <2> QED  BY <2>2, <2>3
<1>9. \A v, n, ds : CopiesFrom(v, n, ds)' <=> CopiesFrom(v, n, ds)
  BY <1>2 DEF CopiesFrom, After, SavedPoints
<1>10. CopiesWhatItRead'
  BY <1>1, <1>2, <1>8, <1>9 DEF CopiesWhatItRead, InventoryInv
<1> QED  BY <1>4, <1>6, <1>7, <1>10 DEF InventoryInv

(* What a commit does to the columns, one by one.                          *)
LEMMA CommitUpdates ==
  ASSUME NEW r \in Requests, CommitRequest(r), NEW c \in Columns
  PROVE  LET w == pending[r].writes IN
         /\ db'[c] = Updated(db[c], w[c])
         /\ DOMAIN db'[c] = DOMAIN db[c] \cup DOMAIN w[c]
         /\ \A x \in DOMAIN w[c] : db'[c][x] = w[c][x]
         /\ \A x \in DOMAIN db[c] \ DOMAIN w[c] : db'[c][x] = db[c][x]
  BY DEF CommitRequest, Updated

(* A commit of whole rows leaves whole rows.                               *)
LEMMA CommitKeepsTypes ==
  ASSUME TypeOK, NEW r \in Requests, CommitRequest(r)
  PROVE  TypeOK' /\ Saved \subseteq Saved' /\ SavedPoints \subseteq SavedPoints'
<1> DEFINE w == pending[r].writes
<1>1. Sound(w)
  BY DEF CommitRequest, TypeOK
<1>2. \A c \in Columns :
        /\ DOMAIN db'[c] = DOMAIN db[c] \cup DOMAIN w[c]
        /\ \A x \in DOMAIN w[c] : db'[c][x] = w[c][x]
        /\ \A x \in DOMAIN db[c] \ DOMAIN w[c] : db'[c][x] = db[c][x]
  BY CommitUpdates
<1>3. Columns = {"profile", "instance", "live", "address", "enabled", "trend"}
  BY DEF Columns
<1>4. /\ Saved' = Saved \cup DOMAIN w.instance
      /\ SavedPoints' = SavedPoints \cup DOMAIN w.address
  BY <1>2, <1>3 DEF Saved, SavedPoints
<1> HIDE DEF w
<1>5. /\ DOMAIN db'.profile = Saved' /\ DOMAIN db'.live = Saved'
      /\ DOMAIN db'.enabled = SavedPoints'
  BY <1>1, <1>2, <1>3, <1>4 DEF Sound, TypeOK, Saved, SavedPoints
<1>6. SavedPoints' \subseteq Saved' \X Objects
  BY <1>1, <1>4 DEF Sound, IsTable, TypeOK, Points
<1>7. /\ IsTable(db'.profile, Devices, Profiles \cup {NoProfile})
      /\ IsTable(db'.instance, Devices, Instances)
      /\ IsTable(db'.live, Devices, BOOLEAN)
      /\ IsTable(db'.address, Points, Instances)
      /\ IsTable(db'.enabled, Points, BOOLEAN)
      /\ IsTable(db'.trend, SavedPoints', BOOLEAN)
  BY <1>1, <1>2, <1>3, <1>4 DEF Sound, IsTable, TypeOK
<1>8. Sound(db)'
  BY <1>5, <1>7 DEF Sound, Saved, SavedPoints
<1>9. /\ DOMAIN pending' = Requests
      /\ \A q \in Requests : pending'[q] # Idle => pending'[q] = pending[q]
  BY DEF CommitRequest, TypeOK
<1>10. \A v : Sound(v) => Sound(v)'
  BY <1>4 DEF Sound, IsTable
<1>11. \A q \in Requests :
         (pending[q] # Idle => Sound(pending[q].writes))'
  BY <1>9, <1>10 DEF TypeOK
<1>12. /\ stops' \in [Requests -> SUBSET SavedPoints']
       /\ late' \in [Requests -> SUBSET Devices]
  <2>1. Readdressed(w) \subseteq Devices
    BY <1>1 DEF Readdressed, Sound, IsTable, Points
  <2>2. late' \in [Requests -> SUBSET Devices]
    BY <2>1 DEF CommitRequest, TypeOK, w
  <2>3. stops' \in [Requests -> SUBSET SavedPoints']
    BY <1>4 DEF CommitRequest, TypeOK
  <2> QED  BY <2>2, <2>3
<1>13. stopped' \subseteq SavedPoints' /\ strayed' \subseteq SavedPoints'
  BY <1>4 DEF CommitRequest, TypeOK, SavedPoints
<1>14. asked' \subseteq Saved'
  BY <1>4 DEF CommitRequest, TypeOK
<1> QED  BY <1>4, <1>5, <1>6, <1>8, <1>9, <1>11, <1>12, <1>13, <1>14
         DEF TypeOK

(* Only a commit that switches a configuration on takes a point out of the *)
(* stopped ones, and one that began to retire it switches it off.          *)
LEMMA CommitStopsTrends ==
  ASSUME InventoryInv, NEW r \in Requests, CommitRequest(r)
  PROVE  RetiredStaysStopped' /\ StopsWillBeOff'
<1> DEFINE w == pending[r].writes
<1>1. /\ DOMAIN db'.trend = DOMAIN db.trend \cup DOMAIN w.trend
      /\ \A x \in DOMAIN w.trend : db'.trend[x] = w.trend[x]
      /\ \A x \in DOMAIN db.trend \ DOMAIN w.trend : db'.trend[x] = db.trend[x]
  BY CommitUpdates DEF Columns
<1>2. Trended' \subseteq Trended \cup SwitchedOn(w)
  BY <1>1 DEF Trended, SwitchedOn
<1>3. \A p \in stops[r] \cap Trended' : p \in SwitchedOn(w)
  BY <1>1, <1>2 DEF InventoryInv, StopsWillBeOff, Trended, SwitchedOn,
     CommitRequest
<1>4. stopped' = (stopped \cup stops[r]) \ SwitchedOn(w)
  BY DEF CommitRequest
<1>5. RetiredStaysStopped'
  BY <1>2, <1>3, <1>4 DEF InventoryInv, RetiredStaysStopped
<1>6. \A q \in Requests :
        pending'[q] # Idle => /\ pending'[q] = pending[q] /\ q # r
                              /\ stops'[q] = stops[q] \ SwitchedOn(w)
  BY DEF CommitRequest, InventoryInv, TypeOK
<1>7. StopsWillBeOff'
  BY <1>2, <1>6 DEF InventoryInv, StopsWillBeOff
<1> QED  BY <1>5, <1>7

(* A device that a commit does not write an address of keeps its instance, *)
(* its points and their addresses.                                         *)
LEMMA OthersKeepAddresses ==
  ASSUME TypeOK, NEW r \in Requests, CommitRequest(r), NEW d,
         d \notin Readdressed(pending[r].writes)
  PROVE  /\ d \in Saved' <=> d \in Saved
         /\ d \in Saved => db'.instance[d] = db.instance[d]
         /\ \A p : p[1] = d =>
              /\ p \in SavedPoints' <=> p \in SavedPoints
              /\ p \in SavedPoints => db'.address[p] = db.address[p]
<1> DEFINE w == pending[r].writes
<1>1. /\ d \notin DOMAIN w.instance
      /\ \A p : p[1] = d => p \notin DOMAIN w.address
  BY DEF Readdressed
<1>2. \A c \in {"instance", "address"} :
         /\ DOMAIN db'[c] = DOMAIN db[c] \cup DOMAIN w[c]
         /\ \A x \in DOMAIN db[c] \ DOMAIN w[c] : db'[c][x] = db[c][x]
  BY CommitUpdates DEF Columns
<1> QED  BY <1>1, <1>2 DEF Saved, SavedPoints

(* Handlers that were not overtaken so far still copy what there is.       *)
LEMMA CommitKeepsCopies ==
  ASSUME InventoryInv, NEW r \in Requests, CommitRequest(r)
  PROVE  CopiesWhatItRead'
<1> SUFFICES ASSUME NEW q \in Requests, pending'[q] # Idle
             PROVE  CopiesFrom(pending[q].writes, pending[q].named, late[q])'
  BY DEF CopiesWhatItRead
<1>1. /\ q # r /\ pending[q] # Idle /\ pending'[q] = pending[q]
      /\ late'[q] = late[q] \cup Readdressed(pending[r].writes)
  BY DEF CommitRequest, InventoryInv, TypeOK
<1>2. PICK w, named : w = pending[q].writes /\ named = pending[q].named
  OBVIOUS
<1>3. CopiesFrom(w, named, late[q]) /\ Sound(w)
  BY <1>1, <1>2 DEF InventoryInv, CopiesWhatItRead, TypeOK
<1>4. SUFFICES ASSUME NEW p \in SavedPoints' \cup DOMAIN w.address,
                      p[1] \notin late'[q]
               PROVE  /\ p \in named \/ p \notin SavedPoints' =>
                           Updated(db'.address, w.address)[p]
                             = Updated(db'.instance, w.instance)[p[1]]
                      /\ p \in DOMAIN w.address =>
                           p \in named \/ p \notin SavedPoints'
  BY <1>1, <1>2 DEF CopiesFrom, After, Columns
<1>5. p[1] \notin late[q] /\ p[1] \notin Readdressed(pending[r].writes)
  BY <1>1, <1>4
<1>6. /\ p[1] \in Saved' <=> p[1] \in Saved
      /\ p[1] \in Saved => db'.instance[p[1]] = db.instance[p[1]]
      /\ p \in SavedPoints' <=> p \in SavedPoints
      /\ p \in SavedPoints => db'.address[p] = db.address[p]
  BY <1>5, OthersKeepAddresses DEF InventoryInv
<1>7. /\ p \in named \/ p \notin SavedPoints =>
           Updated(db.address, w.address)[p]
             = Updated(db.instance, w.instance)[p[1]]
      /\ p \in DOMAIN w.address => p \in named \/ p \notin SavedPoints
  BY <1>3, <1>4, <1>5, <1>6 DEF CopiesFrom, After, Columns
<1>8. p[1] \in Saved \cup DOMAIN w.instance
  BY <1>3, <1>4, <1>6 DEF Sound, InventoryInv, TypeOK
<1>9. /\ Updated(db'.address, w.address)[p] = Updated(db.address, w.address)[p]
      /\ Updated(db'.instance, w.instance)[p[1]]
           = Updated(db.instance, w.instance)[p[1]]
  BY <1>4, <1>6, <1>8 DEF Updated, Saved, SavedPoints
<1> QED  BY <1>6, <1>7, <1>9

(* A commit leaves the points that are not strayed with the instance of    *)
(* their device.                                                           *)
LEMMA CommitCopies ==
  ASSUME InventoryInv, NEW r \in Requests, CommitRequest(r)
  PROVE  AddressIsCopied'
<1> DEFINE w == pending[r].writes
<1> SUFFICES ASSUME NEW p \in SavedPoints' \ strayed'
             PROVE  db'.address[p] = db'.instance[p[1]]
  BY DEF AddressIsCopied
<1>1. /\ p[1] \in late[r] =>
           p \notin strayed /\ p[1] \notin Readdressed(w)
      /\ p[1] \notin late[r] =>
           \/ p \in pending[r].named
           \/ p \notin strayed /\ p[1] \notin DOMAIN w.instance \cap Saved
  BY DEF CommitRequest, SavedPoints
<1>2. CASE p[1] \in late[r]
  <2>1. p \in SavedPoints /\ db'.address[p] = db.address[p]
    BY <1>1, <1>2, OthersKeepAddresses DEF InventoryInv
  <2>2. p[1] \in Saved
    BY <2>1 DEF InventoryInv, TypeOK
  <2> QED  BY <1>1, <1>2, <2>1, <2>2, OthersKeepAddresses
           DEF InventoryInv, AddressIsCopied
<1>3. CASE p[1] \notin late[r]
  <2>1. CopiesFrom(w, pending[r].named, late[r])
    BY DEF CommitRequest, InventoryInv, CopiesWhatItRead
  <2>2. /\ db'.address = After(w).address
        /\ db'.instance = After(w).instance
        /\ \A c \in {"instance", "address"} :
             /\ DOMAIN db'[c] = DOMAIN db[c] \cup DOMAIN w[c]
             /\ \A x \in DOMAIN db[c] \ DOMAIN w[c] : db'[c][x] = db[c][x]
    <3>1. \A c \in {"instance", "address"} : c \in Columns
      BY DEF Columns
    <3>2. \A c \in {"instance", "address"} : After(w)[c] = Updated(db[c], w[c])
      BY <3>1 DEF After
    <3> HIDE DEF w
    <3>3. \A c \in {"instance", "address"} :
             /\ db'[c] = Updated(db[c], w[c])
             /\ DOMAIN db'[c] = DOMAIN db[c] \cup DOMAIN w[c]
             /\ \A x \in DOMAIN db[c] \ DOMAIN w[c] : db'[c][x] = db[c][x]
      BY <3>1, CommitUpdates DEF w
    <3> QED  BY <3>2, <3>3
  <2>3. p \in SavedPoints \cup DOMAIN w.address
    BY <2>2 DEF SavedPoints
  <2>4. CASE p \in pending[r].named \/ p \notin SavedPoints
    BY <1>3, <2>1, <2>2, <2>3, <2>4 DEF CopiesFrom
  <2>5. CASE p \notin pending[r].named /\ p \in SavedPoints
    <3>1. p \notin DOMAIN w.address
      BY <1>3, <2>1, <2>3, <2>5 DEF CopiesFrom
    <3>2. p[1] \in Saved
      BY <2>5 DEF InventoryInv, TypeOK
    <3> QED  BY <1>1, <1>3, <2>2, <2>5, <3>1, <3>2
             DEF InventoryInv, AddressIsCopied, Saved, SavedPoints
  <2> QED  BY <2>4, <2>5
<1> QED  BY <1>2, <1>3

LEMMA CommitKeepsInv ==
  ASSUME InventoryInv, NEW r \in Requests, CommitRequest(r)
  PROVE  InventoryInv'
  BY CommitKeepsTypes, CommitStopsTrends, CommitKeepsCopies, CommitCopies
     DEF InventoryInv

LEMMA RollBackKeepsInv ==
  ASSUME InventoryInv, NEW r \in Requests, RollBack(r)
  PROVE  InventoryInv'
<1>1. \A v : Sound(v)' <=> Sound(v)
  BY DEF RollBack, Sound, Saved, SavedPoints
<1>2. /\ DOMAIN pending' = Requests
      /\ \A q \in Requests : pending'[q] # Idle =>
           /\ pending'[q] = pending[q] /\ stops'[q] = stops[q]
           /\ late'[q] = late[q]
  BY DEF RollBack, InventoryInv, TypeOK
<1>3. TypeOK'
  BY <1>1, <1>2 DEF RollBack, InventoryInv, TypeOK, Saved, SavedPoints
<1>4. \A v, n, ds : CopiesFrom(v, n, ds)' <=> CopiesFrom(v, n, ds)
  BY DEF RollBack, CopiesFrom, After, SavedPoints
<1>5. CopiesWhatItRead'
  BY <1>2, <1>4 DEF InventoryInv, CopiesWhatItRead
<1>6. RetiredStaysStopped' /\ AddressIsCopied' /\ StopsWillBeOff'
  BY <1>2 DEF RollBack, InventoryInv, RetiredStaysStopped, AddressIsCopied,
     StopsWillBeOff, Trended, SavedPoints
<1> QED  BY <1>3, <1>5, <1>6 DEF InventoryInv

(* What each handler assigns.                                              *)
LEMMA EmptyTable == DOMAIN <<>> = {}
  OBVIOUS

LEMMA Flags ==
  ASSUME NEW S, NEW T
  PROVE  \A x \in S : [y \in S |-> y \in T][x] \in BOOLEAN
  OBVIOUS

LEMMA NoAddressKeepsInv ==
  ASSUME InventoryInv, NEW r \in Requests, NEW a,
         NEW ps \in SUBSET SavedPoints, Begin(r, a, ps, {}),
         Sound(a), a.address = <<>>,
         \A p \in ps \cap Trended : p \in DOMAIN a.trend /\ ~a.trend[p]
  PROVE  InventoryInv'
  BY EmptyTable, BeginKeepsInv

LEMMA SeenKeepsInv ==
  ASSUME InventoryInv, NEW r \in Requests, NEW d \in Devices,
         NEW i \in Instances, NEW os \in SUBSET Objects,
         d \in Saved => db.instance[d] = i, Assign(r, Seen(d, i, os))
  PROVE  InventoryInv'
<1> DEFINE ps == {d} \X os
           a  == Seen(d, i, os)
<1>1. /\ a.profile = Same({d} \ Saved, NoProfile)
      /\ a.instance = Same({d} \ Saved, i) /\ a.live = Same({d}, TRUE)
      /\ a.address = Same(ps \ SavedPoints, i) /\ a.enabled = Same(ps, TRUE)
      /\ a.trend = <<>>
  BY DEF Seen, Nothing, Columns
<1> HIDE DEF a
<1>2. ps \subseteq Points /\ \A p \in ps : p[1] = d
  BY DEF Points
<1>3. Sound(a)
  BY <1>1, <1>2 DEF Sound, IsTable, Same
<1>4. \A p \in DOMAIN a.address :
        /\ p \notin SavedPoints
        /\ a.address[p] = Updated(db.instance, a.instance)[p[1]]
  BY <1>1, <1>2 DEF Same, Updated, Saved
<1>5. Begin(r, a, {}, {})
  BY DEF Assign, a
<1> QED  BY <1>3, <1>4, <1>5, BeginKeepsInv

LEMMA RetireKeepsInv ==
  ASSUME InventoryInv, NEW r \in Requests, NEW ds \in SUBSET Saved,
         NEW ps \in SUBSET SavedPoints, Retire(r, ds, ps)
  PROVE  InventoryInv'
<1> DEFINE a == [Nothing EXCEPT !.live = Same(ds, FALSE),
                                !.enabled = Same(ps, FALSE),
                                !.trend = Same(ps \cap Trended, FALSE)]
<1>1. Begin(r, a, ps, {})
  BY DEF Retire
<1>2. /\ a.profile = <<>> /\ a.instance = <<>> /\ a.address = <<>>
      /\ a.live = Same(ds, FALSE) /\ a.enabled = Same(ps, FALSE)
      /\ a.trend = Same(ps \cap Trended, FALSE)
  BY DEF Nothing, Columns
<1> HIDE DEF a
<1>3. Sound(a)
  BY <1>2, EmptyTable DEF Sound, IsTable, Same, InventoryInv, TypeOK
<1>4. \A p \in ps \cap Trended : p \in DOMAIN a.trend /\ ~a.trend[p]
  BY <1>2 DEF Same
<1> QED  BY <1>1, <1>2, <1>3, <1>4, NoAddressKeepsInv

LEMMA OperatorKeepsInv ==
  ASSUME InventoryInv, NEW r \in Requests, Operator(r)
  PROVE  InventoryInv'
<1>1. ASSUME NEW d \in Devices, NEW on \in BOOLEAN, PatchDevice(r, d, on)
      PROVE  InventoryInv'
  <2> DEFINE a == [Nothing EXCEPT !.live = Same({d}, on)]
  <2>1. Begin(r, a, {}, {})
    BY <1>1 DEF PatchDevice, Assign
  <2>2. /\ a.live = Same({d}, on) /\ a.profile = <<>> /\ a.instance = <<>>
        /\ a.address = <<>> /\ a.enabled = <<>> /\ a.trend = <<>>
    BY DEF Nothing, Columns
  <2> HIDE DEF a
  <2>3. Sound(a)
    BY <1>1, <2>2, EmptyTable DEF PatchDevice, Sound, IsTable, Same
  <2> QED  BY <2>1, <2>2, <2>3, NoAddressKeepsInv
<1>2. ASSUME NEW d \in Devices, NEW i \in Instances, NEW on \in BOOLEAN,
             SaveDevice(r, d, i, on)
      PROVE  InventoryInv'
  <2> DEFINE a == [Nothing EXCEPT !.profile = Same({d}, NoProfile),
                                  !.instance = Same({d}, i),
                                  !.live = Same({d}, on)]
  <2>1. Begin(r, a, {}, {})
    BY <1>2 DEF SaveDevice, Assign
  <2>2. /\ a.profile = Same({d}, NoProfile) /\ a.instance = Same({d}, i)
        /\ a.live = Same({d}, on) /\ a.address = <<>> /\ a.enabled = <<>>
        /\ a.trend = <<>>
    BY DEF Nothing, Columns
  <2> HIDE DEF a
  <2>3. Sound(a)
    BY <2>2, EmptyTable DEF Sound, IsTable, Same
  <2> QED  BY <2>1, <2>2, <2>3, NoAddressKeepsInv
<1>3. ASSUME NEW p \in Points, NEW on \in BOOLEAN, SavePoint(r, p, on)
      PROVE  InventoryInv'
  <2> DEFINE a == [Nothing EXCEPT !.address = Same({p}, db.instance[p[1]]),
                                  !.enabled = Same({p}, on)]
  <2>1. Begin(r, a, {}, {})
    BY <1>3 DEF SavePoint, Assign
  <2>2. /\ a.enabled = Same({p}, on)
        /\ a.address = Same({p}, db.instance[p[1]]) /\ a.profile = <<>>
        /\ a.instance = <<>> /\ a.live = <<>> /\ a.trend = <<>>
    BY DEF Nothing, Columns
  <2> HIDE DEF a
  <2>3. p[1] \in Saved /\ p \notin SavedPoints
    BY <1>3 DEF SavePoint
  <2>4. Sound(a)
    BY <2>2, <2>3, EmptyTable
       DEF Sound, IsTable, Same, InventoryInv, TypeOK, Saved
  <2>5. a.address[p] = Updated(db.instance, a.instance)[p[1]]
    BY <2>2, <2>3 DEF Same, Updated, Saved
  <2>6. DOMAIN a.address = {p}
    BY <2>2 DEF Same
  <2> QED  BY <2>1, <2>2, <2>3, <2>4, <2>5, <2>6, BeginKeepsInv
<1>4. ASSUME NEW p \in Points, NEW on \in BOOLEAN, PatchPoint(r, p, on)
      PROVE  InventoryInv'
  <2> DEFINE a == [Nothing EXCEPT !.enabled = Same({p}, on)]
  <2>1. Begin(r, a, {}, {})
    BY <1>4 DEF PatchPoint, Assign
  <2>2. /\ a.enabled = Same({p}, on) /\ a.profile = <<>> /\ a.instance = <<>>
        /\ a.live = <<>> /\ a.address = <<>> /\ a.trend = <<>>
    BY DEF Nothing, Columns
  <2> HIDE DEF a
  <2>3. Sound(a)
    BY <1>4, <2>2, EmptyTable DEF PatchPoint, Sound, IsTable, Same
  <2> QED  BY <2>1, <2>2, <2>3, NoAddressKeepsInv
<1>5. ASSUME NEW d \in Devices, RemoveDevice(r, d)
      PROVE  InventoryInv'
  BY <1>5, RetireKeepsInv DEF RemoveDevice, PointsOf
<1>6. ASSUME NEW ps \in SUBSET SavedPoints, RemovePoints(r, ps)
      PROVE  InventoryInv'
  BY <1>6, RetireKeepsInv DEF RemovePoints
<1>7. ASSUME NEW ps \in SUBSET SavedPoints, NEW on \in BOOLEAN,
             PutTrends(r, ps, on)
      PROVE  InventoryInv'
  <2> DEFINE a == [Nothing EXCEPT !.trend = Same(ps, on)]
  <2>1. Begin(r, a, {}, {})
    BY <1>7 DEF PutTrends, Assign
  <2>2. /\ a.trend = Same(ps, on) /\ a.profile = <<>> /\ a.instance = <<>>
        /\ a.live = <<>> /\ a.address = <<>> /\ a.enabled = <<>>
    BY DEF Nothing, Columns
  <2> HIDE DEF a
  <2>3. Sound(a)
    BY <2>2, EmptyTable DEF Sound, IsTable, Same
  <2> QED  BY <2>1, <2>2, <2>3, NoAddressKeepsInv
<1>8. ASSUME Repair(r)
      PROVE  InventoryInv'
  <2> DEFINE a ==
        [Nothing EXCEPT !.trend = Same(Trended \ EnabledPoints, FALSE)]
  <2>1. Begin(r, a, {}, {})
    BY <1>8 DEF Repair, Assign
  <2>2. /\ a.trend = Same(Trended \ EnabledPoints, FALSE) /\ a.profile = <<>>
        /\ a.instance = <<>> /\ a.live = <<>> /\ a.address = <<>>
        /\ a.enabled = <<>>
    BY DEF Nothing, Columns
  <2> HIDE DEF a
  <2>3. Trended \subseteq SavedPoints
    BY DEF InventoryInv, TypeOK, Sound, IsTable, Trended
  <2>4. Sound(a)
    BY <2>2, <2>3, EmptyTable DEF Sound, IsTable, Same
  <2> QED  BY <2>1, <2>2, <2>4, NoAddressKeepsInv
<1> QED  BY <1>1, <1>2, <1>3, <1>4, <1>5, <1>6, <1>7, <1>8 DEF Operator

LEMMA SyncKeepsInv ==
  ASSUME InventoryInv, NEW r \in Requests, NEW s \in Snapshots,
         NEW row \in [DOMAIN s -> Devices], Sync(r, s, row)
  PROVE  InventoryInv'
<1> DEFINE a == Snapshot(s, row)
           missing == {d \in Mirrored \cap Live : db.profile[d] \notin DOMAIN s}
           rowsOf == {row[q] : q \in DOMAIN s}
           Of(d) == CHOOSE q \in DOMAIN s : row[q] = d
           incoming == Incoming(s, row)
           gone == {p \in SavedPoints : \/ p[1] \in missing
                                        \/ p[1] \in rowsOf /\ p \notin incoming}
<1>1. Begin(r, a, {}, incoming)
  BY DEF Sync
<1>2. /\ DOMAIN s \subseteq Profiles
      /\ \A q \in DOMAIN s : s[q].instance \in Instances
                            /\ s[q].objects \subseteq Objects
  BY DEF Snapshots
<1>3. \A d \in rowsOf : Of(d) \in DOMAIN s /\ row[Of(d)] = d
  OBVIOUS
<1>4. /\ rowsOf \subseteq Devices /\ missing \subseteq Saved
      /\ incoming \subseteq Points /\ \A p \in incoming : p[1] \in rowsOf
  BY <1>2 DEF Incoming, Points, Mirrored
<1>5. /\ a.profile = [d \in rowsOf |-> Of(d)]
      /\ a.instance = [d \in rowsOf |-> s[Of(d)].instance]
      /\ a.live = [d \in missing \cup rowsOf |-> d \in rowsOf]
      /\ a.address = [p \in incoming |-> s[Of(p[1])].instance]
      /\ a.enabled = [p \in gone \cup incoming |-> p \in incoming]
      /\ a.trend = <<>>
  BY DEF Snapshot, Copied
<1> HIDE DEF a, Of, missing, rowsOf, incoming, gone
<1>6. gone \subseteq SavedPoints
  BY DEF gone
<1>7. Sound(a)
  <2>1. /\ DOMAIN a.profile = rowsOf /\ DOMAIN a.instance = rowsOf
        /\ DOMAIN a.live = missing \cup rowsOf /\ DOMAIN a.address = incoming
        /\ DOMAIN a.enabled = gone \cup incoming /\ DOMAIN a.trend = {}
    BY <1>5, EmptyTable
  <2>2. /\ \A d \in rowsOf : /\ a.profile[d] \in Profiles
                             /\ a.instance[d] \in Instances
        /\ \A d \in DOMAIN a.live : a.live[d] \in BOOLEAN
        /\ \A p \in incoming : a.address[p] \in Instances
        /\ \A p \in DOMAIN a.enabled : a.enabled[p] \in BOOLEAN
    <3>1. \A d \in rowsOf : /\ Of(d) \in Profiles
                           /\ s[Of(d)].instance \in Instances
      BY <1>2, <1>3
    <3>2. \A p \in incoming : a.address[p] \in Instances
      BY <1>4, <1>5, <3>1
    <3>3. \A d \in rowsOf : /\ a.profile[d] \in Profiles
                           /\ a.instance[d] \in Instances
      BY <1>5, <3>1
    <3>4. \A d \in DOMAIN a.live : a.live[d] \in BOOLEAN
      <4>1. \A d \in missing \cup rowsOf :
              [e \in missing \cup rowsOf |-> e \in rowsOf][d] \in BOOLEAN
        BY Flags
      <4> QED  BY <1>5, <4>1
    <3>5. \A p \in DOMAIN a.enabled : a.enabled[p] \in BOOLEAN
      <4>1. \A p \in gone \cup incoming :
              [e \in gone \cup incoming |-> e \in incoming][p] \in BOOLEAN
        BY Flags
      <4> QED  BY <1>5, <4>1
    <3> QED  BY <3>2, <3>3, <3>4, <3>5
  <2>3. Saved \subseteq Devices /\ SavedPoints \subseteq Points
    BY DEF InventoryInv, TypeOK, Sound, IsTable, Saved, SavedPoints
  <2> QED  BY <1>4, <1>6, <2>1, <2>2, <2>3 DEF Sound, IsTable
<1>8. \A p \in DOMAIN a.address :
        p \in incoming /\ a.address[p] = Updated(db.instance, a.instance)[p[1]]
  BY <1>4, <1>5 DEF Updated
<1>9. incoming = DOMAIN a.address
  BY <1>5
<1> QED  BY <1>1, <1>7, <1>8, <1>9, BeginKeepsInv

LEMMA ReportKeepsInv ==
  ASSUME InventoryInv, NEW r \in Requests, Report(r)
  PROVE  InventoryInv'
<1>1. ASSUME NEW d \in Devices, NEW i \in Instances, NEW os \in SUBSET Objects,
             Import(r, d, i, os)
      PROVE  InventoryInv'
  BY <1>1, SeenKeepsInv DEF Import, Found, RowsOf, NewRow
<1>2. ASSUME NEW d \in Devices, NEW i \in Instances, ReceiveDiscovered(r, d, i)
      PROVE  InventoryInv'
  BY <1>2, SeenKeepsInv DEF ReceiveDiscovered, Found, RowsOf, NewRow
<1>3. ASSUME NEW d \in Devices, NEW os \in SUBSET Objects,
             ReceivePoints(r, d, os)
      PROVE  InventoryInv'
  <2>1. db.instance[d] \in Instances
    BY <1>3 DEF ReceivePoints, InventoryInv, TypeOK, Sound, IsTable, Saved
  <2> QED  BY <1>3, <2>1, SeenKeepsInv DEF ReceivePoints
<1> QED  BY <1>1, <1>2, <1>3, SyncKeepsInv DEF Report

(* Asking the edge for points changes no row, and neither does a stutter.  *)
LEMMA AskingKeepsInv ==
  ASSUME InventoryInv, UNCHANGED <<db, pending, history>>,
         asked' = asked \/ asked' \subseteq asked \cup Saved
  PROVE  InventoryInv'
<1>1. \A v : Sound(v)' <=> Sound(v)
  BY DEF Sound, Saved, SavedPoints
<1>2. TypeOK'
  BY <1>1 DEF InventoryInv, TypeOK, history, Saved, SavedPoints
<1>3. \A v, n, ds : CopiesFrom(v, n, ds)' <=> CopiesFrom(v, n, ds)
  BY DEF CopiesFrom, After, SavedPoints
<1>4. CopiesWhatItRead'
  BY <1>3 DEF InventoryInv, CopiesWhatItRead, history
<1>5. RetiredStaysStopped' /\ AddressIsCopied' /\ StopsWillBeOff'
  BY DEF InventoryInv, RetiredStaysStopped, AddressIsCopied, StopsWillBeOff,
     Trended, SavedPoints, history
<1> QED  BY <1>2, <1>4, <1>5 DEF InventoryInv

LEMMA InventoryInvariant == Spec => []InventoryInv
<1>1. Init => InventoryInv
  <2> SUFFICES ASSUME Init PROVE InventoryInv
    OBVIOUS
  <2>1. \A c \in Columns : db[c] = <<>> /\ DOMAIN db[c] = {}
    BY EmptyTable DEF Init, Nothing
  <2>2. /\ DOMAIN db.profile = {} /\ DOMAIN db.instance = {}
        /\ DOMAIN db.live = {} /\ DOMAIN db.address = {}
        /\ DOMAIN db.enabled = {} /\ DOMAIN db.trend = {}
    BY <2>1 DEF Columns
  <2>3. TypeOK
    BY <2>2 DEF Init, TypeOK, Sound, IsTable, Saved, SavedPoints
  <2> QED  BY <2>2, <2>3 DEF Init, InventoryInv, RetiredStaysStopped,
              StopsWillBeOff, AddressIsCopied, CopiesWhatItRead, SavedPoints
<1>2. ASSUME InventoryInv, [Next]_vars
      PROVE  InventoryInv'
  <2>1. ASSUME NEW d \in Devices, LoadPoints(d)
        PROVE  InventoryInv'
    BY <1>2, <2>1, AskingKeepsInv DEF LoadPoints, Live
  <2>2. CASE UNCHANGED vars
    BY <1>2, <2>2, AskingKeepsInv DEF vars
  <2> QED  BY <1>2, <2>1, <2>2, OperatorKeepsInv, ReportKeepsInv,
              CommitKeepsInv, RollBackKeepsInv DEF Next
<1> QED  BY <1>1, <1>2, PTL DEF Spec

(* Rows come with all their columns, a point with its device, and a trend  *)
(* configuration with its point.                                           *)
THEOREM InventoryTypesHold == Spec => []TypeOK
  BY InventoryInvariant, PTL DEF InventoryInv

(* However many handlers overlap, what an operator retired has no trend    *)
(* until somebody switches one on.                                         *)
THEOREM RetiredStays == Spec => []RetiredStaysStopped
  BY InventoryInvariant, PTL DEF InventoryInv

(* A point has the address of its device, except where a snapshot moved    *)
(* the device and left the point out, or handlers that write addresses of  *)
(* the device overlapped, and no snapshot has named it since.              *)
THEOREM AddressStaysCopied == Spec => []AddressIsCopied
  BY InventoryInvariant, PTL DEF InventoryInv

-----------------------------------------------------------------------------
(* EquipmentRoles.                                                         *)

(* What the template and the category of the device will be once a write   *)
(* is committed.                                                           *)
NewTemplate(t) ==
  IF t.template = {} THEN template ELSE CHOOSE k \in t.template : TRUE

NewCategory(t) ==
  IF t.create # {} THEN CHOOSE n \in t.create : TRUE
  ELSE CategoryOf(IF t.group = {} THEN group ELSE CHOOSE x \in t.group : TRUE)

FitsAfter(t) ==
  NewTemplate(t) # None => Fit(Overlay(t.roles), NewTemplate(t))

SuitsAfter(t) == Compatible(NewTemplate(t), NewCategory(t))

(* A device that is not saved has nothing, and nobody is about to change   *)
(* it.                                                                     *)
NothingBeforeSaved ==
  ~saved => /\ \A p \in DevicePoints : role[p] = None
            /\ \A w \in Workers : open[w] = None

(* Mapping templates hold roles of their graphic template: one that was    *)
(* made from a device has its bindings, and those fit.                     *)
MappingsFit ==
  ~overlapped => \A m \in DOMAIN mappings :
    DOMAIN mappings[m].rules \subseteq Templates[mappings[m].template].roles

(* A transaction that nobody has overtaken leaves roles that fit ...       *)
OpenFits ==
  ~overlapped => \A w \in Workers :
    open[w] # None /\ ~open[w].stale => FitsAfter(open[w])

(* ... and a template that suits the category.                             *)
OpenSuits ==
  ~overlapped /\ ~moved => \A w \in Workers :
    open[w] # None /\ ~open[w].stale => SuitsAfter(open[w])

RolesInv ==
  /\ RolesTypeOK /\ NothingBeforeSaved /\ MappingsFit
  /\ RolesFitUnlessOverlapped /\ OpenFits

CategoryInv == RolesInv /\ CategoryFitsUnlessMoved /\ OpenSuits

LEMMA TheOne == ASSUME NEW x PROVE (CHOOSE y \in {x} : TRUE) = x
  OBVIOUS

(* Transactions that are marked stale say so and keep their type.          *)
LEMMA StaleSaysSo ==
  ASSUME RolesTypeOK
  PROVE  /\ Stale \in [Workers -> Writes \cup {None}]
         /\ \A w \in Workers : Stale[w] # None => Stale[w].stale
  BY DEF RolesTypeOK, Stale, Writes

LEMMA OverlayType ==
  ASSUME RolesTypeOK, NEW t \in Writes
  PROVE  Overlay(t.roles) \in [DevicePoints -> Roles \cup {None}]
  BY DEF RolesTypeOK, Overlay, Writes

(* The pieces of a typed write.                                            *)
LEMMA PublishTypes ==
  ASSUME RolesTypeOK, NEW t \in Writes, NEW g \in Groups, Accepted(t, g),
         Publish(t, g), open' \in [Workers -> Writes \cup {None}]
  PROVE  RolesTypeOK'
  <1>1. role' \in [DevicePoints -> Roles \cup {None}]
    BY OverlayType DEF Publish
  <1>2. template' \in Keys \cup {None}
    BY DEF Publish, RolesTypeOK, Writes
  <1>3. /\ DOMAIN groups' \subseteq Groups
        /\ \A h \in DOMAIN groups' : groups'[h] \in Categories
    BY DEF Publish, RolesTypeOK, Writes
  <1>4. group' \in DOMAIN groups' \cup {None}
    BY DEF Publish, RolesTypeOK, Writes, Accepted
  <1>5. overlapped' \in BOOLEAN /\ moved' \in BOOLEAN /\ saved' \in BOOLEAN
    BY DEF Publish, RolesTypeOK, Writes
  <1> QED  BY <1>1, <1>2, <1>3, <1>4, <1>5 DEF RolesTypeOK, Publish

(* A write that fits takes effect as a whole or is kept until later.       *)
LEMMA RunKeepsInv ==
  ASSUME RolesInv, NEW t \in Writes, Run(t), saved, t.stale = FALSE,
         ~overlapped => FitsAfter(t)
  PROVE  RolesInv'
<1> USE DEF RolesInv
<1>1. CASE \E g \in Groups : Accepted(t, g) /\ Publish(t, g) /\ open' = Stale
  <2> PICK g \in Groups : Accepted(t, g) /\ Publish(t, g) /\ open' = Stale
    BY <1>1
  <2>1. RolesTypeOK'
    BY PublishTypes, StaleSaysSo
  <2>2. NothingBeforeSaved'
    BY DEF Publish, NothingBeforeSaved
  <2>3. overlapped' = overlapped
    BY DEF Publish, RolesTypeOK
  <2>4. MappingsFit'
    BY <2>3 DEF MappingsFit, Publish
  <2>5. RolesFitUnlessOverlapped'
    BY <2>3 DEF RolesFitUnlessOverlapped, FitsAfter, Publish, NewTemplate, Fit
  <2>6. OpenFits'
    BY StaleSaysSo DEF OpenFits
  <2> QED  BY <2>1, <2>2, <2>4, <2>5, <2>6
<1>2. CASE \E w \in Workers :
             /\ open[w] = None /\ open' = [open EXCEPT ![w] = t]
             /\ UNCHANGED <<groups, device, mappings, overlapped, moved>>
  <2> PICK w \in Workers :
             /\ open[w] = None /\ open' = [open EXCEPT ![w] = t]
             /\ UNCHANGED <<groups, device, mappings, overlapped, moved>>
    BY <1>2
  <2>1. RolesTypeOK'
    BY DEF RolesTypeOK, device
  <2>2. NothingBeforeSaved' /\ MappingsFit' /\ RolesFitUnlessOverlapped'
    BY DEF NothingBeforeSaved, MappingsFit, RolesFitUnlessOverlapped, Fit,
           device
  <2>3. \A u \in Writes : FitsAfter(u)' <=> FitsAfter(u)
    BY DEF FitsAfter, NewTemplate, Overlay, Fit, device
  <2>4. OpenFits'
    BY <2>3 DEF OpenFits, RolesTypeOK, device
  <2> QED  BY <2>1, <2>2, <2>4
<1> QED  BY <1>1, <1>2 DEF Run

LEMMA PublishedCategory ==
  ASSUME NEW t, NEW g \in Groups, Accepted(t, g), Publish(t, g)
  PROVE  CategoryOf(group)' = NewCategory(t)
  <1>1. CASE t.create # {}
    <2>1. g \notin DOMAIN groups
      BY <1>1 DEF Accepted
    <2>2. group' = g
      BY <1>1 DEF Publish
    <2>3. g \in DOMAIN groups' /\ groups'[g] = CHOOSE n \in t.create : TRUE
      BY <1>1, <2>1 DEF Publish
    <2> QED  BY <1>1, <2>2, <2>3 DEF NewCategory, CategoryOf
  <1>2. CASE t.create = {}
    <2>1. groups' = [x \in DOMAIN groups |-> groups[x]]
      BY <1>2 DEF Publish
    <2>2. group' = IF t.group = {} THEN group
                   ELSE CHOOSE x \in t.group : TRUE
      BY <1>2 DEF Publish
    <2> QED  BY <1>2, <2>1, <2>2 DEF NewCategory, CategoryOf
  <1> QED  BY <1>1, <1>2

LEMMA RunKeepsCategory ==
  ASSUME CategoryInv, NEW t \in Writes, Run(t), saved, t.stale = FALSE,
         ~overlapped /\ ~moved => SuitsAfter(t)
  PROVE  CategoryFitsUnlessMoved' /\ OpenSuits'
<1> USE DEF CategoryInv, RolesInv
<1>1. CASE \E g \in Groups : Accepted(t, g) /\ Publish(t, g) /\ open' = Stale
  <2> PICK g \in Groups : Accepted(t, g) /\ Publish(t, g) /\ open' = Stale
    BY <1>1
  <2>1. overlapped' = overlapped /\ moved' = moved
    BY DEF Publish, RolesTypeOK
  <2>2. CategoryOf(group)' = NewCategory(t)
    BY PublishedCategory
  <2>3. template' = NewTemplate(t)
    BY DEF Publish, NewTemplate
  <2>4. CategoryFitsUnlessMoved'
    BY <2>1, <2>2, <2>3 DEF CategoryFitsUnlessMoved, SuitsAfter, Compatible
  <2>5. OpenSuits'
    BY StaleSaysSo DEF OpenSuits
  <2> QED  BY <2>4, <2>5
<1>2. CASE \E w \in Workers :
             /\ open[w] = None /\ open' = [open EXCEPT ![w] = t]
             /\ UNCHANGED <<groups, device, mappings, overlapped, moved>>
  <2> PICK w \in Workers :
             /\ open[w] = None /\ open' = [open EXCEPT ![w] = t]
             /\ UNCHANGED <<groups, device, mappings, overlapped, moved>>
    BY <1>2
  <2>1. CategoryFitsUnlessMoved'
    BY DEF CategoryFitsUnlessMoved, Compatible, CategoryOf, device
  <2>2. \A u \in Writes : SuitsAfter(u)' <=> SuitsAfter(u)
    BY DEF SuitsAfter, NewTemplate, NewCategory, CategoryOf, Compatible, device
  <2>3. OpenSuits'
    BY <2>2 DEF OpenSuits, RolesTypeOK, device
  <2> QED  BY <2>1, <2>3
<1> QED  BY <1>1, <1>2 DEF Run

-----------------------------------------------------------------------------
(* What each handler is about to write.                                    *)

LEMMA ChangedType ==
  ASSUME NEW ps \in SUBSET DevicePoints, NEW r \in [ps -> Roles \cup {None}]
  PROVE  Changed(r) \in UNION {[qs -> Roles \cup {None}] :
                                  qs \in SUBSET DevicePoints}
  <1> DEFINE qs == {x \in DOMAIN r : r[x] # role[x]}
  <1>1. qs \in SUBSET DevicePoints
    OBVIOUS
  <1>2. Changed(r) \in [qs -> Roles \cup {None}]
    BY DEF Changed
  <1> QED  BY <1>1, <1>2

(* A transaction without roles leaves them as they are.                    *)
LEMMA NoRolesKeepsAll ==
  ASSUME RolesTypeOK
  PROVE  Overlay(NoRoles) = role /\ NoRoles \in [{} -> Roles \cup {None}]
  BY DEF RolesTypeOK, Overlay, NoRoles

LEMMA PatchTemplateKeeps ==
  ASSUME NEW gs \in {{}} \cup {{g} : g \in Groups \cup {None}},
         NEW ts \in {{}} \cup {{t} : t \in Keys \cup {None}},
         PatchTemplate(gs, ts)
  PROVE  /\ RolesInv => RolesInv'
         /\ CategoryInv => CategoryFitsUnlessMoved' /\ OpenSuits'
<1> DEFINE g == IF gs = {} THEN group ELSE CHOOSE x \in gs : TRUE
           t == [group |-> gs \ {group}, create |-> {},
                 template |-> ts \ {template}, roles |-> NoRoles,
                 stale |-> FALSE]
<1> SUFFICES ASSUME RolesInv
             PROVE  /\ RolesInv'
                    /\ CategoryInv => CategoryFitsUnlessMoved' /\ OpenSuits'
  BY DEF CategoryInv
<1> USE DEF RolesInv
<1>1. Run(t) /\ saved
  BY DEF PatchTemplate
<1>2. t \in Writes
  <2>1. /\ gs \ {group} \in SUBSET (Groups \cup {None})
        /\ ts \ {template} \in SUBSET (Keys \cup {None})
    OBVIOUS
  <2>2. NoRoles \in UNION {[ps -> Roles \cup {None}] :
                             ps \in SUBSET DevicePoints}
    BY NoRolesKeepsAll
  <2> QED  BY <2>1, <2>2 DEF Writes
<1>3. /\ gs # {} => ValidTemplate(template, g)
      /\ \A x \in ts : ValidTemplate(x, g)
  BY DEF PatchTemplate
<1>4. NewTemplate(t) = template \/ NewTemplate(t) \in ts
  BY DEF NewTemplate
<1>5. ~overlapped => FitsAfter(t)
  BY <1>3, <1>4, NoRolesKeepsAll
     DEF FitsAfter, RolesFitUnlessOverlapped, ValidTemplate
<1>6. NewCategory(t) = CategoryOf(g)
  <2>1. CASE gs = {}
    BY <2>1 DEF NewCategory
  <2>2. CASE gs # {}
    <3> PICK h : gs = {h}
      BY <2>2
    <3> QED  BY TheOne DEF NewCategory
  <2> QED  BY <2>1, <2>2
<1>7. CategoryFitsUnlessMoved =>
        (~overlapped /\ ~moved => SuitsAfter(t))
  <2> SUFFICES ASSUME Compatible(template, CategoryOf(group))
               PROVE  SuitsAfter(t)
    BY DEF CategoryFitsUnlessMoved
  <2>1. CASE NewTemplate(t) \in ts
    BY <1>3, <1>6, <2>1 DEF SuitsAfter, ValidTemplate
  <2>2. CASE NewTemplate(t) = template
    BY <1>3, <1>6, <2>2 DEF SuitsAfter, ValidTemplate
  <2> QED  BY <1>4, <2>1, <2>2
<1> HIDE DEF t
<1>8. t.stale = FALSE
  BY DEF t
<1> QED  BY <1>1, <1>2, <1>5, <1>7, <1>8, RunKeepsInv, RunKeepsCategory
         DEF CategoryInv

LEMMA ConfigureKeeps ==
  ASSUME NEW name \in Categories \cup {None}, NEW k \in Keys \cup {None},
         NEW r \in Bindings \cup Assignments, NEW roleFirst \in BOOLEAN,
         Configure(name, k, r, roleFirst)
  PROVE  /\ RolesInv => RolesInv'
         /\ CategoryInv => CategoryFitsUnlessMoved' /\ OpenSuits'
<1> DEFINE final == IF roleFirst
                    THEN [p \in DevicePoints |->
                            IF p \in DOMAIN r THEN r[p] ELSE None]
                    ELSE Overlay(r)
           gs == IF name = None THEN {None}
                 ELSE {g \in DOMAIN groups : groups[g] = name}
           t == [group |-> gs \ {group},
                 create |-> IF gs = {} THEN {name} ELSE {},
                 template |-> {k} \ {template}, roles |-> Changed(final),
                 stale |-> FALSE]
<1> SUFFICES ASSUME RolesInv
             PROVE  /\ RolesInv'
                    /\ CategoryInv => CategoryFitsUnlessMoved' /\ OpenSuits'
  BY DEF CategoryInv
<1> USE DEF RolesInv
<1>1. /\ Run(t) /\ saved
      /\ Compatible(k, name)
      /\ Fit(final, k)
  BY DEF Configure
<1>2. final \in [DevicePoints -> Roles \cup {None}]
  BY DEF Overlay, RolesTypeOK, Bindings, Assignments
<1>3. /\ Changed(final) \in UNION {[ps -> Roles \cup {None}] :
                                     ps \in SUBSET DevicePoints}
      /\ Overlay(Changed(final)) = final
  <2>1. Overlay(Changed(final)) = final
    BY <1>2 DEF Overlay, Changed, RolesTypeOK
  <2> HIDE DEF final
  <2> QED  BY <1>2, <2>1, ChangedType
<1>4. gs \subseteq Groups \cup {None}
  BY DEF RolesTypeOK
<1>5. t \in Writes
  <2>1. (IF gs = {} THEN {name} ELSE {}) \subseteq Categories
    OBVIOUS
  <2>2. /\ t.group \subseteq Groups \cup {None}
        /\ t.template \subseteq Keys \cup {None}
    BY <1>4
  <2> QED  BY <1>3, <2>1, <2>2 DEF Writes
<1>6. NewTemplate(t) = k
  BY TheOne DEF NewTemplate
<1>7. FitsAfter(t)
  BY <1>1, <1>3, <1>6 DEF FitsAfter
<1>8. NewCategory(t) = name
  <2>1. CASE gs = {}
    BY <2>1, TheOne DEF NewCategory
  <2>2. CASE gs = {group}
    <3>1. NewCategory(t) = CategoryOf(group)
      BY <2>2 DEF NewCategory
    <3> QED  BY <2>2, <3>1, EquipmentRolesAssumption DEF CategoryOf, RolesTypeOK
  <2>3. CASE gs # {} /\ gs # {group}
    <3> DEFINE x == CHOOSE h \in t.group : TRUE
    <3>1. x \in gs
      BY <2>3
    <3>2. NewCategory(t) = CategoryOf(x)
      BY <2>3 DEF NewCategory
    <3>3. CategoryOf(x) = name
      <4> HIDE DEF x
      <4> QED  BY <3>1, EquipmentRolesAssumption DEF CategoryOf, RolesTypeOK
    <3> QED  BY <3>2, <3>3
  <2> QED  BY <2>1, <2>2, <2>3
<1>9. SuitsAfter(t)
  BY <1>1, <1>6, <1>8 DEF SuitsAfter
<1>10. t.stale = FALSE
  OBVIOUS
<1> HIDE DEF t
<1> QED  BY <1>1, <1>5, <1>7, <1>9, <1>10, RunKeepsInv, RunKeepsCategory
         DEF CategoryInv

LEMMA PatchRoleKeeps ==
  ASSUME NEW p \in DevicePoints, NEW r \in Roles \cup {None}, PatchRole(p, r)
  PROVE  /\ RolesInv => RolesInv'
         /\ CategoryInv => CategoryFitsUnlessMoved' /\ OpenSuits'
<1> DEFINE b == [x \in {p} |-> r]
           t == [group |-> {}, create |-> {}, template |-> {},
                 roles |-> Changed(b), stale |-> FALSE]
<1> SUFFICES ASSUME RolesInv
             PROVE  /\ RolesInv'
                    /\ CategoryInv => CategoryFitsUnlessMoved' /\ OpenSuits'
  BY DEF CategoryInv
<1> USE DEF RolesInv
<1>1. Run(t) /\ saved /\ Fit(b, template)
  BY DEF PatchRole
<1>2. t \in Writes
  <2>1. b \in [{p} -> Roles \cup {None}]
    OBVIOUS
  <2>2. t.roles \in UNION {[qs -> Roles \cup {None}] :
                             qs \in SUBSET DevicePoints}
    BY <2>1, ChangedType
  <2> QED  BY <2>2 DEF Writes
<1>3. ~overlapped => FitsAfter(t)
  BY <1>1 DEF FitsAfter, NewTemplate, Fit, Overlay, Changed,
     RolesFitUnlessOverlapped, RolesTypeOK
<1>4. CategoryFitsUnlessMoved => (~overlapped /\ ~moved => SuitsAfter(t))
  BY DEF SuitsAfter, NewTemplate, NewCategory, CategoryFitsUnlessMoved
<1>5. t.stale = FALSE
  OBVIOUS
<1> HIDE DEF t
<1> QED  BY <1>1, <1>2, <1>3, <1>4, <1>5, RunKeepsInv, RunKeepsCategory
         DEF CategoryInv

LEMMA ApplyMappingKeeps ==
  ASSUME NEW m \in Mappings, NEW order, ApplyMapping(m, order)
  PROVE  /\ RolesInv => RolesInv'
         /\ CategoryInv => CategoryFitsUnlessMoved' /\ OpenSuits'
<1> DEFINE rules    == mappings[m].rules
           single   == {r \in DOMAIN rules : Cardinality(Matches(rules, r)) = 1}
           first    == {r \in single : \A s \in single \ {r} :
                          Matches(rules, s) = Matches(rules, r)
                            => order[r] < order[s]}
           free     == {r \in first : \A p \in Matches(rules, r) :
                                        role[p] = None}
           binding  == {r \in free : \A p \in Enabled : role[p] # r}
           bound    == [p \in UNION {Matches(rules, r) : r \in binding} |->
                            CHOOSE r \in binding : p \in Matches(rules, r)]
           t == [group |-> {}, create |-> {}, template |-> {},
                 roles |-> bound, stale |-> FALSE]
<1> SUFFICES ASSUME RolesInv
             PROVE  /\ RolesInv'
                    /\ CategoryInv => CategoryFitsUnlessMoved' /\ OpenSuits'
  BY DEF CategoryInv
<1> USE DEF RolesInv
<1>1. /\ Run(t) /\ saved /\ m \in DOMAIN mappings
      /\ template = mappings[m].template
  BY DEF ApplyMapping
<1>2. binding \subseteq DOMAIN rules /\ DOMAIN rules \subseteq Roles
  BY <1>1 DEF RolesTypeOK
<1>3. /\ DOMAIN bound \subseteq DevicePoints
      /\ \A p \in DOMAIN bound : bound[p] \in DOMAIN rules
  <2> HIDE DEF binding
  <2>1. DOMAIN bound \subseteq DevicePoints
    BY EquipmentRolesAssumption DEF Matches
  <2>2. \A p \in DOMAIN bound : bound[p] \in binding
    OBVIOUS
  <2> QED  BY <1>2, <2>1, <2>2
<1> HIDE DEF bound
<1>4. bound = [p \in DOMAIN bound |-> bound[p]]
  <2> DEFINE covered == UNION {Matches(rules, r) : r \in binding}
  <2>1. bound = [p \in covered |->
                   CHOOSE r \in binding : p \in Matches(rules, r)]
    BY DEF bound
  <2> HIDE DEF covered, binding, rules
  <2> QED  BY <2>1
<1>5. t \in Writes
  <2>1. bound \in [DOMAIN bound -> Roles \cup {None}]
    BY <1>2, <1>3, <1>4
  <2> QED  BY <1>3, <2>1 DEF Writes
<1> HIDE DEF rules, binding
<1>6. ~overlapped => FitsAfter(t)
  <2> SUFFICES ASSUME ~overlapped, template # None,
                      NEW p \in DevicePoints, Overlay(bound)[p] # None
               PROVE  Overlay(bound)[p] \in Templates[template].roles
    BY DEF FitsAfter, NewTemplate, Fit, Overlay
  <2>1. CASE p \in DOMAIN bound
    BY <1>1, <1>3, <2>1 DEF Overlay, MappingsFit, rules
  <2>2. CASE p \notin DOMAIN bound
    BY <2>2 DEF Overlay, RolesFitUnlessOverlapped, Fit, RolesTypeOK
  <2> QED  BY <2>1, <2>2
<1>7. CategoryFitsUnlessMoved => (~overlapped /\ ~moved => SuitsAfter(t))
  BY DEF SuitsAfter, NewTemplate, NewCategory, CategoryFitsUnlessMoved
<1>8. t.stale = FALSE
  OBVIOUS
<1> HIDE DEF t
<1> QED  BY <1>1, <1>5, <1>6, <1>7, <1>8, RunKeepsInv, RunKeepsCategory
         DEF CategoryInv

LEMMA CommitKeeps ==
  ASSUME NEW w \in Workers, NEW g \in Groups, Commit(w, g)
  PROVE  /\ RolesInv => RolesInv'
         /\ CategoryInv => CategoryFitsUnlessMoved' /\ OpenSuits'
<1> DEFINE t == open[w]
<1> SUFFICES ASSUME RolesInv
             PROVE  /\ RolesInv'
                    /\ CategoryInv => CategoryFitsUnlessMoved' /\ OpenSuits'
  BY DEF CategoryInv
<1> USE DEF RolesInv
<1>1. /\ t \in Writes /\ t # None
      /\ Accepted(t, g) /\ Publish(t, g)
      /\ open' = [Stale EXCEPT ![w] = None]
  BY DEF Commit, RolesTypeOK
<1>2. /\ open' \in [Workers -> Writes \cup {None}]
      /\ \A v \in Workers : open'[v] # None => open'[v].stale
  BY <1>1, StaleSaysSo
<1>3. saved /\ saved'
  BY <1>1 DEF NothingBeforeSaved, RolesTypeOK, Publish
<1>4. overlapped' = (overlapped \/ t.stale) /\ moved' = moved
  BY <1>1 DEF Publish
<1> HIDE DEF t
<1>5. RolesTypeOK'
  BY <1>1, <1>2, PublishTypes
<1>6. NothingBeforeSaved' /\ OpenFits' /\ OpenSuits'
  BY <1>2, <1>3 DEF NothingBeforeSaved, OpenFits, OpenSuits
<1>7. MappingsFit'
  BY <1>1, <1>4 DEF MappingsFit, Publish
<1>8. RolesFitUnlessOverlapped'
  <2> SUFFICES ASSUME ~overlapped', template' # None
               PROVE  Fit(role, template)'
    BY DEF RolesFitUnlessOverlapped
  <2>1. FitsAfter(t)
    BY <1>1, <1>4 DEF OpenFits, t
  <2>2. template' = NewTemplate(t) /\ role' = Overlay(t.roles)
    BY <1>1 DEF Publish, NewTemplate
  <2> QED  BY <2>1, <2>2 DEF FitsAfter, Fit
<1>9. CategoryInv => CategoryFitsUnlessMoved'
  <2> SUFFICES ASSUME CategoryInv, ~overlapped', ~moved'
               PROVE  Compatible(template', CategoryOf(group)')
    BY DEF CategoryFitsUnlessMoved, Compatible
  <2>1. SuitsAfter(t)
    BY <1>1, <1>4 DEF OpenSuits, CategoryInv, t
  <2>2. template' = NewTemplate(t)
    BY <1>1 DEF Publish, NewTemplate
  <2>3. CategoryOf(group)' = NewCategory(t)
    BY <1>1, PublishedCategory
  <2> QED  BY <2>1, <2>2, <2>3 DEF SuitsAfter
<1> QED  BY <1>5, <1>6, <1>7, <1>8, <1>9

(* The steps that change neither the template nor roles, or only those of  *)
(* a device that is not saved yet.                                         *)
LEMMA OtherStepsKeepRoles ==
  ASSUME RolesInv,
         \/ \E g \in Groups, n \in Categories :
              CreateGroup(g, n) \/ RenameGroup(g, n)
         \/ \E g \in Groups : DeleteGroup(g) \/ ImportGroup(g)
         \/ \E g \in Groups \cup {None}, t \in Keys \cup {None} :
              SaveWithTemplate(g, t)
         \/ \E w \in Workers : Abort(w)
  PROVE  RolesInv'
<1> USE DEF RolesInv
<1>1. CASE \E g \in Groups, n \in Categories : CreateGroup(g, n)
  <2> PICK g \in Groups, n \in Categories : CreateGroup(g, n)
    BY <1>1
  <2>1. RolesTypeOK'
    BY StaleSaysSo DEF CreateGroup, RolesTypeOK, device
  <2>2. NothingBeforeSaved' /\ MappingsFit' /\ RolesFitUnlessOverlapped'
    BY DEF CreateGroup, NothingBeforeSaved, MappingsFit, Stale,
           RolesFitUnlessOverlapped, Fit, device
  <2>3. OpenFits'
    BY StaleSaysSo DEF CreateGroup, OpenFits
  <2> QED  BY <2>1, <2>2, <2>3
<1>2. CASE \E g \in Groups, n \in Categories : RenameGroup(g, n)
  <2> PICK g \in Groups, n \in Categories : RenameGroup(g, n)
    BY <1>2
  <2>1. RolesTypeOK'
    BY StaleSaysSo DEF RenameGroup, RolesTypeOK, device
  <2>2. NothingBeforeSaved' /\ MappingsFit' /\ RolesFitUnlessOverlapped'
    BY DEF RenameGroup, NothingBeforeSaved, MappingsFit, Stale,
           RolesFitUnlessOverlapped, Fit, device
  <2>3. OpenFits'
    BY StaleSaysSo DEF RenameGroup, OpenFits
  <2> QED  BY <2>1, <2>2, <2>3
<1>3. CASE \E g \in Groups : DeleteGroup(g) \/ ImportGroup(g)
  <2> PICK g \in Groups : DeleteGroup(g) \/ ImportGroup(g)
    BY <1>3
  <2>1. RolesTypeOK'
    BY StaleSaysSo DEF DeleteGroup, ImportGroup, RolesTypeOK
  <2>2. NothingBeforeSaved' /\ MappingsFit' /\ RolesFitUnlessOverlapped'
    BY DEF DeleteGroup, ImportGroup, NothingBeforeSaved, MappingsFit, Stale,
           RolesFitUnlessOverlapped, Fit
  <2>3. OpenFits'
    BY StaleSaysSo DEF DeleteGroup, ImportGroup, OpenFits
  <2> QED  BY <2>1, <2>2, <2>3
<1>4. CASE \E g \in Groups \cup {None}, t \in Keys \cup {None} :
             SaveWithTemplate(g, t)
  <2> PICK g \in Groups \cup {None}, t \in Keys \cup {None} :
             SaveWithTemplate(g, t)
    BY <1>4
  <2>1. RolesTypeOK'
    BY DEF SaveWithTemplate, RolesTypeOK
  <2>2. /\ \A p \in DevicePoints : role'[p] = None
        /\ \A w \in Workers : open'[w] = None
    BY DEF SaveWithTemplate, NothingBeforeSaved
  <2>3. NothingBeforeSaved' /\ MappingsFit' /\ OpenFits'
    BY <2>2 DEF SaveWithTemplate, NothingBeforeSaved, MappingsFit, OpenFits
  <2>4. RolesFitUnlessOverlapped'
    BY <2>1, <2>2 DEF RolesFitUnlessOverlapped, Fit, RolesTypeOK
  <2> QED  BY <2>1, <2>3, <2>4
<1>5. CASE \E w \in Workers : Abort(w)
  <2> PICK w \in Workers : Abort(w)
    BY <1>5
  <2>1. RolesTypeOK'
    BY DEF Abort, RolesTypeOK, device
  <2>2. NothingBeforeSaved' /\ MappingsFit' /\ RolesFitUnlessOverlapped'
    BY DEF Abort, NothingBeforeSaved, MappingsFit, RolesTypeOK,
           RolesFitUnlessOverlapped, Fit, device
  <2>3. \A u \in Writes : FitsAfter(u)' <=> FitsAfter(u)
    BY DEF FitsAfter, NewTemplate, Overlay, Fit, Abort, device
  <2>4. OpenFits'
    BY <2>3 DEF OpenFits, Abort, RolesTypeOK
  <2> QED  BY <2>1, <2>2, <2>4
<1> QED  BY <1>1, <1>2, <1>3, <1>4, <1>5

(* A new mapping template holds roles that its graphic template has.       *)
LEMMA MappingStepsKeepRoles ==
  ASSUME RolesInv, NEW m \in Mappings,
         MappingFromDevice(m) \/ \E t \in Keys, rules \in Rules :
                                   CreateMapping(m, t, rules)
  PROVE  /\ RolesInv'
         /\ UNCHANGED <<groups, device, open, overlapped, moved>>
<1> USE DEF RolesInv
<1>1. PICK k \in Keys, rules \in UNION {[rs -> Names] : rs \in SUBSET Roles} :
        /\ ~overlapped => DOMAIN rules \subseteq Templates[k].roles
        /\ mappings' = [x \in DOMAIN mappings \cup {m} |->
             IF x = m THEN [template |-> k, rules |-> rules] ELSE mappings[x]]
        /\ UNCHANGED <<groups, device, open, overlapped, moved>>
  <2>1. CASE \E t \in Keys, rules \in Rules : CreateMapping(m, t, rules)
    BY <2>1, EquipmentRolesAssumption DEF CreateMapping, Roles, Keys
  <2>2. CASE MappingFromDevice(m)
    <3> DEFINE bound == {p \in DevicePoints : role[p] # None}
               rules == [r \in {role[p] : p \in bound} |->
                           NameOf[CHOOSE p \in bound : role[p] = r]]
    <3>1. /\ template # None
          /\ mappings' = [x \in DOMAIN mappings \cup {m} |->
               IF x = m THEN [template |-> template, rules |-> rules]
               ELSE mappings[x]]
          /\ UNCHANGED <<groups, device, open, overlapped, moved>>
      BY <2>2 DEF MappingFromDevice
    <3>2. \A r \in {role[p] : p \in bound} :
            (CHOOSE p \in bound : role[p] = r) \in DevicePoints
      OBVIOUS
    <3>3. {role[p] : p \in bound} \subseteq Roles
      BY DEF RolesTypeOK
    <3>4. rules \in [{role[p] : p \in bound} -> Names]
      BY <3>2, EquipmentRolesAssumption
    <3>5. template \in Keys
      BY <3>1 DEF RolesTypeOK
    <3>6. ~overlapped =>
            {role[p] : p \in bound} \subseteq Templates[template].roles
      BY <3>1 DEF RolesFitUnlessOverlapped, Fit, RolesTypeOK
    <3>7. DOMAIN rules = {role[p] : p \in bound}
      OBVIOUS
    <3> HIDE DEF rules, bound
    <3> QED  BY <3>1, <3>3, <3>4, <3>5, <3>6, <3>7
  <2> QED  BY <2>1, <2>2
<1>2. RolesTypeOK'
  BY <1>1 DEF RolesTypeOK, device
<1>3. NothingBeforeSaved' /\ RolesFitUnlessOverlapped'
  BY <1>1 DEF NothingBeforeSaved, RolesFitUnlessOverlapped, Fit, device
<1>4. MappingsFit'
  BY <1>1 DEF MappingsFit
<1>5. OpenFits'
  BY <1>1 DEF OpenFits, FitsAfter, NewTemplate, Overlay, Fit, device
<1> QED  BY <1>1, <1>2, <1>3, <1>4, <1>5

(* They keep the category, or remember that it moved.                      *)
LEMMA OtherStepsKeepCategory ==
  ASSUME CategoryInv,
         \/ \E g \in Groups, n \in Categories :
              CreateGroup(g, n) \/ RenameGroup(g, n)
         \/ \E g \in Groups : DeleteGroup(g) \/ ImportGroup(g)
         \/ \E g \in Groups \cup {None}, t \in Keys \cup {None} :
              SaveWithTemplate(g, t)
         \/ \E w \in Workers : Abort(w)
  PROVE  CategoryFitsUnlessMoved' /\ OpenSuits'
<1> USE DEF CategoryInv, RolesInv
<1>1. CASE \E g \in Groups, n \in Categories :
             CreateGroup(g, n) \/ RenameGroup(g, n)
  <2> PICK g \in Groups, n \in Categories :
             CreateGroup(g, n) \/ RenameGroup(g, n)
    BY <1>1
  <2>1. OpenSuits'
    BY StaleSaysSo DEF CreateGroup, RenameGroup, OpenSuits
  <2>2. /\ UNCHANGED <<group, template, overlapped>> /\ (moved => moved')
        /\ ~moved' => CategoryOf(group)' = CategoryOf(group)
    BY EquipmentRolesAssumption
       DEF CreateGroup, RenameGroup, CategoryOf, RolesTypeOK, device
  <2>3. CategoryFitsUnlessMoved'
    BY <2>2 DEF CategoryFitsUnlessMoved, Compatible
  <2> QED  BY <2>1, <2>3
<1>2. CASE \E g \in Groups : DeleteGroup(g) \/ ImportGroup(g)
  <2> PICK g \in Groups : DeleteGroup(g) \/ ImportGroup(g)
    BY <1>2
  <2>1. OpenSuits'
    BY StaleSaysSo DEF DeleteGroup, ImportGroup, OpenSuits
  <2>2. /\ UNCHANGED <<template, overlapped>> /\ (moved => moved')
        /\ ~moved' => CategoryOf(group)' = CategoryOf(group)
    BY DEF DeleteGroup, ImportGroup, CategoryOf, RolesTypeOK
  <2>3. CategoryFitsUnlessMoved'
    BY <2>2 DEF CategoryFitsUnlessMoved, Compatible
  <2> QED  BY <2>1, <2>3
<1>3. CASE \E g \in Groups \cup {None}, t \in Keys \cup {None} :
             SaveWithTemplate(g, t)
  BY <1>3 DEF SaveWithTemplate, CategoryFitsUnlessMoved, Compatible,
     CategoryOf, OpenSuits, NothingBeforeSaved
<1>4. CASE \E w \in Workers : Abort(w)
  <2> PICK w \in Workers : Abort(w)
    BY <1>4
  <2>1. CategoryFitsUnlessMoved'
    BY DEF Abort, CategoryFitsUnlessMoved, Compatible, CategoryOf, device
  <2>2. \A u \in Writes : SuitsAfter(u)' <=> SuitsAfter(u)
    BY DEF SuitsAfter, NewTemplate, NewCategory, CategoryOf, Compatible,
           Abort, device
  <2>3. OpenSuits'
    BY <2>2 DEF OpenSuits, Abort, RolesTypeOK
  <2> QED  BY <2>1, <2>3
<1> QED  BY <1>1, <1>2, <1>3, <1>4

-----------------------------------------------------------------------------
LEMMA RolesStep ==
  ASSUME [RolesNext]_rolesVars
  PROVE  /\ RolesInv => RolesInv'
         /\ CategoryInv => CategoryFitsUnlessMoved' /\ OpenSuits'
<1>1. CASE GroupStep
  BY <1>1, OtherStepsKeepRoles, OtherStepsKeepCategory
     DEF GroupStep, CategoryInv
<1>2. CASE \E g \in Groups \cup {None}, t \in Keys \cup {None} :
             SaveWithTemplate(g, t)
  BY <1>2, OtherStepsKeepRoles, OtherStepsKeepCategory DEF CategoryInv
<1>3. CASE \E gs \in {{}} \cup {{g} : g \in Groups \cup {None}},
            ts \in {{}} \cup {{t} : t \in Keys \cup {None}} :
             PatchTemplate(gs, ts)
  BY <1>3, PatchTemplateKeeps
<1>4. CASE \E n \in Categories \cup {None}, t \in Keys \cup {None} :
             \/ \E r \in Bindings : Configure(n, t, r, TRUE)
             \/ \E r \in Assignments : Configure(n, t, r, FALSE)
  BY <1>4, ConfigureKeeps
<1>5. CASE \E p \in DevicePoints, r \in Roles \cup {None} : PatchRole(p, r)
  BY <1>5, PatchRoleKeeps
<1>6. CASE \E w \in Workers, g \in Groups : Commit(w, g)
  BY <1>6, CommitKeeps
<1>7. CASE \E w \in Workers : Abort(w)
  BY <1>7, OtherStepsKeepRoles, OtherStepsKeepCategory DEF CategoryInv
<1>8. CASE \E m \in Mappings :
             \/ MappingFromDevice(m)
             \/ \E t \in Keys, rules \in Rules : CreateMapping(m, t, rules)
  <2>1. RolesInv => /\ RolesInv'
                    /\ UNCHANGED <<groups, device, open, overlapped, moved>>
    BY <1>8, MappingStepsKeepRoles
  <2>2. CategoryInv => CategoryFitsUnlessMoved' /\ OpenSuits'
    BY <2>1 DEF CategoryInv, CategoryFitsUnlessMoved, OpenSuits, SuitsAfter,
       NewTemplate, NewCategory, CategoryOf, Compatible, device
  <2> QED  BY <2>1, <2>2
<1>9. CASE \E m \in Mappings,
            order \in {f \in [Roles -> 1..Cardinality(Roles)] :
                         \A r, s \in Roles : f[r] = f[s] => r = s} :
             ApplyMapping(m, order)
  BY <1>9, ApplyMappingKeeps
<1>10. CASE UNCHANGED rolesVars
  <2>1. UNCHANGED <<groups, saved, group, template, role, mappings, open,
                    overlapped, moved>>
    BY <1>10 DEF rolesVars, device
  <2>2. RolesInv => RolesInv'
    BY <2>1 DEF RolesInv, RolesTypeOK, NothingBeforeSaved, MappingsFit,
       RolesFitUnlessOverlapped, OpenFits, FitsAfter, NewTemplate, Overlay, Fit
  <2>3. CategoryInv => CategoryFitsUnlessMoved' /\ OpenSuits'
    BY <2>1 DEF CategoryInv, CategoryFitsUnlessMoved, OpenSuits, SuitsAfter,
       NewTemplate, NewCategory, CategoryOf, Compatible
  <2> QED  BY <2>2, <2>3
<1> QED  BY <1>1, <1>2, <1>3, <1>4, <1>5, <1>6, <1>7, <1>8, <1>9, <1>10
         DEF RolesNext, DeviceStep, MappingStep

LEMMA CategoryInvariant == RolesSpec => []CategoryInv
<1>1. RolesInit => CategoryInv
  <2> SUFFICES ASSUME RolesInit PROVE CategoryInv
    OBVIOUS
  <2>1. DOMAIN groups = {} /\ DOMAIN mappings = {}
    BY DEF RolesInit
  <2>2. RolesTypeOK
    BY <2>1 DEF RolesInit, RolesTypeOK
  <2>3. NothingBeforeSaved /\ RolesFitUnlessOverlapped /\ MappingsFit
    BY <2>1 DEF RolesInit, NothingBeforeSaved, RolesFitUnlessOverlapped,
       MappingsFit
  <2>4. OpenFits /\ OpenSuits /\ CategoryFitsUnlessMoved
    BY DEF RolesInit, OpenFits, OpenSuits, CategoryFitsUnlessMoved, Compatible
  <2> QED  BY <2>2, <2>3, <2>4 DEF CategoryInv, RolesInv
<1>2. CategoryInv /\ [RolesNext]_rolesVars => CategoryInv'
  BY RolesStep DEF CategoryInv
<1> QED  BY <1>1, <1>2, PTL DEF RolesSpec

(* The roles, templates and groups of a device keep their types.           *)
THEOREM RolesTypesHold == RolesSpec => []RolesTypeOK
  BY CategoryInvariant, PTL DEF CategoryInv, RolesInv

(* A bound role belongs to the device's template unless two handlers       *)
(* overlapped: the six handlers that assign roles or templates each check  *)
(* enough.                                                                 *)
THEOREM RolesFit == RolesSpec => []RolesFitUnlessOverlapped
  BY CategoryInvariant, PTL DEF CategoryInv, RolesInv

(* The template is one for the device's category unless handlers           *)
(* overlapped or the category changed without a look at the template.      *)
THEOREM TemplateSuits == RolesSpec => []CategoryFitsUnlessMoved
  BY CategoryInvariant, PTL DEF CategoryInv
=============================================================================
