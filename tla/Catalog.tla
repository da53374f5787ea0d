------------------------------ MODULE Catalog ------------------------------
(***************************************************************************)
(* The handlers of the management UI over the catalog tables: rooms, the   *)
(* builder, discovery, vacuum setup, backup and reset, preferences and     *)
(* users; the process that serves them, its crashes and its start, which   *)
(* bootstraps the administrator and seeds an empty catalog.                *)
(*                                                                         *)
(* A handler is a sequence of statements, each atomic; handlers of several *)
(* requests alternate between statements.  "at" is the statement a request *)
(* runs next.  Reads that only fill a page, and the statements that read   *)
(* or write two preference tables in a row, are taken together with the    *)
(* next statement of their handler.  Manager.Reload loads the catalog and  *)
(* stores the registry in two steps, with no lock over them; what it does  *)
(* to the connectors and the robots' groups is in HotReload.  Drafts,      *)
(* backups and forms passed validation (device.ValidateCatalog) where the  *)
(* handler requires it.                                                    *)
(***************************************************************************)
EXTENDS Store, SequencesExt

CONSTANTS
    Procs,      \* requests served at a time
    RobotRoom,  \* the openHAB location of the robot
    Locations,  \* the openHAB locations of the other drafts
    Modes,      \* values of the discovery settings
    Items,      \* openHAB items a user may ignore
    Workloads   \* what a behaviour starts from, what its clients do, and the
                \* bound on crashes and clients that hang up:
                \* [accounts, ops, requests, faults]

ASSUME DraftsAssumption == {RobotRoom} \union Locations \subseteq Names \union {NoName}
ASSUME ModesAssumption == "unset" \in Modes
ASSUME WorkloadsAssumption ==
    \A w \in Workloads : w.accounts \in Seq(BOOLEAN) /\ DOMAIN w.accounts \subseteq UserIds

VARIABLES
    up,         \* the process serves requests
    users,      \* accounts: whether each is an administrator
    nextUser,   \* the next id of an account
    rooms,      \* table rooms
    nextRoom,   \* its next id
    devices,    \* table devices, with vacuum_zones
    inserts,    \* rows ever inserted for devices: fresh ids are above it
    mode,       \* table settings: one key per user
    ignore,     \* table openhab_ignore
    live,       \* the registry behind the provider API: the one stored last
    fetched,    \* what the LoadAll of a reload under way answered
    backup,     \* the file exported last
    req,        \* the requests under way
    workload,   \* what the clients of this behaviour do
    quota,      \* how many requests they have left
    faults,     \* how many faults are left
    seeded,     \* history: the rooms the last seeding answered, by name
    astray,     \* history: the devices it put in another room than the named one
    latest,     \* history: the request whose load is the latest and not stored
    overtaken,  \* history: "live" was loaded before a reload that stored earlier
    unpublished \* history: a handler gave up after a write, before its reload

accounts    == <<users, nextUser>>
roomRows    == <<rooms, nextRoom>>
deviceRows  == <<devices, inserts>>
preferences == <<mode, ignore>>
tables      == <<accounts, roomRows, deviceRows, preferences>>
client      == <<backup, workload, quota>>
published   == <<live, fetched, latest, overtaken>>
registry    == <<published, unpublished>>
seeding     == <<seeded, astray>>
vars        == <<up, tables, registry, client, req, faults, seeding>>

\* A backup.  "view" and "solo" are history: what its user's devices were,
\* and that nothing overlapped the export and each was in a room of theirs.
NoFile == [rooms |-> {}, devices |-> {}, mode |-> "unset", ignore |-> {}, view |-> <<>>, solo |-> FALSE]

\* A request: the handler and its user, the statement it runs next, the row,
\* room and name it is about, what it has yet to create, what it has read.
Blank == [op |-> "none", user |-> 0, at |-> "idle", dev |-> NoDevice, room |-> NoRoom,
          name |-> NoName, names |-> <<>>, todo |-> <<>>, valid |-> TRUE, value |-> "unset",
          target |-> 0, admins |-> 0, listed |-> <<>>, file |-> NoFile, solo |-> FALSE]

Busy == {p \in Procs : req[p].at # "idle"}

\* What a device of "todo" is saved as.
Draft(d, n, z) == [id |-> d, room |-> n, zone |-> z]

Init ==
    /\ up       = FALSE
    /\ workload \in Workloads
    /\ users    = workload.accounts
    /\ nextUser = Len(users) + 1
    /\ rooms    = <<>>
    /\ nextRoom = 1
    /\ devices  = <<>>
    /\ inserts  = 0
    /\ mode     = [u \in UserIds |-> "unset"]
    /\ ignore   = [u \in UserIds |-> {}]
    /\ live     = <<>>
    /\ backup   = NoFile
    /\ req      = [p \in Procs |-> Blank]
    /\ quota    = workload.requests
    /\ faults   = workload.faults
    /\ seeded   = <<>>
    /\ astray   = {}
    /\ fetched  = [p \in Procs |-> <<>>]
    /\ latest   = {}
    /\ overtaken   = FALSE
    /\ unpublished = FALSE

-----------------------------------------------------------------------------
(* The process.                                                            *)

\* run: bootstrap the administrator if there is no account, seed the catalog
\* if there is no device, load the registry, serve.  A seeding that fails is
\* rolled back and the process exits; it will be started again.
Start ==
    LET fresh == DOMAIN users = {}
        s     == ImportCatalog(rooms, nextRoom, inserts, IF fresh THEN Admin ELSE 0)
        seeds == DOMAIN devices = {} /\ Len(Seed) > 0
        exits == seeds /\ ~Imported(s)
    IN  /\ ~up
        /\ up'       = ~exits
        /\ users'    = IF fresh THEN Put(users, Admin, TRUE) ELSE users
        /\ nextUser' = IF fresh /\ nextUser <= Admin THEN Admin + 1 ELSE nextUser
        /\ seeded'   = IF seeds THEN s.cache ELSE <<>>
        /\ IF seeds /\ ~exits
           THEN /\ rooms'    = s.rooms
                /\ nextRoom' = s.next
                /\ devices'  = SeededDevices(s)
                /\ inserts'  = s.inserts
                /\ astray'   = Astray(s)
           ELSE UNCHANGED <<rooms, nextRoom, devices, inserts, astray>>
        /\ live' = IF exits THEN <<>> ELSE LoadAll(rooms', devices')
        /\ overtaken' = FALSE /\ unpublished' = FALSE
        /\ UNCHANGED <<mode, ignore, client, req, faults, fetched, latest>>

Fault == faults > 0 /\ faults' = faults - 1

\* The process stops: requests under way are lost, what they wrote stays.
Crash ==
    /\ up
    /\ Fault
    /\ up'     = FALSE
    /\ live'   = <<>>
    /\ seeded' = <<>>
    /\ req'    = [p \in Procs |-> Blank]
    /\ fetched' = [p \in Procs |-> <<>>] /\ latest' = {}
    /\ UNCHANGED <<tables, client, overtaken, unpublished, astray>>

-----------------------------------------------------------------------------
(* Requests.                                                               *)

Form(op, u, at) == [Blank EXCEPT !.op = op, !.user = u, !.at = at]

\* CreateVacuum's devices: the parent in the robot's location, and one device
\* per segment that was given a room, in the order of the robot's list.
VacuumDevices(rooming) ==
    LET zones == SetToSeq({s \in Segments : rooming[s] # NoName})
    IN  <<Draft(VacuumId(Whole), RobotRoom, Whole)>>
        \o [i \in DOMAIN zones |-> Draft(VacuumId(zones[i]), rooming[zones[i]], zones[i])]

\* The next device to create: its room is ensured if it has one.
NextDraft(r) ==
    IF r.todo = <<>> THEN [r EXCEPT !.at = "reload"]
    ELSE [r EXCEPT !.name = Head(r.todo).room,
                   !.room = NoRoom,
                   !.at   = IF Head(r.todo).room = NoName THEN "saveDraft" ELSE "ensure"]

\* What a client of user u may send: ids come from a page and may be of
\* another user; an empty room needs no check.
RoomForm(op, u, at, r, n) == [Form(op, u, at) EXCEPT !.room = r, !.name = n]

RoomForms(u) ==
    {RoomForm("CreateRoom", u, "createRoom", NoRoom, n) : n \in Names}
    \union {RoomForm("RenameRoom", u, "rename", r, n) : r \in DOMAIN rooms, n \in Names \ LongNames}
    \union {RoomForm("DeleteRoom", u, "deleteRoom", r, NoName) : r \in DOMAIN rooms}

Placed(op, u, d, r) ==
    [Form(op, u, IF r = NoRoom THEN "save" ELSE "check") EXCEPT !.dev = d, !.room = r]

DeviceForms(u) ==
    {Placed(op, u, d, r) : op \in {"MoveDevice", "UpdateDevice"}, d \in DOMAIN devices,
                           r \in DOMAIN rooms \union {NoRoom}}
    \union {Placed("CreateDevice", u, NoDevice, r) : r \in DOMAIN rooms \union {NoRoom}}
    \union {[Form("DeleteDevice", u, "find") EXCEPT !.dev = d] : d \in DOMAIN devices}
    \union {[Form("NewDevice", u, "ensure") EXCEPT !.name = n] : n \in Locations \ {NoName}}

Discovering(u, n) ==
    NextDraft([Form("AddDiscovered", u, "next") EXCEPT !.todo = <<Draft(NoDevice, n, NoZone)>>])

Setup(u, rooming, v) ==
    [Form("CreateVacuum", u, "dropGroup") EXCEPT !.todo = VacuumDevices(rooming), !.valid = v]

DraftForms(u) ==
    {Discovering(u, n) : n \in Locations}
    \union {Setup(u, f, v) : f \in [Segments -> {RobotRoom, NoName}], v \in BOOLEAN}

Ignoring(op, u, i) == [Form(op, u, op) EXCEPT !.name = i]

PreferenceForms(u) ==
    {[Form("SetMode", u, "setMode") EXCEPT !.value = v] : v \in Modes \ {"unset"}}
    \union {Ignoring(op, u, i) : op \in {"Ignore", "Unignore"}, i \in Items}
    \union {Form("ClearIgnore", u, "ClearIgnore")}

BackupForms(u) ==
    {Form("ExportConfig", u, "readRooms"), Form("ResetConfig", u, "wipeDevices")}
    \union {[Form("ImportConfig", u, "wipeDevices") EXCEPT !.file = f] : f \in {backup} \ {NoFile}}

UserForms(u) ==
    IF ~users[u] THEN {}
    ELSE {[Form("CreateUser", u, "createUser") EXCEPT !.valid = v] : v \in BOOLEAN}
         \union {[Form("DeleteUser", u, "lookup") EXCEPT !.target = t] : t \in DOMAIN users \ {u}}

Forms(u) ==
    RoomForms(u) \union DeviceForms(u) \union DraftForms(u)
    \union PreferenceForms(u) \union BackupForms(u) \union UserForms(u)

\* A request arrives and its session's account is found (RequireLogin,
\* RequireAdmin).
Begin(p) ==
    /\ up
    /\ req[p].at = "idle"
    /\ quota > 0
    /\ quota' = quota - 1
    /\ \E u \in DOMAIN users :
         \E f \in {g \in Forms(u) : g.op \in workload.ops} :
            req' = [q \in Procs |-> IF q = p THEN [f EXCEPT !.solo = (Busy = {})]
                                    ELSE [req[q] EXCEPT !.solo = FALSE]]
    /\ UNCHANGED <<up, tables, registry, backup, workload, faults, seeding>>

At(p, s)    == up /\ req[p].at = s
Goto(p, s)  == req' = [req EXCEPT ![p].at = s]
Reply(p)    == req' = [req EXCEPT ![p] = Blank]
Served      == UNCHANGED <<up, workload, quota, faults, seeding>>

\* The client hangs up: every further statement of the request fails.  A
\* reload that has loaded goes on: it does not ask the context again.
HangUp(p) ==
    /\ up
    /\ req[p].at \notin {"idle", "publish"}
    /\ Fault
    /\ Reply(p)
    /\ unpublished' = TRUE
    /\ UNCHANGED <<up, tables, published, client, seeding>>

-----------------------------------------------------------------------------
(* Rooms and the board.                                                    *)

\* RoomRepo.Create; in Ensure a failure leaves the device without a room.
AddRoom(u, n) ==
    /\ rooms'    = Put(rooms, nextRoom, [user |-> u, name |-> n])
    /\ nextRoom' = nextRoom + 1

CreateRoom(p) ==
    LET r == req[p] IN
    /\ At(p, "createRoom")
    /\ IF Creatable(rooms, r.user, r.name) THEN AddRoom(r.user, r.name) ELSE UNCHANGED roomRows
    /\ Reply(p)
    /\ Served
    /\ UNCHANGED <<accounts, deviceRows, preferences, registry, backup>>

\* Mutant: a new name is not published.
RenameRoomMutant(p) ==
    LET r == req[p] IN
    /\ At(p, "rename")
    /\ rooms' = IF CanRename(rooms, r.user, r.room, r.name)
                THEN RenameRow(rooms, r.user, r.room, r.name) ELSE rooms
    /\ Reply(p)
    /\ Served
    /\ UNCHANGED <<accounts, nextRoom, deviceRows, preferences, registry, backup>>

RenameRoom(p) ==
    LET r == req[p] IN
    /\ At(p, "rename")
    /\ IF CanRename(rooms, r.user, r.room, r.name)
       THEN /\ rooms' = RenameRow(rooms, r.user, r.room, r.name)
            /\ Goto(p, "reload")
       ELSE UNCHANGED rooms /\ Reply(p)
    /\ Served
    /\ UNCHANGED <<accounts, nextRoom, deviceRows, preferences, registry, backup>>

\* Mutant: the id of the newest room is used again (no AUTOINCREMENT).
DeleteRoomMutant(p) ==
    LET gone == {req[p].room} \intersect OfUser(rooms, req[p].user) IN
    /\ At(p, "deleteRoom")
    /\ rooms'    = Without(rooms, gone)
    /\ nextRoom' = IF nextRoom - 1 \in gone THEN nextRoom - 1 ELSE nextRoom
    /\ devices'  = Unassign(devices, gone)
    /\ Goto(p, "reload")
    /\ Served
    /\ UNCHANGED <<accounts, inserts, preferences, registry, backup>>

DeleteRoom(p) ==
    LET gone == {req[p].room} \intersect OfUser(rooms, req[p].user) IN
    /\ At(p, "deleteRoom")
    /\ rooms'   = Without(rooms, gone)
    /\ devices' = Unassign(devices, gone)
    /\ Goto(p, "reload")
    /\ Served
    /\ UNCHANGED <<accounts, nextRoom, inserts, preferences, registry, backup>>

\* MoveDevice and the builder look the room up before they write.
CheckRoom(p) ==
    /\ At(p, "check")
    /\ IF BelongsToUser(rooms, req[p].user, req[p].room) THEN Goto(p, "save") ELSE Reply(p)
    /\ Served
    /\ UNCHANGED <<tables, registry, backup>>

MoveDevice(p) ==
    LET r == req[p] IN
    /\ At(p, "save")
    /\ r.op = "MoveDevice"
    /\ IF CanReplace(rooms, devices, r.user, r.dev, r.room)
       THEN /\ devices' = [devices EXCEPT ![r.dev].room = r.room]
            /\ Goto(p, "reload")
       ELSE UNCHANGED devices /\ Reply(p)
    /\ Served
    /\ UNCHANGED <<accounts, roomRows, inserts, preferences, registry, backup>>

\* Manager.Reload reads the catalog.
Reload(p) ==
    /\ At(p, "reload")
    /\ fetched' = [fetched EXCEPT ![p] = LoadAll(rooms, devices)]
    /\ latest'  = {p}
    /\ unpublished' = FALSE
    /\ Goto(p, "publish")
    /\ Served
    /\ UNCHANGED <<tables, backup, live, overtaken>>

\* Manager.Reload stores the registry it built of what it read, whatever
\* other requests have written, loaded or stored since.
Publish(p) ==
    /\ At(p, "publish")
    /\ live'      = fetched[p]
    /\ overtaken' = (p \notin latest)
    /\ fetched'   = [fetched EXCEPT ![p] = <<>>]
    /\ latest'    = latest \ {p}
    /\ Reply(p)
    /\ Served
    /\ UNCHANGED <<tables, backup, unpublished>>

-----------------------------------------------------------------------------
(* The builder.                                                            *)

CreateDevice(p) ==
    LET r == req[p] IN
    /\ At(p, "save")
    /\ r.op = "CreateDevice"
    /\ IF RoomExists(rooms, r.room)
       THEN /\ devices' = Put(devices, Uuid(inserts + 1), Device(r.user, r.room, NoZone))
            /\ inserts' = inserts + 1
            /\ Goto(p, "reload")
       ELSE UNCHANGED deviceRows /\ Reply(p)
    /\ Served
    /\ UNCHANGED <<accounts, roomRows, preferences, registry, backup>>

\* buildDevice fills no vacuum zone, so the replaced device has none.
UpdateDevice(p) ==
    LET r == req[p] IN
    /\ At(p, "save")
    /\ r.op = "UpdateDevice"
    /\ IF CanReplace(rooms, devices, r.user, r.dev, r.room)
       THEN /\ devices' = [devices EXCEPT ![r.dev] = Device(r.user, r.room, NoZone)]
            /\ inserts' = inserts + 1
            /\ Goto(p, "reload")
       ELSE UNCHANGED deviceRows /\ Reply(p)
    /\ Served
    /\ UNCHANGED <<accounts, roomRows, preferences, registry, backup>>

\* Mutant: the robot's parent is deleted like any device.
FindDeviceMutant(p) ==
    /\ At(p, "find")
    /\ Goto(p, "delete")
    /\ Served
    /\ UNCHANGED <<tables, registry, backup>>

\* DeleteDevice: the robot's parent takes its zones with it.
FindDevice(p) ==
    LET r == req[p] IN
    /\ At(p, "find")
    /\ Goto(p, IF Owned(devices, r.user, r.dev) /\ devices[r.dev].zone = Whole
               THEN "deleteGroup" ELSE "delete")
    /\ Served
    /\ UNCHANGED <<tables, registry, backup>>

DeleteGroup(p) ==
    /\ At(p, "deleteGroup")
    /\ devices' = Without(devices, VacuumGroup(devices, req[p].user))
    /\ Goto(p, "reload")
    /\ Served
    /\ UNCHANGED <<accounts, roomRows, inserts, preferences, registry, backup>>

DeleteDevice(p) ==
    LET r == req[p] IN
    /\ At(p, "delete")
    /\ IF Owned(devices, r.user, r.dev)
       THEN devices' = Without(devices, {r.dev}) /\ Goto(p, "reload")
       ELSE UNCHANGED devices /\ Reply(p)
    /\ Served
    /\ UNCHANGED <<accounts, roomRows, inserts, preferences, registry, backup>>

-----------------------------------------------------------------------------
(* Discovery, vacuum setup, backup and reset.                              *)

\* The next room of a backup to restore; then its devices, in rooms by name.
NextRoom(r) ==
    IF r.names = <<>> THEN [r EXCEPT !.at = "listRooms"]
    ELSE [r EXCEPT !.at = "ensure", !.name = Head(r.names), !.names = Tail(@)]

Listed(r, n) == {id \in DOMAIN r.listed : r.listed[id] = n}
NextDevice(r) ==
    IF r.todo = <<>> THEN [r EXCEPT !.at = "restore"]
    ELSE LET ids == Listed(r, Head(r.todo).room)
         IN  [r EXCEPT !.at = "saveDraft", !.room = IF ids = {} THEN NoRoom ELSE CHOOSE id \in ids : TRUE]

\* RoomRepo.Ensure answered; NoRoom if it failed.
Ensured(r, id) ==
    CASE r.op = "ImportConfig" -> NextRoom(r)
      [] r.op = "NewDevice"    -> Blank
      [] OTHER                 -> [r EXCEPT !.at = "saveDraft", !.room = id]

FindRoom(p) ==
    LET r == req[p]
        found == Named(rooms, r.user, r.name)
    IN  /\ At(p, "ensure")
        /\ IF found = {} THEN Goto(p, "makeRoom")
           ELSE req' = [req EXCEPT ![p] = Ensured(r, CHOOSE id \in found : TRUE)]
        /\ Served
        /\ UNCHANGED <<tables, registry, backup>>

MakeRoom(p) ==
    LET r == req[p] IN
    /\ At(p, "makeRoom")
    /\ IF Creatable(rooms, r.user, r.name)
       THEN AddRoom(r.user, r.name) /\ req' = [req EXCEPT ![p] = Ensured(r, nextRoom)]
       ELSE UNCHANGED roomRows      /\ req' = [req EXCEPT ![p] = Ensured(r, NoRoom)]
    /\ Served
    /\ UNCHANGED <<accounts, deviceRows, preferences, registry, backup>>

\* CreateVacuum drops the robot's group before it reads the form: a zone's
\* name that is too long leaves it at that, without a reload.
DropGroup(p) ==
    LET r == req[p] IN
    /\ At(p, "dropGroup")
    /\ devices' = Without(devices, VacuumGroup(devices, r.user))
    /\ req' = [req EXCEPT ![p] = IF r.valid THEN NextDraft(r) ELSE Blank]
    /\ unpublished' = (unpublished \/ ~r.valid)
    /\ Served
    /\ UNCHANGED <<accounts, roomRows, inserts, preferences, published, backup>>

\* SaveDevice of a draft or of a backup's device.  An import goes on after a
\* failure, the others answer it.
SaveDraft(p) ==
    LET r     == req[p]
        d     == Head(r.todo)
        id    == IF d.id = NoDevice THEN Uuid(inserts + 1) ELSE d.id
        saved == CanSave(rooms, devices, id, r.room)
        left  == [r EXCEPT !.todo = Tail(@)]
    IN  /\ At(p, "saveDraft")
        /\ IF saved
           THEN /\ devices' = Put(devices, id, Device(r.user, r.room, d.zone))
                /\ inserts' = inserts + 1
           ELSE UNCHANGED deviceRows
        /\ req' = [req EXCEPT ![p] = IF r.op = "ImportConfig" THEN NextDevice(left)
                                     ELSE IF saved THEN NextDraft(left)
                                     ELSE Blank]
        /\ unpublished' = (unpublished \/ (~saved /\ r.op = "CreateVacuum"))
        /\ Served
        /\ UNCHANGED <<accounts, roomRows, preferences, published, backup>>

\* What a user's devices look like, whatever their rooms' ids.
View(u) ==
    [d \in OfUser(devices, u) |-> <<RoomName(rooms, devices[d].room), devices[d].zone>>]

InOwnRoom(d) ==
    devices[d].room # NoRoom => BelongsToUser(rooms, devices[d].user, devices[d].room)

ReadRooms(p) ==
    LET r    == req[p]
        mine == OfUser(rooms, r.user)
    IN  /\ At(p, "readRooms")
        /\ req' = [req EXCEPT
                ![p].at     = "readDevices",
                ![p].listed = [id \in mine |-> rooms[id].name],
                ![p].file   = [NoFile EXCEPT !.rooms  = {rooms[id].name : id \in mine},
                                             !.mode   = mode[r.user],
                                             !.ignore = ignore[r.user]]]
        /\ Served
        /\ UNCHANGED <<tables, registry, backup>>

\* A device's room goes out by its name in the list read before.
ReadDevices(p) ==
    LET r    == req[p]
        mine == OfUser(devices, r.user)
        Exported(d) ==
            LET room == devices[d].room
            IN  Draft(d, IF room \in DOMAIN r.listed THEN r.listed[room] ELSE NoName, devices[d].zone)
    IN  /\ At(p, "readDevices")
        /\ backup' = [r.file EXCEPT !.devices = {Exported(d) : d \in mine},
                                    !.view    = View(r.user),
                                    !.solo    = r.solo /\ \A d \in mine : InOwnRoom(d)]
        /\ Reply(p)
        /\ Served
        /\ UNCHANGED <<tables, registry>>

\* resetUser: devices, rooms, preferences.
WipeDevices(p) ==
    /\ At(p, "wipeDevices")
    /\ devices' = Without(devices, OfUser(devices, req[p].user))
    /\ Goto(p, "wipeRooms")
    /\ Served
    /\ UNCHANGED <<accounts, roomRows, inserts, preferences, registry, backup>>

WipeRooms(p) ==
    LET gone == OfUser(rooms, req[p].user) IN
    /\ At(p, "wipeRooms")
    /\ rooms'   = Without(rooms, gone)
    /\ devices' = Unassign(devices, gone)
    /\ Goto(p, "wipePreferences")
    /\ Served
    /\ UNCHANGED <<accounts, nextRoom, inserts, preferences, registry, backup>>

\* Mutant: a reset leaves the settings.
WipePreferencesMutant(p) ==
    LET r == req[p] IN
    /\ At(p, "wipePreferences")
    /\ ignore' = [ignore EXCEPT ![r.user] = {}]
    /\ req'    = [req EXCEPT ![p] = IF r.op = "ResetConfig" THEN [r EXCEPT !.at = "reload"]
                                    ELSE NextRoom([r EXCEPT !.names = SetToSeq(r.file.rooms)])]
    /\ Served
    /\ UNCHANGED <<accounts, roomRows, deviceRows, mode, registry, backup>>

WipePreferences(p) ==
    LET r == req[p] IN
    /\ At(p, "wipePreferences")
    /\ mode'   = [mode EXCEPT ![r.user] = "unset"]
    /\ ignore' = [ignore EXCEPT ![r.user] = {}]
    /\ req'    = [req EXCEPT ![p] = IF r.op = "ResetConfig" THEN [r EXCEPT !.at = "reload"]
                                    ELSE NextRoom([r EXCEPT !.names = SetToSeq(r.file.rooms)])]
    /\ Served
    /\ UNCHANGED <<accounts, roomRows, deviceRows, registry, backup>>

ListRooms(p) ==
    LET r == req[p]
        mine == OfUser(rooms, r.user)
    IN  /\ At(p, "listRooms")
        /\ req' = [req EXCEPT ![p] = NextDevice([r EXCEPT !.listed = [id \in mine |-> rooms[id].name],
                                                          !.todo   = SetToSeq(r.file.devices)])]
        /\ Served
        /\ UNCHANGED <<tables, registry, backup>>

RestorePreferences(p) ==
    LET r == req[p] IN
    /\ At(p, "restore")
    /\ mode'   = IF r.file.mode = "unset" THEN mode ELSE [mode EXCEPT ![r.user] = r.file.mode]
    /\ ignore' = [ignore EXCEPT ![r.user] = @ \union r.file.ignore]
    /\ Goto(p, "reload")
    /\ Served
    /\ UNCHANGED <<accounts, roomRows, deviceRows, registry, backup>>

-----------------------------------------------------------------------------
(* Preferences and users.                                                  *)

SetMode(p) ==
    /\ At(p, "setMode")
    /\ mode' = [mode EXCEPT ![req[p].user] = req[p].value]
    /\ Reply(p)
    /\ Served
    /\ UNCHANGED <<accounts, roomRows, deviceRows, ignore, registry, backup>>

SetIgnored(p) ==
    LET r == req[p] IN
    /\ \/ At(p, "Ignore")      /\ ignore' = [ignore EXCEPT ![r.user] = @ \union {r.name}]
       \/ At(p, "Unignore")    /\ ignore' = [ignore EXCEPT ![r.user] = @ \ {r.name}]
       \/ At(p, "ClearIgnore") /\ ignore' = [ignore EXCEPT ![r.user] = {}]
    /\ Reply(p)
    /\ Served
    /\ UNCHANGED <<accounts, roomRows, deviceRows, mode, registry, backup>>

CreateUser(p) ==
    /\ At(p, "createUser")
    /\ nextUser \in UserIds
    /\ users'    = Put(users, nextUser, req[p].valid)
    /\ nextUser' = nextUser + 1
    /\ Reply(p)
    /\ Served
    /\ UNCHANGED <<roomRows, deviceRows, preferences, registry, backup>>

IsAdmin(u) == u \in DOMAIN users /\ users[u]
AdminIds   == {u \in DOMAIN users : users[u]}

LookupUser(p) ==
    /\ At(p, "lookup")
    /\ Goto(p, IF IsAdmin(req[p].target) THEN "countAdmins" ELSE "deleteUser")
    /\ Served
    /\ UNCHANGED <<tables, registry, backup>>

\* Mutant: the administrators are not counted.
CountAdminsMutant(p) ==
    /\ At(p, "countAdmins")
    /\ req' = [req EXCEPT ![p] = [@ EXCEPT !.at = "deleteUser", !.admins = Cardinality(AdminIds)]]
    /\ Served
    /\ UNCHANGED <<tables, registry, backup>>

CountAdmins(p) ==
    LET n == Cardinality(AdminIds) IN
    /\ At(p, "countAdmins")
    /\ req' = [req EXCEPT ![p] = IF n <= 1 THEN Blank ELSE [@ EXCEPT !.at = "deleteUser", !.admins = n]]
    /\ Served
    /\ UNCHANGED <<tables, registry, backup>>

\* What the user owned stays.
DeleteUser(p) ==
    /\ At(p, "deleteUser")
    /\ users' = Without(users, {req[p].target})
    /\ Reply(p)
    /\ Served
    /\ UNCHANGED <<nextUser, roomRows, deviceRows, preferences, registry, backup>>

-----------------------------------------------------------------------------

Statement(p) ==
    \/ CreateRoom(p) \/ RenameRoom(p) \/ DeleteRoom(p) \/ CheckRoom(p) \/ MoveDevice(p)
    \/ CreateDevice(p) \/ UpdateDevice(p) \/ FindDevice(p) \/ DeleteGroup(p) \/ DeleteDevice(p)
    \/ FindRoom(p) \/ MakeRoom(p) \/ DropGroup(p) \/ SaveDraft(p)
    \/ ReadRooms(p) \/ ReadDevices(p)
    \/ WipeDevices(p) \/ WipeRooms(p) \/ WipePreferences(p) \/ ListRooms(p) \/ RestorePreferences(p)
    \/ SetMode(p) \/ SetIgnored(p) \/ CreateUser(p) \/ LookupUser(p) \/ CountAdmins(p) \/ DeleteUser(p)
    \/ Reload(p) \/ Publish(p)

\* The clients send nothing more.
Rest == up /\ Busy = {} /\ UNCHANGED vars

Next ==
    \/ Start \/ Crash \/ Rest
    \/ \E p \in Procs : Begin(p) \/ Statement(p) \/ HangUp(p)

Spec == Init /\ [][Next]_vars

-----------------------------------------------------------------------------
(* Properties.                                                             *)

Statements == {
    "idle", "createRoom", "rename", "deleteRoom", "check", "save", "reload", "publish", "find", "deleteGroup",
    "delete", "ensure", "makeRoom", "saveDraft", "dropGroup", "readRooms", "readDevices",
    "wipeDevices", "wipeRooms", "wipePreferences", "listRooms", "restore", "setMode", "Ignore",
    "Unignore", "ClearIgnore", "createUser", "lookup", "countAdmins", "deleteUser"}

\* The types of the tables, with the keys the schema declares: ids below
\* their sequence, one room of a name per user.
TypeOK ==
    /\ up \in BOOLEAN /\ unpublished \in BOOLEAN /\ overtaken \in BOOLEAN
    /\ DOMAIN users \subseteq UserIds
    /\ \A u \in DOMAIN users : users[u] \in BOOLEAN
    /\ \A r \in DOMAIN rooms : IsRoomRow(rooms[r]) /\ r \in 1 .. nextRoom - 1
    /\ \A r, q \in DOMAIN rooms : rooms[r] = rooms[q] => r = q
    /\ \A d \in DOMAIN devices : devices[d].user \in UserIds /\ IsZone(devices[d].zone)
    /\ mode \in [UserIds -> Modes] /\ ignore \in [UserIds -> SUBSET Items]
    /\ \A p \in Procs : req[p].at \in Statements /\ req[p].user \in UserIds \union {0}

\* A device is in a room of its own user, or in none: handlers look the
\* room's owner up (finishSave, MoveDevice, Ensure) and write the device in
\* a later statement, whatever became of the room in between.  Only seeding
\* may put one elsewhere, by answering another room than the file names; such
\* a device is where seeding put it.
RoomOfOwner ==
    \A d \in DOMAIN devices : InOwnRoom(d) \/ <<d, devices[d].room>> \in astray

\* Zones whose robot's parent is gone.
Orphans ==
    {d \in DOMAIN devices :
        /\ devices[d].zone \in Segments
        /\ ~\E e \in OfUser(devices, devices[d].user) : devices[e].zone = Whole}

\* A request nothing overlapped never leaves a zone without the parent of
\* its group, at any of its statements, so not if it is cut short either.
\* Replacing the parent (UpdateDevice) and restoring a backup whose parent
\* another user holds may.
GroupsStayWhole ==
    [][\A p \in Procs :
        (req'[p] # req[p] /\ req[p].solo /\ req[p].op \notin {"UpdateDevice", "ImportConfig"})
            => Orphans' \subseteq Orphans]_vars

\* At rest the provider API serves the catalog as it is in the database:
\* every handler whose writes show loads after its last one, however handlers
\* alternate and fail.  Nothing orders the reloads that overlap: one that
\* loaded first may store last, and what it stored stays until the next
\* reload.  A client that hung up, and CreateVacuum when it refuses the form
\* or fails to save, skip the reload.
LiveIsCatalog ==
    (up /\ Busy = {} /\ ~unpublished /\ ~overtaken) => live = LoadAll(rooms, devices)

\* A backup exported and imported without overlap brings back the devices,
\* each in its room, the rooms and the preferences there were at the export,
\* whatever happened in between, unless another user holds a device's id or
\* seeding gave a room a longer name than a handler may create.
SoloImportRestores ==
    \A p \in Procs :
        LET r == req[p] IN
        (/\ r.op = "ImportConfig" /\ r.at = "reload" /\ r.solo /\ r.file.solo
         /\ r.file.rooms \intersect LongNames = {}
         /\ {d.id : d \in r.file.devices} \intersect DOMAIN devices \subseteq OfUser(devices, r.user))
        => /\ View(r.user) = r.file.view
           /\ {rooms[id].name : id \in OfUser(rooms, r.user)} = r.file.rooms
           /\ mode[r.user] = r.file.mode
           /\ ignore[r.user] = r.file.ignore

\* The last administrator is deleted only by a request that counted the
\* administrators before another request deleted one.
LastAdminNeedsRace ==
    [][(AdminIds # {} /\ AdminIds' = {})
        => \E p \in Procs : req[p].at = "deleteUser" /\ req[p].admins > Cardinality(AdminIds)]_vars

\* ensureRoom "insert if new, otherwise fetch existing id" (store/catalog.go):
\* seeding finds the rooms the administrator has.
SeedFindsRooms ==
    [][\A n \in DOMAIN seeded' :
        Taken(rooms, Admin, n) => (seeded' = seeded \/ seeded'[n] \in Named(rooms, Admin, n))]_vars

\* DeleteDevice: "Deleting a robot vacuum's parent (whole-house) removes its
\* per-room zones too" (web/builder.go).
DeleteTakesZones ==
    [][\A p \in Procs :
        (/\ req[p].op = "DeleteDevice" /\ req[p].dev = VacuumId(Whole) /\ req[p].solo
         /\ req[p].at # "reload" /\ req'[p].at = "reload")
        => \A d \in OfUser(devices', req[p].user) : devices'[d].zone \notin Segments]_vars
=============================================================================
