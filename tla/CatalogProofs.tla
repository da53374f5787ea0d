---------------------------- MODULE CatalogProofs ----------------------------
(***************************************************************************)
(* Proofs about Catalog, for any accounts, names, robot, file, workloads   *)
(* and number of requests.                                                 *)
(*                                                                         *)
(* The handlers meet in the tables only, so the invariant has one part     *)
(* about the tables and one about what a request has read: a room id it    *)
(* holds is a room of its user or of nobody, now and later, because ids    *)
(* are never used again; a request that wrote has a reload ahead.          *)
(*                                                                         *)
(* The last part follows a backup from its export through the import.      *)
(***************************************************************************)
EXTENDS Catalog, FiniteSetTheorems, SequenceTheorems, WellFoundedInduction, TLAPS

Zones   == {NoZone, Whole} \union Segments
RoomRow == [user : UserIds, name : Names]
Row     == [user : UserIds, room : Nat, zone : Zones]

\* The ids that devices have or had.
Ids == {Uuid(k) : k \in 1 .. inserts} \union {VacuumId(z) : z \in {Whole} \union Segments}
       \union {YamlId(k) : k \in 1 .. Len(Seed)}

Drafted == [id : Ids \union {NoDevice}, room : Names \union {NoName}, zone : Zones]

AccountsOK ==
    /\ users \in [DOMAIN users -> BOOLEAN]
    /\ nextUser \in Nat \ {0}
    /\ DOMAIN users \subseteq UserIds \intersect 1 .. nextUser - 1

RoomsOK ==
    /\ nextRoom \in Nat \ {0}
    /\ rooms \in [DOMAIN rooms -> RoomRow]
    /\ DOMAIN rooms \subseteq 1 .. nextRoom - 1
    /\ \A r, q \in DOMAIN rooms : rooms[r] = rooms[q] => r = q

\* The foreign key to a device's room.
DevicesOK ==
    /\ inserts \in Nat
    /\ devices \in [DOMAIN devices -> Row]
    /\ DOMAIN devices \subseteq Ids /\ IsFiniteSet(DOMAIN devices)
    /\ \A d \in DOMAIN devices : RoomExists(rooms, devices[d].room)

FileOK(f) ==
    /\ DOMAIN f = DOMAIN NoFile
    /\ f.rooms \subseteq Names /\ IsFiniteSet(f.rooms)
    /\ f.devices \subseteq Drafted /\ IsFiniteSet(f.devices)
    /\ f.mode \in Modes /\ f.ignore \subseteq Items

PreferencesOK ==
    /\ mode \in [UserIds -> Modes] /\ ignore \in [UserIds -> SUBSET Items]
    /\ FileOK(backup)

ProcessOK ==
    /\ up \in BOOLEAN /\ unpublished \in BOOLEAN /\ overtaken \in BOOLEAN
    /\ ~up => req = [p \in Procs |-> Blank]

TablesOK == AccountsOK /\ RoomsOK /\ DevicesOK /\ PreferencesOK /\ ProcessOK

\* A room id read for user u: the room is u's, or gone for good.
OwnId(u, id) == id \in Nat /\ id < nextRoom /\ (id \in DOMAIN rooms => rooms[id].user = u)

\* What a request has read and what it has still to create.
Carried(r) ==
    /\ DOMAIN r = DOMAIN Blank
    /\ r.at \in Statements
    /\ r.user \in UserIds \union {0}
    /\ r.at # "idle" => r.user \in UserIds
    /\ r.solo \in BOOLEAN
    /\ r.solo => r.at # "idle"
    /\ r.todo \in Seq(Drafted) /\ r.names \in Seq(Names)
    /\ FileOK(r.file)
    /\ \A id \in DOMAIN r.listed : OwnId(r.user, id) /\ r.listed[id] \in Names

Restoring   == {"wipeDevices", "wipeRooms", "wipePreferences"}
Placing     == {"ensure", "makeRoom", "saveDraft"}
Deleting    == {"lookup", "countAdmins", "deleteUser"}

\* What the statement a request runs next relies on.
Prepared(r) ==
    /\ r.at \in {"save", "saveDraft"} => OwnId(r.user, r.room)
    /\ r.at = "rename" => r.name \in Names
    /\ r.at = "setMode" => r.value \in Modes
    /\ r.at = "createUser" => r.valid \in BOOLEAN
    /\ r.at \in {"Ignore", "Unignore"} => r.name \in Items
    /\ r.at = "dropGroup" => r.op = "CreateVacuum" /\ r.todo # <<>> /\ Head(r.todo).zone = Whole
    /\ r.at \in Restoring => r.op \in {"ImportConfig", "ResetConfig"}
    /\ r.at \in {"listRooms", "restore"} => r.op = "ImportConfig"
    /\ r.at \in Placing => r.op \in {"NewDevice", "AddDiscovered", "CreateVacuum", "ImportConfig"}
    /\ r.at = "saveDraft" => r.op # "NewDevice" /\ r.todo # <<>>
    /\ r.at \in Placing /\ r.op = "CreateVacuum" => r.todo # <<>>
    /\ r.at \in Placing /\ r.op = "AddDiscovered" =>
          \E n \in Names \union {NoName} : r.todo = <<Draft(NoDevice, n, NoZone)>>
    /\ r.at \in Deleting => r.target \in Nat /\ r.target < nextUser
    /\ r.at = "deleteUser" =>
          \/ r.target \in DOMAIN users => ~users[r.target]
          \/ r.admins > 1

RequestsOK ==
    /\ DOMAIN req = Procs
    /\ \A p \in Procs : Carried(req[p]) /\ Prepared(req[p])

\* A request that wrote what the registry shows, and will reload.
Unreloaded(r) ==
    \/ r.at \in {"reload", "wipeRooms", "wipePreferences", "listRooms", "restore"}
    \/ r.at \in Placing /\ r.op \in {"CreateVacuum", "ImportConfig"}

Reloading(r) == Unreloaded(r) \/ r.at = "publish"

\* The latest load is the catalog, and is stored last or still to be stored.
Fresh(p) == req[p].at = "publish" /\ p \in latest

LoadsFollow ==
    /\ overtaken \/ live = LoadAll(rooms, devices) \/ \E p \in Procs : Fresh(p)
    /\ \A p \in Procs : Fresh(p) => fetched[p] = LoadAll(rooms, devices)

LiveFollows ==
    /\ DOMAIN fetched = Procs
    /\ up /\ ~unpublished => LoadsFollow \/ \E p \in Procs : Unreloaded(req[p])

\* A request that nothing overlaps: what it found is still so.
HasParent(u) == \E e \in OfUser(devices, u) : devices[e].zone = Whole

Undisturbed(r) ==
    r.solo =>
        /\ r.at = "delete" => ~(Owned(devices, r.user, r.dev) /\ devices[r.dev].zone = Whole)
        /\ r.at \in Placing /\ r.op = "CreateVacuum" => Head(r.todo).zone = Whole \/ HasParent(r.user)

SoloIsAlone ==
    /\ \A p, q \in Procs : req[p].solo /\ q # p => req[q].at = "idle"
    /\ \A p \in Procs : Undisturbed(req[p])

IInv == TablesOK /\ RequestsOK /\ LiveFollows /\ SoloIsAlone

-----------------------------------------------------------------------------
(* What the tables' ids only do: grow.                                     *)

\* No id is used twice: a row below the next id was there before.
Grows ==
    /\ nextRoom' \in Nat /\ nextRoom <= nextRoom'
    /\ \A id \in DOMAIN rooms' :
          id < nextRoom => id \in DOMAIN rooms /\ rooms'[id].user = rooms[id].user
    /\ inserts' \in Nat /\ inserts <= inserts'
    /\ nextUser' \in Nat /\ nextUser <= nextUser'
    /\ \A u \in DOMAIN users' :
          u < nextUser => u \in DOMAIN users /\ users'[u] = users[u]

LEMMA GrowsWhenUnchanged ==
  ASSUME TablesOK, UNCHANGED <<accounts, roomRows, inserts>>
  PROVE  Grows
  BY DEF TablesOK, AccountsOK, RoomsOK, DevicesOK, Grows, accounts, roomRows

LEMMA IdsGrow ==
  ASSUME inserts \in Nat, inserts' \in Nat, inserts <= inserts'
  PROVE  Ids \subseteq Ids' /\ Drafted \subseteq Drafted'
<1>1. 1 .. inserts \subseteq 1 .. inserts'
  OBVIOUS
<1>2. Ids \subseteq Ids'
  BY <1>1 DEF Ids
<1>3. QED
  BY <1>2 DEF Drafted

LEMMA OwnIdStays ==
  ASSUME TablesOK, Grows, NEW u, NEW id, OwnId(u, id)
  PROVE  OwnId(u, id)'
  BY DEF TablesOK, RoomsOK, Grows, OwnId

LEMMA FileStays ==
  ASSUME TablesOK, Grows, NEW f, FileOK(f)
  PROVE  FileOK(f)'
<1>1. Drafted \subseteq Drafted'
  BY IdsGrow DEF TablesOK, DevicesOK, Grows
<1>2. QED
  BY <1>1 DEF FileOK

\* What a request carries stays good while others run.
LEMMA CarriedStays ==
  ASSUME TablesOK, Grows, NEW r, Carried(r)
  PROVE  Carried(r)'
<1>1. Drafted \subseteq Drafted'
  BY IdsGrow DEF TablesOK, DevicesOK, Grows
<1>2. r.todo \in Seq(Drafted')
  BY <1>1 DEF Carried
<1>3. FileOK(r.file)'
  <2>1. PICK f : f = r.file
    OBVIOUS
  <2>2. FileOK(f)'
    BY <2>1, FileStays DEF Carried
  <2>3. QED
    BY <2>1, <2>2
<1>4. \A id \in DOMAIN r.listed : OwnId(r.user, id)'
  BY OwnIdStays DEF Carried
<1>5. QED
  BY <1>2, <1>3, <1>4 DEF Carried

LEMMA PreparedStays ==
  ASSUME TablesOK, Grows, NEW r, Prepared(r)
  PROVE  Prepared(r)'
<1>1. r.at \in {"save", "saveDraft"} => OwnId(r.user, r.room)'
  BY OwnIdStays DEF Prepared
<1>2. r.at \in Deleting => r.target \in Nat /\ r.target < nextUser'
  BY DEF Prepared, Grows, TablesOK, AccountsOK
<1>3. ASSUME r.at = "deleteUser"
      PROVE  (r.target \in DOMAIN users' => ~users'[r.target]) \/ r.admins > 1
  BY <1>3 DEF Prepared, Grows, Deleting
<1>4. QED
  BY <1>1, <1>2, <1>3 DEF Prepared

-----------------------------------------------------------------------------
(* A statement of one request.                                             *)

LEMMA Advance ==
  ASSUME IInv, TablesOK', Grows, NEW p \in Procs, NEW x,
         up, up' = up, req[p].at # "idle",
         req' = [req EXCEPT ![p] = x],
         Carried(x)', Prepared(x)',
         x.solo => req[p].solo, Undisturbed(x)',
         \/ LiveFollows'
         \/ /\ UNCHANGED published
            /\ \/ Unreloaded(x)
               \/ unpublished'
               \/ /\ ~Reloading(req[p]) /\ x.at # "publish"
                  /\ UNCHANGED unpublished
                  /\ LoadAll(rooms, devices)' = LoadAll(rooms, devices)
  PROVE  IInv'
<1>1. DOMAIN req = Procs /\ req'[p] = x /\ \A q \in Procs : q # p => req'[q] = req[q]
  BY DEF IInv, RequestsOK
<1>2. RequestsOK'
  <2>1. ASSUME NEW q \in Procs, q # p
        PROVE  Carried(req[q])' /\ Prepared(req[q])'
    <3>1. PICK r : r = req[q]
      OBVIOUS
    <3>2. Carried(r)' /\ Prepared(r)'
      BY <3>1, CarriedStays, PreparedStays DEF IInv, RequestsOK
    <3>3. QED
      BY <1>1, <2>1, <3>1, <3>2
  <2>2. QED
    BY <1>1, <2>1 DEF RequestsOK
<1>3. LiveFollows'
  <2>1. ASSUME Unreloaded(x)
        PROVE  \E q \in Procs : Unreloaded(req'[q])
    BY <1>1, <2>1
  <2>2. ASSUME NEW q \in Procs, Unreloaded(req[q]), ~Unreloaded(req[p])
        PROVE  Unreloaded(req'[q])
    BY <1>1, <2>2
  <2>3. CASE UNCHANGED published /\ (Unreloaded(x) \/ unpublished')
    BY <2>1, <2>3 DEF IInv, LiveFollows, published
  <2>4. CASE /\ UNCHANGED published
             /\ ~Reloading(req[p]) /\ x.at # "publish"
             /\ UNCHANGED unpublished
             /\ LoadAll(rooms, devices)' = LoadAll(rooms, devices)
    <3>1. ASSUME NEW q \in Procs
          PROVE  Fresh(q)' <=> Fresh(q)
      BY <1>1, <2>4 DEF Fresh, Reloading, published
    <3>2. LoadsFollow => LoadsFollow'
      <4>1. UNCHANGED <<live, fetched, overtaken>>
        BY <2>4 DEF published
      <4>2. QED
        BY <2>4, <3>1, <4>1 DEF LoadsFollow
    <3>3. QED
      BY <2>2, <2>4, <3>2 DEF IInv, LiveFollows, Reloading, published
  <2>5. QED
    BY <2>3, <2>4
<1>4. SoloIsAlone'
  <2>1. \A q \in Procs : q # p => ~req[q].solo
    BY DEF IInv, SoloIsAlone
  <2>2. \A q \in Procs : Undisturbed(req[q])'
    BY <1>1, <2>1 DEF Undisturbed
  <2>3. QED
    BY <1>1, <2>1, <2>2 DEF IInv, SoloIsAlone
<1>5. QED
  BY <1>2, <1>3, <1>4 DEF IInv

\* The tables a statement does not write.
LEMMA AccountsStay ==
  ASSUME TablesOK, UNCHANGED accounts
  PROVE  AccountsOK'
  BY DEF TablesOK, AccountsOK, accounts

LEMMA RoomsStay ==
  ASSUME TablesOK, UNCHANGED roomRows
  PROVE  RoomsOK'
  BY DEF TablesOK, RoomsOK, roomRows

LEMMA DevicesStay ==
  ASSUME TablesOK, UNCHANGED deviceRows, DOMAIN rooms \subseteq DOMAIN rooms'
  PROVE  DevicesOK'
  BY DEF TablesOK, DevicesOK, deviceRows, Ids, RoomExists

LEMMA PreferencesStay ==
  ASSUME TablesOK, Grows, UNCHANGED <<preferences, backup>>
  PROVE  PreferencesOK'
<1>1. PICK f : f = backup
  OBVIOUS
<1>2. FileOK(f)'
  BY <1>1, FileStays DEF TablesOK, PreferencesOK
<1>3. QED
  BY <1>1, <1>2 DEF TablesOK, PreferencesOK, preferences

LEMMA ProcessStays ==
  ASSUME TablesOK, up, UNCHANGED <<up, overtaken, unpublished>>
  PROVE  ProcessOK'
  BY DEF TablesOK, ProcessOK

LEMMA TablesStay ==
  ASSUME TablesOK, up, UNCHANGED <<up, overtaken, unpublished, tables, backup>>
  PROVE  TablesOK' /\ Grows
<1>1. Grows
  BY GrowsWhenUnchanged DEF tables, deviceRows
<1>2. QED
  BY <1>1, AccountsStay, RoomsStay, DevicesStay, PreferencesStay, ProcessStays
     DEF TablesOK, tables, roomRows

\* A reply leaves nothing.
LEMMA BlankIsOK ==
  ASSUME TablesOK
  PROVE  Carried(Blank) /\ Prepared(Blank) /\ Undisturbed(Blank) /\ ~Blank.solo /\ ~Reloading(Blank)
<1>1. FileOK(NoFile)
  BY FS_EmptySet, ModesAssumption DEF FileOK, NoFile
<1>2. Carried(Blank)
  BY <1>1 DEF Carried, Blank, Statements
<1>3. QED
  BY <1>2 DEF Prepared, Undisturbed, Blank, Restoring, Placing, Deleting, Unreloaded, Reloading

\* What a step to another statement keeps.
LEMMA GotoFields ==
  ASSUME NEW r, DOMAIN r = DOMAIN Blank, NEW s, NEW x, x = [r EXCEPT !.at = s]
  PROVE  /\ DOMAIN x = DOMAIN Blank
         /\ x.at = s /\ x.op = r.op /\ x.user = r.user /\ x.dev = r.dev /\ x.room = r.room
         /\ x.name = r.name /\ x.names = r.names /\ x.todo = r.todo /\ x.value = r.value
         /\ x.target = r.target /\ x.admins = r.admins /\ x.listed = r.listed
         /\ x.file = r.file /\ x.solo = r.solo /\ x.valid = r.valid
  BY DEF Blank

LEMMA GotoIsCarried ==
  ASSUME NEW r, Carried(r), r.at # "idle", NEW s \in Statements \ {"idle"},
         NEW x, x = [r EXCEPT !.at = s]
  PROVE  Carried(x)
  BY GotoFields DEF Carried

LEMMA ReplyStep ==
  ASSUME IInv, TablesOK', Grows, NEW p \in Procs,
         up, up' = up, req[p].at # "idle", Reply(p),
         \/ LiveFollows'
         \/ /\ UNCHANGED published
            /\ \/ unpublished'
               \/ /\ ~Reloading(req[p])
                  /\ UNCHANGED unpublished
                  /\ LoadAll(rooms, devices)' = LoadAll(rooms, devices)
  PROVE  IInv'
<1>1. PICK x : x = Blank
  OBVIOUS
<1>2. TablesOK
  BY DEF IInv
<1>3. Carried(x) /\ Prepared(x) /\ ~x.solo /\ x.at # "publish"
  BY <1>1, <1>2, BlankIsOK DEF Reloading
<1>4. Carried(x)' /\ Prepared(x)' /\ Undisturbed(x)'
  BY <1>2, <1>3, CarriedStays, PreparedStays DEF Undisturbed
<1>5. req' = [req EXCEPT ![p] = x]
  BY <1>1 DEF Reply
<1>6. QED
  BY <1>3, <1>4, <1>5, Advance

LEMMA GotoStep ==
  ASSUME IInv, TablesOK', Grows, NEW p \in Procs,
         up, up' = up, req[p].at # "idle",
         NEW s \in Statements \ ({"idle", "delete"} \union Placing), Goto(p, s),
         Prepared([req[p] EXCEPT !.at = s]),
         \/ LiveFollows'
         \/ /\ UNCHANGED published
            /\ \/ s \in {"reload", "wipeRooms", "wipePreferences", "listRooms", "restore"}
               \/ /\ ~Reloading(req[p]) /\ s # "publish"
                  /\ UNCHANGED unpublished
                  /\ LoadAll(rooms, devices)' = LoadAll(rooms, devices)
  PROVE  IInv'
<1>1. PICK x : x = [req[p] EXCEPT !.at = s]
  OBVIOUS
<1>2. TablesOK /\ Carried(req[p])
  BY DEF IInv, RequestsOK
<1>3. PICK r : r = req[p]
  OBVIOUS
<1>4. Carried(x) /\ x.solo = req[p].solo /\ x.at = s
  BY <1>1, <1>2, <1>3, GotoIsCarried, GotoFields DEF Carried
<1>5. Carried(x)' /\ Prepared(x)'
  BY <1>1, <1>2, <1>4, CarriedStays, PreparedStays
<1>6. Undisturbed(x)'
  BY <1>4 DEF Undisturbed
<1>7. req' = [req EXCEPT ![p] = x]
  BY <1>1, <1>2 DEF Goto
<1>8. Unreloaded(x) \/ s \notin {"reload", "wipeRooms", "wipePreferences", "listRooms", "restore"}
  BY <1>4 DEF Unreloaded
<1>9. QED
  BY <1>4, <1>5, <1>6, <1>7, <1>8, Advance

\* Statements that rely on nothing a request has read.
Plain == {"reload", "publish", "check", "find", "deleteGroup", "readDevices"}

LEMMA PlainIsPrepared ==
  ASSUME NEW r, DOMAIN r = DOMAIN Blank, NEW s \in Plain
  PROVE  Prepared([r EXCEPT !.at = s])
<1>1. PICK x : x = [r EXCEPT !.at = s]
  OBVIOUS
<1>2. x.at = s
  BY <1>1, GotoFields
<1>3. QED
  BY <1>1, <1>2 DEF Prepared, Plain, Restoring, Placing, Deleting

LEMMA ReloadStep ==
  ASSUME IInv, TablesOK', Grows, NEW p \in Procs,
         up, up' = up, req[p].at # "idle", Goto(p, "reload"), UNCHANGED published
  PROVE  IInv'
<1>1. Carried(req[p])
  BY DEF IInv, RequestsOK
<1>2. Prepared([req[p] EXCEPT !.at = "reload"])
  <2>1. PICK r : r = req[p]
    OBVIOUS
  <2>2. QED
    BY <1>1, <2>1, PlainIsPrepared DEF Carried, Plain
<1>3. QED
  BY <1>2, GotoStep DEF Statements, Placing

\* A statement that wrote nothing is answered.
LEMMA QuietReplyStep ==
  ASSUME IInv, NEW p \in Procs, up, UNCHANGED <<up, tables, registry, backup>>,
         req[p].at # "idle", ~Reloading(req[p]), Reply(p)
  PROVE  IInv'
<1>1. TablesOK' /\ Grows
  BY TablesStay DEF IInv, registry, published
<1>2. LoadAll(rooms, devices)' = LoadAll(rooms, devices)
  BY DEF tables, roomRows, deviceRows, LoadAll
<1>3. QED
  BY <1>1, <1>2, ReplyStep DEF registry, published

\* A statement that wrote nothing is followed by another.
LEMMA QuietGotoStep ==
  ASSUME IInv, NEW p \in Procs, up, UNCHANGED <<up, tables, registry, backup>>,
         req[p].at # "idle", ~Reloading(req[p]),
         NEW s \in Statements \ ({"idle", "delete", "publish"} \union Placing), Goto(p, s),
         Prepared([req[p] EXCEPT !.at = s])
  PROVE  IInv'
<1>1. TablesOK' /\ Grows
  BY TablesStay DEF IInv, registry, published
<1>2. LoadAll(rooms, devices)' = LoadAll(rooms, devices)
  BY DEF tables, roomRows, deviceRows, LoadAll
<1>3. QED
  BY <1>1, <1>2, GotoStep DEF registry, published

LEMMA RequestFacts ==
  ASSUME IInv, NEW p \in Procs
  PROVE  TablesOK /\ Carried(req[p]) /\ Prepared(req[p]) /\ Undisturbed(req[p])
  BY DEF IInv, RequestsOK, SoloIsAlone

-----------------------------------------------------------------------------
(* Rooms and the board.                                                    *)

\* RoomRepo.Create: a new row under a new id; nothing refers to it yet.
LEMMA AddRoomIsOK ==
  ASSUME TablesOK, up, NEW u \in UserIds, NEW n, NEW id, id = nextRoom,
         Creatable(rooms, u, n), AddRoom(u, n),
         UNCHANGED <<accounts, deviceRows, preferences, backup, up, overtaken, unpublished>>
  PROVE  /\ TablesOK' /\ Grows /\ OwnId(u, id)'
         /\ LoadAll(rooms, devices)' = LoadAll(rooms, devices)
<1>1. /\ DOMAIN rooms' = DOMAIN rooms \union {id}
      /\ rooms'[id] = [user |-> u, name |-> n]
      /\ \A q \in DOMAIN rooms : q # id /\ rooms'[q] = rooms[q]
      /\ nextRoom' = id + 1 /\ id \in Nat \ {0}
  BY DEF TablesOK, RoomsOK, AddRoom, Put
<1>2. RoomsOK'
  <2>1. rooms' \in [DOMAIN rooms' -> RoomRow]
    BY <1>1 DEF TablesOK, RoomsOK, RoomRow, Creatable, AddRoom, Put
  <2>2. DOMAIN rooms' \subseteq 1 .. nextRoom' - 1
    BY <1>1 DEF TablesOK, RoomsOK
  <2>3. \A q \in DOMAIN rooms : rooms'[q] # rooms'[id]
    BY <1>1 DEF Creatable, Taken, Named
  <2>4. QED
    BY <1>1, <2>1, <2>2, <2>3 DEF TablesOK, RoomsOK
<1>3. Grows
  BY <1>1 DEF TablesOK, AccountsOK, RoomsOK, DevicesOK, Grows, accounts, deviceRows
<1>4. TablesOK'
  BY <1>1, <1>2, <1>3, AccountsStay, DevicesStay, PreferencesStay, ProcessStays DEF TablesOK
<1>5. OwnId(u, id)'
  BY <1>1 DEF OwnId
<1>6. \A d \in DOMAIN devices : RoomName(rooms', devices[d].room) = RoomName(rooms, devices[d].room)
  BY <1>1 DEF TablesOK, DevicesOK, RoomExists, RoomName
<1>7. QED
  BY <1>3, <1>4, <1>5, <1>6 DEF LoadAll, deviceRows

LEMMA CreateRoomStep ==
  ASSUME IInv, NEW p \in Procs, CreateRoom(p)
  PROVE  IInv'
<1> USE RequestFacts DEF CreateRoom, At, Served
<1>1. UNCHANGED <<accounts, deviceRows, preferences, backup, up, overtaken, unpublished, published>> /\ up
  BY DEF registry, published
<1>2. CASE UNCHANGED roomRows
  <2>1. TablesOK' /\ Grows
    BY <1>1, <1>2, TablesStay DEF tables
  <2>2. LoadAll(rooms, devices)' = LoadAll(rooms, devices)
    BY <1>1, <1>2 DEF roomRows, deviceRows, LoadAll
  <2>3. QED
    BY <1>1, <2>1, <2>2, ReplyStep DEF Unreloaded, Reloading, Placing
<1>3. CASE Creatable(rooms, req[p].user, req[p].name) /\ AddRoom(req[p].user, req[p].name)
  <2>1. PICK u, n, id : u = req[p].user /\ n = req[p].name /\ id = nextRoom
    OBVIOUS
  <2>2. TablesOK' /\ Grows /\ LoadAll(rooms, devices)' = LoadAll(rooms, devices)
    BY <1>1, <1>3, <2>1, AddRoomIsOK DEF Carried
  <2>3. QED
    BY <1>1, <2>2, ReplyStep DEF Unreloaded, Reloading, Placing
<1>4. QED
  BY <1>2, <1>3

LEMMA RenameRoomStep ==
  ASSUME IInv, NEW p \in Procs, RenameRoom(p)
  PROVE  IInv'
<1> USE RequestFacts DEF RenameRoom, At, Served
<1>1. UNCHANGED <<accounts, nextRoom, deviceRows, preferences, backup, up, overtaken, unpublished, published>> /\ up
  BY DEF registry, published
<1>2. CASE CanRename(rooms, req[p].user, req[p].room, req[p].name)
  <2>1. PICK u, r, n : u = req[p].user /\ r = req[p].room /\ n = req[p].name
    OBVIOUS
  <2>2. n \in Names /\ rooms' = RenameRow(rooms, u, r, n) /\ Goto(p, "reload")
    BY <1>2, <2>1 DEF Prepared
  <2>3. /\ DOMAIN rooms' = DOMAIN rooms /\ rooms' \in [DOMAIN rooms -> RoomRow]
        /\ \A q \in DOMAIN rooms : rooms'[q].user = rooms[q].user
    <3>1. CASE r \in OfUser(rooms, u)
      <4>1. r \in DOMAIN rooms /\ rooms' = [rooms EXCEPT ![r] = [rooms[r] EXCEPT !.name = n]]
        BY <2>2, <3>1 DEF RenameRow, OfUser
      <4>2. [rooms[r] EXCEPT !.name = n] \in RoomRow /\ [rooms[r] EXCEPT !.name = n].user = rooms[r].user
        BY <2>2, <4>1 DEF TablesOK, RoomsOK, RoomRow
      <4>3. QED
        BY <4>1, <4>2 DEF TablesOK, RoomsOK
    <3>2. CASE r \notin OfUser(rooms, u)
      BY <2>2, <3>2 DEF TablesOK, RoomsOK, RenameRow
    <3>3. QED
      BY <3>1, <3>2
  <2>4. RoomsOK'
    <3>1. ASSUME NEW a \in DOMAIN rooms, NEW b \in DOMAIN rooms, rooms'[a] = rooms'[b]
          PROVE  a = b
      BY <1>2, <2>1, <2>2, <3>1 DEF TablesOK, RoomsOK, RoomRow, RenameRow, CanRename, Named, OfUser, BelongsToUser
    <3>2. QED
      BY <1>1, <2>3, <3>1 DEF TablesOK, RoomsOK
  <2>5. Grows
    BY <1>1, <2>3 DEF TablesOK, AccountsOK, RoomsOK, DevicesOK, Grows, accounts, deviceRows
  <2>6. TablesOK'
    BY <1>1, <2>3, <2>4, <2>5, AccountsStay, DevicesStay, PreferencesStay, ProcessStays DEF TablesOK
  <2>7. QED
    BY <1>1, <2>2, <2>5, <2>6, ReloadStep
<1>3. CASE ~CanRename(rooms, req[p].user, req[p].room, req[p].name)
  BY <1>1, <1>3, QuietReplyStep DEF tables, roomRows, registry, published, Unreloaded, Reloading, Placing
<1>4. QED
  BY <1>2, <1>3

\* ON DELETE SET NULL.
LEMMA DroppedRoomsAreOK ==
  ASSUME TablesOK, up, NEW gone, rooms' = Without(rooms, gone), devices' = Unassign(devices, gone),
         UNCHANGED <<accounts, nextRoom, inserts, preferences, backup, up, overtaken, unpublished>>
  PROVE  TablesOK' /\ Grows
<1>1. DOMAIN rooms' = DOMAIN rooms \ gone /\ \A r \in DOMAIN rooms' : rooms'[r] = rooms[r]
  BY DEF Without
<1>2. RoomsOK'
  BY <1>1 DEF TablesOK, RoomsOK, Without
<1>3. Grows
  BY <1>1 DEF TablesOK, AccountsOK, RoomsOK, DevicesOK, Grows, accounts
<1>4. DevicesOK'
  <2>1. DOMAIN devices' = DOMAIN devices
    BY DEF Unassign
  <2>2. ASSUME NEW d \in DOMAIN devices
        PROVE  devices'[d] \in Row /\ RoomExists(rooms', devices'[d].room)
    BY <1>1 DEF TablesOK, DevicesOK, Unassign, RoomExists, NoRoom, Row
  <2>3. devices' = [d \in DOMAIN devices |-> devices'[d]]
    BY DEF Unassign
  <2>4. QED
    BY <2>1, <2>2, <2>3 DEF TablesOK, DevicesOK, Ids
<1>5. QED
  BY <1>2, <1>3, <1>4, AccountsStay, PreferencesStay, ProcessStays DEF TablesOK

LEMMA DeleteRoomStep ==
  ASSUME IInv, NEW p \in Procs, DeleteRoom(p)
  PROVE  IInv'
<1> USE RequestFacts DEF DeleteRoom, At, Served
<1>1. PICK gone : gone = {req[p].room} \intersect OfUser(rooms, req[p].user)
  OBVIOUS
<1>2. TablesOK' /\ Grows
  BY <1>1, DroppedRoomsAreOK DEF registry, published
<1>3. QED
  BY <1>2, ReloadStep DEF registry

LEMMA CheckRoomStep ==
  ASSUME IInv, NEW p \in Procs, CheckRoom(p)
  PROVE  IInv'
<1> USE RequestFacts DEF CheckRoom, At, Served
<1>1. up /\ UNCHANGED <<up, tables, registry, backup>> /\ req[p].at = "check" /\ ~Reloading(req[p])
  BY DEF Unreloaded, Reloading, Placing
<1>2. CASE BelongsToUser(rooms, req[p].user, req[p].room)
  <2>1. OwnId(req[p].user, req[p].room)
    BY <1>2 DEF OwnId, BelongsToUser, OfUser, TablesOK, RoomsOK
  <2>2. Prepared([req[p] EXCEPT !.at = "save"])
    <3>1. PICK r, x : r = req[p] /\ x = [r EXCEPT !.at = "save"]
      OBVIOUS
    <3>2. x.at = "save" /\ x.user = r.user /\ x.room = r.room
      BY <3>1, GotoFields DEF Carried
    <3>3. QED
      BY <2>1, <3>1, <3>2 DEF Prepared, Restoring, Placing, Deleting
  <2>3. QED
    BY <1>1, <1>2, <2>2, QuietGotoStep DEF Statements, Placing
<1>3. CASE ~BelongsToUser(rooms, req[p].user, req[p].room)
  BY <1>1, <1>3, QuietReplyStep
<1>4. QED
  BY <1>2, <1>3

\* A device row that is written: a known id, or the next new one.
LEMMA SavedDeviceIsOK ==
  ASSUME TablesOK, up, NEW d, NEW row \in Row, RoomExists(rooms, row.room),
         devices' = Put(devices, d, row),
         inserts' \in Nat, inserts <= inserts', d \in Ids \/ (d = Uuid(inserts + 1) /\ inserts' = inserts + 1),
         UNCHANGED <<accounts, roomRows, preferences, backup, up, overtaken>>, unpublished' \in BOOLEAN
  PROVE  TablesOK' /\ Grows
<1>1. DOMAIN devices' = DOMAIN devices \union {d}
  BY DEF Put
<1>2. Ids \subseteq Ids'
  BY IdsGrow DEF TablesOK, DevicesOK
<1>3. d \in Ids'
  <2>1. CASE d = Uuid(inserts + 1) /\ inserts' = inserts + 1
    BY <2>1 DEF Ids, TablesOK, DevicesOK
  <2>2. QED
    BY <1>2, <2>1
<1>4. devices' \in [DOMAIN devices' -> Row]
  BY DEF TablesOK, DevicesOK, Put
<1>5. IsFiniteSet(DOMAIN devices')
  BY <1>1, FS_AddElement DEF TablesOK, DevicesOK
<1>6. \A e \in DOMAIN devices' : RoomExists(rooms, devices'[e].room)
  BY DEF TablesOK, DevicesOK, Put
<1>7. DevicesOK'
  BY <1>1, <1>2, <1>3, <1>4, <1>5, <1>6 DEF TablesOK, DevicesOK, roomRows, RoomExists
<1>8. Grows
  BY DEF TablesOK, AccountsOK, RoomsOK, DevicesOK, Grows, accounts, roomRows
<1>9. QED
  BY <1>7, <1>8, AccountsStay, RoomsStay, PreferencesStay DEF TablesOK, ProcessOK

LEMMA ReplacedIsPut ==
  ASSUME TablesOK, NEW d \in DOMAIN devices, NEW v
  PROVE  [devices EXCEPT ![d] = v] = Put(devices, d, v)
  BY DEF Put, TablesOK, DevicesOK

LEMMA MoveDeviceStep ==
  ASSUME IInv, NEW p \in Procs, MoveDevice(p)
  PROVE  IInv'
<1> USE RequestFacts DEF MoveDevice, At, Served
<1>1. PICK r : r = req[p]
  OBVIOUS
<1>2. CASE CanReplace(rooms, devices, r.user, r.dev, r.room)
  <2>1. r.dev \in DOMAIN devices /\ RoomExists(rooms, r.room) /\ r.room \in Nat
    BY <1>1, <1>2 DEF CanReplace, Owned, OfUser, Prepared, OwnId
  <2>2. PICK d, row : d = r.dev /\ row = [devices[d] EXCEPT !.room = r.room]
    OBVIOUS
  <2>3. row \in Row /\ row.room = r.room
    BY <2>1, <2>2 DEF TablesOK, DevicesOK, Row
  <2>4. devices' = Put(devices, d, row)
    BY <1>1, <1>2, <2>1, <2>2, ReplacedIsPut
  <2>5. inserts \in Nat /\ inserts' = inserts /\ d \in Ids
    BY <2>1, <2>2 DEF TablesOK, DevicesOK
  <2>6. TablesOK' /\ Grows
    BY <2>1, <2>3, <2>4, <2>5, SavedDeviceIsOK DEF registry, published, TablesOK, ProcessOK
  <2>7. QED
    BY <1>1, <1>2, <2>6, ReloadStep DEF registry
<1>3. CASE ~CanReplace(rooms, devices, r.user, r.dev, r.room)
  BY <1>1, <1>3, QuietReplyStep DEF tables, deviceRows, registry, published, Unreloaded, Reloading, Placing
<1>4. QED
  BY <1>2, <1>3

LEMMA CreateDeviceStep ==
  ASSUME IInv, NEW p \in Procs, CreateDevice(p)
  PROVE  IInv'
<1> USE RequestFacts DEF CreateDevice, At, Served
<1>1. PICK r : r = req[p]
  OBVIOUS
<1>2. CASE RoomExists(rooms, r.room)
  <2>1. PICK d, row : d = Uuid(inserts + 1) /\ row = Device(r.user, r.room, NoZone)
    OBVIOUS
  <2>2. row \in Row /\ row.room = r.room
    BY <1>1, <2>1 DEF Row, Device, Carried, Prepared, OwnId, Zones
  <2>3. inserts \in Nat /\ inserts' = inserts + 1
    BY <1>1, <1>2 DEF TablesOK, DevicesOK
  <2>4. devices' = Put(devices, d, row)
    BY <1>1, <1>2, <2>1
  <2>5. TablesOK' /\ Grows
    BY <1>2, <2>1, <2>2, <2>3, <2>4, SavedDeviceIsOK DEF registry, published, TablesOK, ProcessOK
  <2>6. QED
    BY <1>1, <1>2, <2>5, ReloadStep DEF registry
<1>3. CASE ~RoomExists(rooms, r.room)
  BY <1>1, <1>3, QuietReplyStep DEF tables, deviceRows, registry, published, Unreloaded, Reloading, Placing
<1>4. QED
  BY <1>2, <1>3

LEMMA UpdateDeviceStep ==
  ASSUME IInv, NEW p \in Procs, UpdateDevice(p)
  PROVE  IInv'
<1> USE RequestFacts DEF UpdateDevice, At, Served
<1>1. PICK r : r = req[p]
  OBVIOUS
<1>2. CASE CanReplace(rooms, devices, r.user, r.dev, r.room)
  <2>1. r.dev \in DOMAIN devices /\ RoomExists(rooms, r.room)
    BY <1>1, <1>2 DEF CanReplace, Owned, OfUser
  <2>2. PICK d, row : d = r.dev /\ row = Device(r.user, r.room, NoZone)
    OBVIOUS
  <2>3. row \in Row /\ row.room = r.room
    BY <1>1, <2>2 DEF Row, Device, Carried, Prepared, OwnId, Zones
  <2>4. devices' = Put(devices, d, row)
    BY <1>1, <1>2, <2>1, <2>2, ReplacedIsPut
  <2>5. inserts \in Nat /\ inserts' = inserts + 1
    BY <1>1, <1>2 DEF TablesOK, DevicesOK
  <2>6. TablesOK' /\ Grows
    BY <2>1, <2>2, <2>3, <2>4, <2>5, SavedDeviceIsOK DEF registry, published, TablesOK, DevicesOK, ProcessOK
  <2>7. QED
    BY <1>1, <1>2, <2>6, ReloadStep DEF registry
<1>3. CASE ~CanReplace(rooms, devices, r.user, r.dev, r.room)
  BY <1>1, <1>3, QuietReplyStep DEF tables, deviceRows, registry, published, Unreloaded, Reloading, Placing
<1>4. QED
  BY <1>2, <1>3

LEMMA ReloadRequestStep ==
  ASSUME IInv, NEW p \in Procs, Reload(p)
  PROVE  IInv'
<1> USE RequestFacts DEF Reload, At, Served
<1>1. Grows
  BY GrowsWhenUnchanged DEF tables, deviceRows
<1>2. TablesOK'
  BY <1>1, AccountsStay, RoomsStay, DevicesStay, PreferencesStay DEF TablesOK, tables, roomRows, ProcessOK
<1>3. DOMAIN req = Procs /\ DOMAIN fetched = Procs
  BY DEF IInv, RequestsOK, LiveFollows
<1>4. Goto(p, "publish") /\ req'[p].at = "publish"
  BY <1>3 DEF Goto, Carried, Blank
<1>5. fetched' = [fetched EXCEPT ![p] = LoadAll(rooms, devices)]
  OBVIOUS
<1>6. LoadAll(rooms, devices)' = LoadAll(rooms, devices)
  BY DEF tables, roomRows, deviceRows, LoadAll
<1>7. Fresh(p)' /\ \A q \in Procs : Fresh(q)' => q = p
  BY <1>4 DEF Fresh
<1>8. fetched'[p] = LoadAll(rooms, devices)'
  BY <1>3, <1>5, <1>6
<1>9. LiveFollows'
  BY <1>3, <1>5, <1>7, <1>8 DEF LiveFollows, LoadsFollow
<1>10. Prepared([req[p] EXCEPT !.at = "publish"])
  <2>1. PICK r : r = req[p]
    OBVIOUS
  <2>2. QED
    BY <2>1, PlainIsPrepared DEF Carried, Plain
<1>11. QED
  BY <1>1, <1>2, <1>4, <1>9, <1>10, GotoStep DEF Statements, Placing

LEMMA PublishStep ==
  ASSUME IInv, NEW p \in Procs, Publish(p)
  PROVE  IInv'
<1> USE RequestFacts DEF Publish, At, Served
<1>1. Grows
  BY GrowsWhenUnchanged DEF tables, deviceRows
<1>2. TablesOK'
  BY <1>1, AccountsStay, RoomsStay, DevicesStay, PreferencesStay DEF TablesOK, tables, roomRows, ProcessOK
<1>3. DOMAIN req = Procs /\ DOMAIN fetched = Procs
  BY DEF IInv, RequestsOK, LiveFollows
<1>4. /\ req[p].at = "publish" /\ req'[p] = Blank /\ Blank.at = "idle"
      /\ \A q \in Procs : q # p => req'[q] = req[q]
  BY <1>3 DEF Reply, Blank
<1>5. LoadAll(rooms, devices)' = LoadAll(rooms, devices)
  BY DEF tables, roomRows, deviceRows, LoadAll
<1>6. \A q \in Procs : Fresh(q)' => q # p /\ Fresh(q)
  BY <1>4 DEF Fresh
<1>7. \A q \in Procs : q # p => fetched'[q] = fetched[q]
  BY <1>3
<1>8. ASSUME up', ~unpublished', NEW q \in Procs, Unreloaded(req[q])
      PROVE  Unreloaded(req'[q])
  BY <1>4, <1>8 DEF Unreloaded, Reloading, Placing
<1>9. ASSUME LoadsFollow
      PROVE  LoadsFollow'
  <2>1. \A q \in Procs : Fresh(q)' => fetched'[q] = LoadAll(rooms, devices)'
    BY <1>5, <1>6, <1>7, <1>9 DEF LoadsFollow
  <2>2. CASE p \in latest
    <3>1. Fresh(p)
      BY <1>4, <2>2 DEF Fresh
    <3>2. live' = LoadAll(rooms, devices)'
      BY <1>5, <1>9, <3>1 DEF LoadsFollow
    <3>3. QED
      BY <2>1, <3>2 DEF LoadsFollow
  <2>3. CASE p \notin latest
    <3>1. overtaken'
      BY <2>3
    <3>2. QED
      BY <2>1, <3>1 DEF LoadsFollow
  <2>4. QED
    BY <2>2, <2>3
<1>10. LiveFollows'
  <2>1. DOMAIN fetched' = Procs
    BY <1>3
  <2>2. QED
    BY <1>8, <1>9, <2>1 DEF IInv, LiveFollows
<1>11. QED
  BY <1>1, <1>2, <1>4, <1>10, ReplyStep

LEMMA FindDeviceStep ==
  ASSUME IInv, NEW p \in Procs, FindDevice(p)
  PROVE  IInv'
<1> USE RequestFacts DEF FindDevice, At, Served
<1>1. up /\ UNCHANGED <<up, tables, registry, backup>> /\ req[p].at = "find" /\ ~Reloading(req[p])
  BY DEF Unreloaded, Reloading, Placing
<1>2. PICK r : r = req[p]
  OBVIOUS
<1>3. CASE Owned(devices, r.user, r.dev) /\ devices[r.dev].zone = Whole
  <2>1. Prepared([req[p] EXCEPT !.at = "deleteGroup"])
    BY <1>2, PlainIsPrepared DEF Carried, Plain
  <2>2. QED
    BY <1>1, <1>2, <1>3, <2>1, QuietGotoStep DEF Statements, Placing
<1>4. CASE ~(Owned(devices, r.user, r.dev) /\ devices[r.dev].zone = Whole)
  <2>1. PICK x : x = [r EXCEPT !.at = "delete"]
    OBVIOUS
  <2>2. Carried(x) /\ x.at = "delete" /\ x.user = r.user /\ x.dev = r.dev /\ x.solo = r.solo
    BY <1>1, <1>2, <2>1, GotoFields, GotoIsCarried DEF Carried, Statements
  <2>3. TablesOK' /\ Grows
    BY <1>1, TablesStay DEF registry, published
  <2>4. Prepared(x)
    BY <2>2 DEF Prepared, Restoring, Placing, Deleting
  <2>5. Carried(x)' /\ Prepared(x)'
    BY <2>2, <2>3, <2>4, CarriedStays, PreparedStays
  <2>6. Undisturbed(x)'
    BY <1>1, <1>4, <2>2 DEF Undisturbed, Owned, OfUser, Placing, tables, deviceRows
  <2>7. req' = [req EXCEPT ![p] = x]
    BY <1>2, <1>4, <2>1 DEF Goto
  <2>8. LoadAll(rooms, devices)' = LoadAll(rooms, devices)
    BY <1>1 DEF tables, roomRows, deviceRows, LoadAll
  <2>9. QED
    BY <1>1, <1>2, <2>2, <2>3, <2>5, <2>6, <2>7, <2>8, Advance DEF registry, published
<1>5. QED
  BY <1>3, <1>4

LEMMA RemovedDevicesAreOK ==
  ASSUME TablesOK, up, NEW S, devices' = Without(devices, S),
         UNCHANGED <<accounts, roomRows, inserts, preferences, backup, up, overtaken>>, unpublished' \in BOOLEAN
  PROVE  TablesOK' /\ Grows
<1>1. DOMAIN devices' = DOMAIN devices \ S /\ \A d \in DOMAIN devices' : devices'[d] = devices[d]
  BY DEF Without
<1>2. IsFiniteSet(DOMAIN devices')
  BY <1>1, FS_Difference DEF TablesOK, DevicesOK
<1>3. devices' \in [DOMAIN devices' -> Row]
  BY DEF TablesOK, DevicesOK, Without
<1>4. DevicesOK'
  BY <1>1, <1>2, <1>3 DEF TablesOK, DevicesOK, Ids, RoomExists, roomRows
<1>5. Grows
  BY GrowsWhenUnchanged
<1>6. QED
  BY <1>4, <1>5, AccountsStay, RoomsStay, PreferencesStay DEF TablesOK, ProcessOK

LEMMA DeleteGroupStep ==
  ASSUME IInv, NEW p \in Procs, DeleteGroup(p)
  PROVE  IInv'
<1> USE RequestFacts DEF DeleteGroup, At, Served
<1>1. PICK gone : gone = VacuumGroup(devices, req[p].user)
  OBVIOUS
<1>2. TablesOK' /\ Grows
  BY <1>1, RemovedDevicesAreOK DEF registry, published, TablesOK, ProcessOK
<1>3. QED
  BY <1>2, ReloadStep DEF registry

LEMMA DeleteDeviceStep ==
  ASSUME IInv, NEW p \in Procs, DeleteDevice(p)
  PROVE  IInv'
<1> USE RequestFacts DEF DeleteDevice, At, Served
<1>1. PICK r, gone : r = req[p] /\ gone = {r.dev}
  OBVIOUS
<1>2. CASE Owned(devices, r.user, r.dev)
  <2>1. TablesOK' /\ Grows
    BY <1>1, <1>2, RemovedDevicesAreOK DEF registry, published, TablesOK, ProcessOK
  <2>2. QED
    BY <1>1, <1>2, <2>1, ReloadStep DEF registry
<1>3. CASE ~Owned(devices, r.user, r.dev)
  BY <1>1, <1>3, QuietReplyStep DEF tables, deviceRows, registry, published, Unreloaded, Reloading, Placing
<1>4. QED
  BY <1>2, <1>3
-----------------------------------------------------------------------------
(* Rooms and devices that are created one after another.                   *)

LEMMA UndisturbedStays ==
  ASSUME NEW r, Undisturbed(r), UNCHANGED devices
  PROVE  Undisturbed(r)'
  BY DEF Undisturbed, HasParent

LEMMA NextRoomIsOK ==
  ASSUME TablesOK, NEW r, Carried(r), r.at # "idle", r.op = "ImportConfig", NEW x, x = NextRoom(r)
  PROVE  Carried(x) /\ Prepared(x) /\ Undisturbed(x) /\ x.solo = r.solo /\ Unreloaded(x)
<1>1. DOMAIN r = DOMAIN Blank /\ r.names \in Seq(Names)
  BY DEF Carried
<1>2. CASE r.names = <<>>
  <2>1. x = [r EXCEPT !.at = "listRooms"]
    BY <1>2 DEF NextRoom
  <2>2. Carried(x) /\ x.at = "listRooms" /\ x.op = r.op /\ x.solo = r.solo
    BY <1>1, <2>1, GotoFields, GotoIsCarried DEF Statements
  <2>3. QED
    BY <2>2 DEF Prepared, Undisturbed, Unreloaded, Restoring, Placing, Deleting
<1>3. CASE r.names # <<>>
  <2>1. x = [r EXCEPT !.at = "ensure", !.name = Head(r.names), !.names = Tail(r.names)]
    BY <1>1, <1>3 DEF NextRoom, Blank
  <2>2. /\ DOMAIN x = DOMAIN Blank /\ x.at = "ensure" /\ x.names = Tail(r.names)
        /\ x.op = r.op /\ x.user = r.user /\ x.solo = r.solo /\ x.todo = r.todo
        /\ x.file = r.file /\ x.listed = r.listed
    BY <1>1, <2>1 DEF Blank
  <2>3. Carried(x)
    BY <1>1, <1>3, <2>2 DEF Carried, Statements
  <2>4. QED
    BY <2>2, <2>3 DEF Prepared, Undisturbed, Unreloaded, Restoring, Placing, Deleting
<1>4. QED
  BY <1>2, <1>3

LEMMA NextDraftIsOK ==
  ASSUME TablesOK, NEW r, Carried(r), r.at # "idle",
         \/ r.op = "CreateVacuum"
         \/ r.op = "AddDiscovered"
            /\ (r.todo # <<>> => \E n \in Names \union {NoName} : r.todo = <<Draft(NoDevice, n, NoZone)>>),
         NEW x, x = NextDraft(r)
  PROVE  /\ Carried(x) /\ Prepared(x)
         /\ x.op = r.op /\ x.user = r.user /\ x.todo = r.todo /\ x.solo = r.solo
         /\ x.at \in {"reload", "ensure", "saveDraft"} /\ (x.at = "reload" <=> r.todo = <<>>)
         /\ r.op = "CreateVacuum" \/ r.todo = <<>> => Unreloaded(x)
<1>1. DOMAIN r = DOMAIN Blank
  BY DEF Carried
<1>2. CASE r.todo = <<>>
  <2>1. x = [r EXCEPT !.at = "reload"]
    BY <1>2 DEF NextDraft
  <2>2. /\ Carried(x) /\ x.at = "reload"
        /\ x.op = r.op /\ x.user = r.user /\ x.todo = r.todo /\ x.solo = r.solo
    BY <1>1, <2>1, GotoFields, GotoIsCarried DEF Statements
  <2>3. QED
    BY <1>2, <2>2 DEF Prepared, Unreloaded, Restoring, Placing, Deleting
<1>3. CASE r.todo # <<>>
  <2>1. PICK n, s : n = Head(r.todo).room /\ s = IF n = NoName THEN "saveDraft" ELSE "ensure"
    OBVIOUS
  <2>2. x = [r EXCEPT !.name = n, !.room = NoRoom, !.at = s]
    BY <1>3, <2>1 DEF NextDraft
  <2>3. /\ DOMAIN x = DOMAIN Blank /\ x.at = s /\ x.room = NoRoom
        /\ x.op = r.op /\ x.user = r.user /\ x.solo = r.solo /\ x.todo = r.todo
        /\ x.file = r.file /\ x.listed = r.listed /\ x.names = r.names
    BY <1>1, <2>2 DEF Blank
  <2>4. s \in {"saveDraft", "ensure"}
    BY <2>1
  <2>5. Carried(x)
    BY <2>3, <2>4 DEF Carried, Statements
  <2>6. OwnId(x.user, x.room)
    BY <2>3 DEF OwnId, NoRoom, TablesOK, RoomsOK
  <2>7. Prepared(x)
    BY <1>3, <2>3, <2>4, <2>6 DEF Prepared, Restoring, Placing, Deleting
  <2>8. QED
    BY <1>3, <2>3, <2>4, <2>5, <2>7 DEF Unreloaded, Reloading, Placing
<1>4. QED
  BY <1>2, <1>3

LEMMA NextDeviceIsOK ==
  ASSUME TablesOK, NEW r, Carried(r), r.at # "idle", r.op = "ImportConfig", NEW x, x = NextDevice(r)
  PROVE  /\ Carried(x) /\ Prepared(x) /\ Undisturbed(x) /\ Unreloaded(x)
         /\ x.at \in {"saveDraft", "restore"} /\ x.op = r.op /\ x.solo = r.solo
<1>1. DOMAIN r = DOMAIN Blank
  BY DEF Carried
<1>2. CASE r.todo = <<>>
  <2>1. x = [r EXCEPT !.at = "restore"]
    BY <1>2 DEF NextDevice
  <2>2. Carried(x) /\ x.at = "restore" /\ x.op = r.op /\ x.solo = r.solo
    BY <1>1, <2>1, GotoFields, GotoIsCarried DEF Statements
  <2>3. QED
    BY <2>2 DEF Prepared, Undisturbed, Unreloaded, Restoring, Placing, Deleting
<1>3. CASE r.todo # <<>>
  <2>1. PICK ids, id : /\ ids = Listed(r, Head(r.todo).room)
                       /\ id = IF ids = {} THEN NoRoom ELSE CHOOSE i \in ids : TRUE
    OBVIOUS
  <2>2. x = [r EXCEPT !.at = "saveDraft", !.room = id]
    BY <1>3, <2>1 DEF NextDevice
  <2>3. /\ DOMAIN x = DOMAIN Blank /\ x.at = "saveDraft" /\ x.room = id
        /\ x.op = r.op /\ x.user = r.user /\ x.solo = r.solo /\ x.todo = r.todo
        /\ x.file = r.file /\ x.listed = r.listed /\ x.names = r.names
    BY <1>1, <2>2 DEF Blank
  <2>4. Carried(x)
    BY <2>3 DEF Carried, Statements
  <2>5. OwnId(x.user, x.room)
    <3>1. CASE ids = {}
      BY <2>1, <2>3, <3>1 DEF OwnId, NoRoom, TablesOK, RoomsOK
    <3>2. CASE ids # {}
      BY <2>1, <2>3, <3>2 DEF Carried, Listed
    <3>3. QED
      BY <3>1, <3>2
  <2>6. QED
    BY <1>3, <2>3, <2>4, <2>5 DEF Prepared, Undisturbed, Unreloaded, Restoring, Placing, Deleting
<1>4. QED
  BY <1>2, <1>3

\* RoomRepo.Ensure answered with a room of the user.
LEMMA EnsuredIsOK ==
  ASSUME IInv, NEW p \in Procs, req[p].at \in {"ensure", "makeRoom"}, TablesOK', Grows,
         UNCHANGED <<up, published, overtaken, unpublished, devices>>, up,
         LoadAll(rooms, devices)' = LoadAll(rooms, devices),
         NEW u, u = req[p].user, NEW id, OwnId(u, id)',
         req' = [req EXCEPT ![p] = Ensured(req[p], id)]
  PROVE  IInv'
<1>1. PICK r, x : r = req[p] /\ x = Ensured(r, id)
  OBVIOUS
<1>2. /\ TablesOK /\ Carried(r) /\ Prepared(r) /\ Undisturbed(r) /\ r.at \in {"ensure", "makeRoom"}
      /\ req' = [req EXCEPT ![p] = x]
  BY <1>1, RequestFacts
<1>3. CASE r.op = "ImportConfig"
  <2>1. x = NextRoom(r)
    BY <1>1, <1>3 DEF Ensured
  <2>2. Carried(x) /\ Prepared(x) /\ Undisturbed(x) /\ x.solo = r.solo /\ Unreloaded(x)
    BY <1>2, <1>3, <2>1, NextRoomIsOK
  <2>3. Carried(x)' /\ Prepared(x)' /\ Undisturbed(x)'
    BY <1>2, <2>2, CarriedStays, PreparedStays, UndisturbedStays
  <2>4. QED
    BY <1>1, <1>2, <2>2, <2>3, Advance
<1>4. CASE r.op = "NewDevice"
  <2>1. Reply(p)
    BY <1>1, <1>2, <1>4 DEF Ensured, Reply
  <2>2. QED
    BY <1>1, <1>2, <1>4, <2>1, ReplyStep DEF Unreloaded, Reloading, Placing
<1>5. CASE r.op \notin {"ImportConfig", "NewDevice"}
  <2>1. x = [r EXCEPT !.at = "saveDraft", !.room = id]
    BY <1>1, <1>5 DEF Ensured
  <2>2. /\ DOMAIN x = DOMAIN Blank /\ x.at = "saveDraft" /\ x.room = id
        /\ x.op = r.op /\ x.user = r.user /\ x.solo = r.solo /\ x.todo = r.todo
        /\ x.file = r.file /\ x.listed = r.listed /\ x.names = r.names
    BY <1>2, <2>1 DEF Blank, Carried
  <2>3. Carried(x)
    BY <1>2, <2>2 DEF Carried, Statements
  <2>4. Carried(x)'
    BY <1>2, <2>3, CarriedStays
  <2>5. Prepared(x)'
    <3>1. OwnId(x.user, x.room)'
      BY <1>1, <2>2
    <3>2. r.op \in {"AddDiscovered", "CreateVacuum"}
      BY <1>2, <1>5 DEF Prepared, Placing
    <3>3. r.op = "AddDiscovered" => \E n \in Names \union {NoName} : r.todo = <<Draft(NoDevice, n, NoZone)>>
      BY <1>2 DEF Prepared, Placing
    <3>4. r.todo # <<>>
      BY <1>2, <3>2, <3>3 DEF Prepared, Placing
    <3>5. QED
      BY <2>2, <3>1, <3>2, <3>3, <3>4 DEF Prepared, Restoring, Placing, Deleting
  <2>6. Undisturbed(x)
    BY <1>2, <2>2 DEF Undisturbed, Placing
  <2>7. Undisturbed(x)'
    BY <2>6, UndisturbedStays
  <2>8. /\ Unreloaded(x) <=> Reloading(r)
        /\ x.at # "publish"
    BY <1>2, <2>2 DEF Unreloaded, Reloading, Placing
  <2>9. QED
    BY <1>1, <1>2, <2>2, <2>4, <2>5, <2>7, <2>8, Advance
<1>6. QED
  BY <1>3, <1>4, <1>5

LEMMA FindRoomStep ==
  ASSUME IInv, NEW p \in Procs, FindRoom(p)
  PROVE  IInv'
<1> USE RequestFacts DEF FindRoom, At, Served
<1>1. /\ up /\ req[p].at = "ensure"
      /\ UNCHANGED <<up, tables, registry, backup, published, overtaken, unpublished, devices>>
  BY DEF registry, published, tables, deviceRows
<1>2. TablesOK' /\ Grows /\ LoadAll(rooms, devices)' = LoadAll(rooms, devices)
  BY <1>1, TablesStay DEF tables, roomRows, deviceRows, LoadAll
<1>3. PICK r, u, found : r = req[p] /\ u = r.user /\ found = Named(rooms, u, r.name)
  OBVIOUS
<1>4. CASE found = {}
  <2>1. PICK x : x = [r EXCEPT !.at = "makeRoom"]
    OBVIOUS
  <2>2. /\ Carried(x) /\ x.at = "makeRoom" /\ x.op = r.op /\ x.todo = r.todo
        /\ x.user = r.user /\ x.solo = r.solo
    BY <1>1, <1>3, <2>1, GotoFields, GotoIsCarried DEF Carried, Statements
  <2>3. Prepared(x)
    BY <1>1, <1>3, <2>2 DEF Prepared, Restoring, Placing, Deleting
  <2>4. Undisturbed(x)
    BY <1>1, <1>3, <2>2 DEF Undisturbed, Placing
  <2>5. Carried(x)' /\ Prepared(x)' /\ Undisturbed(x)'
    BY <1>1, <1>2, <2>2, <2>3, <2>4, CarriedStays, PreparedStays, UndisturbedStays
  <2>6. req' = [req EXCEPT ![p] = x]
    BY <1>3, <1>4, <2>1 DEF Goto
  <2>7. /\ Unreloaded(x) <=> Reloading(r)
        /\ x.at # "publish"
    BY <1>1, <1>3, <2>2 DEF Unreloaded, Reloading, Placing
  <2>8. QED
    BY <1>1, <1>2, <1>3, <2>2, <2>5, <2>6, <2>7, Advance
<1>5. CASE found # {}
  <2>1. PICK id : id = CHOOSE i \in found : TRUE
    OBVIOUS
  <2>2. id \in found /\ req' = [req EXCEPT ![p] = Ensured(req[p], id)]
    BY <1>3, <1>5, <2>1
  <2>3. OwnId(u, id)
    BY <1>3, <2>2 DEF OwnId, Named, TablesOK, RoomsOK
  <2>4. OwnId(u, id)'
    BY <1>2, <2>3, OwnIdStays
  <2>5. QED
    BY <1>1, <1>2, <1>3, <2>2, <2>4, EnsuredIsOK
<1>6. QED
  BY <1>4, <1>5

LEMMA MakeRoomStep ==
  ASSUME IInv, NEW p \in Procs, MakeRoom(p)
  PROVE  IInv'
<1> USE RequestFacts DEF MakeRoom, At, Served
<1>1. /\ up /\ req[p].at = "makeRoom"
      /\ UNCHANGED <<up, accounts, deviceRows, preferences, backup, published, overtaken, unpublished, devices>>
  BY DEF registry, published, deviceRows
<1>2. PICK r, u, n : r = req[p] /\ u = r.user /\ n = r.name
  OBVIOUS
<1>3. CASE Creatable(rooms, u, n)
  <2>1. PICK id : id = nextRoom
    OBVIOUS
  <2>2. AddRoom(u, n) /\ req' = [req EXCEPT ![p] = Ensured(req[p], id)] /\ u \in UserIds
    BY <1>1, <1>2, <1>3, <2>1 DEF Carried
  <2>3. TablesOK' /\ Grows /\ OwnId(u, id)' /\ LoadAll(rooms, devices)' = LoadAll(rooms, devices)
    BY <1>1, <1>3, <2>1, <2>2, AddRoomIsOK
  <2>4. QED
    BY <1>1, <1>2, <2>2, <2>3, EnsuredIsOK
<1>4. CASE ~Creatable(rooms, u, n)
  <2>1. UNCHANGED roomRows /\ req' = [req EXCEPT ![p] = Ensured(req[p], NoRoom)]
    BY <1>2, <1>4
  <2>2. TablesOK' /\ Grows /\ LoadAll(rooms, devices)' = LoadAll(rooms, devices)
    BY <1>1, <2>1, TablesStay DEF tables, roomRows, deviceRows, LoadAll
  <2>3. OwnId(u, NoRoom)
    BY DEF OwnId, NoRoom, TablesOK, RoomsOK
  <2>4. OwnId(u, NoRoom)'
    BY <2>2, <2>3, OwnIdStays
  <2>5. QED
    BY <1>1, <1>2, <2>1, <2>2, <2>4, EnsuredIsOK
<1>5. QED
  BY <1>3, <1>4

LEMMA DropGroupStep ==
  ASSUME IInv, NEW p \in Procs, DropGroup(p)
  PROVE  IInv'
<1> USE RequestFacts DEF DropGroup, At, Served
<1>1. PICK r, gone : r = req[p] /\ gone = VacuumGroup(devices, r.user)
  OBVIOUS
<1>2. r.op = "CreateVacuum" /\ r.todo # <<>> /\ Head(r.todo).zone = Whole /\ r.at = "dropGroup"
  BY <1>1 DEF Prepared
<1>3. unpublished' \in BOOLEAN /\ UNCHANGED <<published, overtaken>>
  BY DEF TablesOK, ProcessOK, published
<1>4. TablesOK' /\ Grows
  BY <1>1, <1>3, RemovedDevicesAreOK
<1>5. CASE r.valid
  <2>1. PICK x : x = NextDraft(r)
    OBVIOUS
  <2>2. /\ Carried(x) /\ Prepared(x) /\ Unreloaded(x) /\ x.solo = r.solo
        /\ x.todo = r.todo /\ x.op = r.op /\ x.at # "delete"
    BY <1>1, <1>2, <2>1, NextDraftIsOK
  <2>3. Carried(x)' /\ Prepared(x)'
    BY <1>4, <2>2, CarriedStays, PreparedStays
  <2>4. Undisturbed(x)'
    BY <1>2, <2>2 DEF Undisturbed
  <2>5. req' = [req EXCEPT ![p] = x]
    BY <1>1, <1>5, <2>1
  <2>6. QED
    BY <1>1, <1>4, <2>2, <2>3, <2>4, <2>5, Advance
<1>6. CASE ~r.valid
  <2>1. Reply(p) /\ unpublished'
    BY <1>1, <1>6 DEF Reply
  <2>2. QED
    BY <1>4, <2>1, ReplyStep
<1>7. QED
  BY <1>5, <1>6

LEMMA SaveDraftStep ==
  ASSUME IInv, NEW p \in Procs, SaveDraft(p)
  PROVE  IInv'
<1> USE RequestFacts DEF SaveDraft, At, Served
<1>1. PICK r, d, id, saved, left, row :
         /\ r = req[p] /\ d = Head(r.todo)
         /\ id = IF d.id = NoDevice THEN Uuid(inserts + 1) ELSE d.id
         /\ saved = CanSave(rooms, devices, id, r.room)
         /\ left = [r EXCEPT !.todo = Tail(@)]
         /\ row = Device(r.user, r.room, d.zone)
  OBVIOUS
<1>2. /\ r.at = "saveDraft" /\ r.todo # <<>> /\ r.todo \in Seq(Drafted) /\ d \in Drafted
      /\ Tail(r.todo) \in Seq(Drafted) /\ r.user \in UserIds /\ r.room \in Nat
      /\ DOMAIN r = DOMAIN Blank
  BY <1>1 DEF Prepared, Carried, OwnId
<1>3. /\ DOMAIN left = DOMAIN Blank /\ left.at = r.at /\ left.op = r.op /\ left.user = r.user
      /\ left.solo = r.solo /\ left.todo = Tail(r.todo) /\ left.file = r.file
      /\ left.listed = r.listed /\ left.names = r.names
  BY <1>1, <1>2 DEF Blank
<1>4. Carried(left) /\ left.at # "idle"
  BY <1>1, <1>2, <1>3 DEF Carried
<1>5. inserts \in Nat /\ unpublished' \in BOOLEAN /\ UNCHANGED <<published, overtaken>>
  BY DEF TablesOK, DevicesOK, ProcessOK, published
<1>6. row \in Row /\ row.room = r.room /\ row.user = r.user /\ row.zone = d.zone
  BY <1>1, <1>2 DEF Row, Device, Drafted
<1>7. id \in Ids \/ (d.id = NoDevice /\ id = Uuid(inserts + 1))
  BY <1>1, <1>2 DEF Drafted
<1>8. CASE saved
  <2>1. devices' = Put(devices, id, row) /\ inserts' = inserts + 1 /\ RoomExists(rooms, row.room) /\ id \notin DOMAIN devices
    BY <1>1, <1>6, <1>8 DEF CanSave
  <2>2. TablesOK' /\ Grows
    BY <1>5, <1>6, <1>7, <2>1, IdsGrow, SavedDeviceIsOK
  <2>3. CASE r.op = "ImportConfig"
    <3>1. PICK x : x = NextDevice(left)
      OBVIOUS
    <3>2. Carried(x) /\ Prepared(x) /\ Unreloaded(x) /\ x.solo = r.solo /\ x.at # "delete" /\ x.op = r.op
      BY <1>3, <1>4, <2>3, <3>1, NextDeviceIsOK
    <3>3. Carried(x)' /\ Prepared(x)' /\ Undisturbed(x)'
      BY <2>2, <2>3, <3>2, CarriedStays, PreparedStays DEF Undisturbed
    <3>4. req' = [req EXCEPT ![p] = x]
      BY <1>1, <2>3, <3>1
    <3>5. QED
      BY <1>1, <1>2, <2>2, <3>2, <3>3, <3>4, Advance
  <2>4. CASE r.op \in {"AddDiscovered", "CreateVacuum"}
    <3>1. PICK x : x = NextDraft(left)
      OBVIOUS
    <3>2. ASSUME r.op = "AddDiscovered"
          PROVE  left.todo = <<>>
      <4>1. PICK draft : r.todo = <<draft>>
        BY <1>1, <1>2, <3>2 DEF Prepared, Placing
      <4>2. Len(r.todo) = 1
        BY <4>1
      <4>3. Len(Tail(r.todo)) = 0
        BY <1>2, <4>2
      <4>4. Tail(r.todo) = <<>>
        BY <1>2, <4>3, EmptySeq
      <4>5. QED
        BY <1>3, <4>4
    <3>3. /\ Carried(x) /\ Prepared(x)
          /\ x.op = left.op /\ x.user = left.user /\ x.todo = left.todo /\ x.solo = left.solo
          /\ x.at \in {"reload", "ensure", "saveDraft"} /\ (x.at = "reload" <=> left.todo = <<>>)
          /\ left.op = "CreateVacuum" \/ left.todo = <<>> => Unreloaded(x)
      BY <1>3, <1>4, <2>4, <3>1, <3>2, NextDraftIsOK
    <3>4. /\ Unreloaded(x) /\ x.at # "delete"
          /\ x.op = r.op /\ x.user = r.user /\ x.solo = r.solo
          /\ x.at \in Placing => r.op = "CreateVacuum"
      BY <1>3, <2>4, <3>2, <3>3 DEF Placing
    <3>5. ASSUME r.solo, r.op = "CreateVacuum"
          PROVE  HasParent(r.user)'
      <4>1. d.zone = Whole \/ HasParent(r.user)
        BY <1>1, <1>2, <3>5 DEF Undisturbed, Placing
      <4>2. id \in DOMAIN devices' /\ devices'[id] = row
        BY <2>1 DEF Put
      <4>3. \A e \in DOMAIN devices : e \in DOMAIN devices' /\ devices'[e] = devices[e]
        BY <2>1 DEF Put
      <4>4. QED
        BY <1>6, <4>1, <4>2, <4>3 DEF HasParent, OfUser
    <3>6. Carried(x)' /\ Prepared(x)'
      BY <2>2, <3>3, CarriedStays, PreparedStays
    <3>7. Undisturbed(x)'
      BY <3>4, <3>5 DEF Undisturbed
    <3>8. req' = [req EXCEPT ![p] = x]
      BY <1>1, <1>8, <2>4, <3>1
    <3>9. QED
      BY <1>1, <1>2, <2>2, <3>4, <3>6, <3>7, <3>8, Advance
  <2>5. QED
    BY <1>1, <1>2, <2>3, <2>4 DEF Prepared, Placing
<1>9. CASE ~saved
  <2>1. UNCHANGED <<tables, devices>>
    BY <1>1, <1>9 DEF tables, deviceRows
  <2>2. Grows
    BY <2>1, GrowsWhenUnchanged DEF tables, deviceRows
  <2>3. TablesOK'
    BY <1>5, <2>1, <2>2, AccountsStay, RoomsStay, DevicesStay, PreferencesStay
       DEF TablesOK, tables, roomRows, ProcessOK
  <2>4. LoadAll(rooms, devices)' = LoadAll(rooms, devices)
    BY <2>1 DEF tables, roomRows, deviceRows, LoadAll
  <2>5. CASE r.op = "ImportConfig"
    <3>1. PICK x : x = NextDevice(left)
      OBVIOUS
    <3>2. Carried(x) /\ Prepared(x) /\ Unreloaded(x) /\ x.solo = r.solo /\ Undisturbed(x)
      BY <1>3, <1>4, <2>5, <3>1, NextDeviceIsOK
    <3>3. Carried(x)' /\ Prepared(x)' /\ Undisturbed(x)'
      BY <2>1, <2>2, <3>2, CarriedStays, PreparedStays, UndisturbedStays
    <3>4. req' = [req EXCEPT ![p] = x]
      BY <1>1, <2>5, <3>1
    <3>5. QED
      BY <1>1, <1>2, <2>2, <2>3, <3>2, <3>3, <3>4, Advance
  <2>6. CASE r.op # "ImportConfig"
    <3>1. Reply(p)
      BY <1>1, <1>9, <2>6 DEF Reply
    <3>2. r.op = "CreateVacuum" => unpublished'
      BY <1>1, <1>9
    <3>3. r.op # "CreateVacuum" => ~Reloading(r) /\ unpublished' = unpublished
      BY <1>1, <1>2, <2>6 DEF Unreloaded, Reloading, Placing, TablesOK, ProcessOK
    <3>4. QED
      BY <1>1, <1>2, <1>5, <2>2, <2>3, <2>4, <3>1, <3>2, <3>3, ReplyStep
  <2>7. QED
    BY <2>5, <2>6
<1>10. QED
  BY <1>8, <1>9
-----------------------------------------------------------------------------
(* Backup, import and reset.                                               *)

LEMMA ImageIsFinite ==
  ASSUME NEW S, IsFiniteSet(S), NEW T, NEW f \in [S -> T], NEW image, image = {f[x] : x \in S}
  PROVE  IsFiniteSet(image)
<1>1. f \in Surjection(S, image)
  BY DEF Surjection
<1>2. QED
  BY <1>1, FS_Surjection

LEMMA SetToSeqIsSeq ==
  ASSUME NEW S, IsFiniteSet(S)
  PROVE  SetToSeq(S) \in Seq(S)
<1>1. Cardinality(S) \in Nat /\ ExistsBijection(1 .. Cardinality(S), S)
  BY FS_CardinalityType
<1>2. \E f \in [1 .. Cardinality(S) -> S] : IsInjective(f)
  BY <1>1 DEF ExistsBijection, Bijection, Injection
<1>3. SetToSeq(S) \in [1 .. Cardinality(S) -> S]
  BY <1>2 DEF SetToSeq
<1>4. QED
  BY <1>1, <1>3, SeqDef

LEMMA UsersRoomsAreFinite ==
  ASSUME TablesOK, NEW u
  PROVE  /\ IsFiniteSet(OfUser(rooms, u)) /\ IsFiniteSet(OfUser(devices, u))
         /\ IsFiniteSet({rooms[id].name : id \in OfUser(rooms, u)})
         /\ {rooms[id].name : id \in OfUser(rooms, u)} \subseteq Names
<1>1. IsFiniteSet(DOMAIN rooms)
  <2>1. IsFiniteSet(1 .. nextRoom - 1)
    BY FS_Interval DEF TablesOK, RoomsOK
  <2>2. QED
    BY <2>1, FS_Subset DEF TablesOK, RoomsOK
<1>2. IsFiniteSet(OfUser(rooms, u)) /\ IsFiniteSet(OfUser(devices, u))
  BY <1>1, FS_Subset DEF OfUser, TablesOK, DevicesOK
<1>3. PICK S, f : S = OfUser(rooms, u) /\ f = [id \in S |-> rooms[id].name]
  OBVIOUS
<1>4. f \in [S -> Names] /\ \A id \in S : f[id] = rooms[id].name
  BY <1>3 DEF OfUser, TablesOK, RoomsOK, RoomRow
<1>5. IsFiniteSet({f[id] : id \in S})
  <2>1. IsFiniteSet(S) /\ f \in [S -> Names]
    BY <1>2, <1>3, <1>4
  <2>2. QED
    BY <2>1, ImageIsFinite
<1>6. {f[id] : id \in S} = {rooms[id].name : id \in S}
  BY <1>4
<1>7. QED
  BY <1>2, <1>3, <1>4, <1>5, <1>6

LEMMA ReadRoomsStep ==
  ASSUME IInv, NEW p \in Procs, ReadRooms(p)
  PROVE  IInv'
<1>1. /\ up /\ req[p].at = "readRooms" /\ TablesOK /\ Carried(req[p])
      /\ UNCHANGED <<up, tables, backup, published, overtaken, unpublished, devices>>
  BY RequestFacts DEF ReadRooms, At, Served, registry, published, tables, deviceRows
<1>2. TablesOK' /\ Grows /\ LoadAll(rooms, devices)' = LoadAll(rooms, devices)
  BY <1>1, TablesStay DEF tables, roomRows, deviceRows, LoadAll
<1>3. PICK r, mine, listed, file :
         /\ r = req[p] /\ mine = OfUser(rooms, r.user)
         /\ listed = [id \in mine |-> rooms[id].name]
         /\ file = [NoFile EXCEPT !.rooms  = {rooms[id].name : id \in mine},
                                  !.mode   = mode[r.user],
                                  !.ignore = ignore[r.user]]
  OBVIOUS
<1>4. PICK x : x = [r EXCEPT !.at = "readDevices", !.listed = listed, !.file = file]
  OBVIOUS
<1>5. FileOK(file)
  <2>1. /\ DOMAIN file = DOMAIN NoFile /\ file.rooms = {rooms[id].name : id \in mine}
        /\ file.devices = {} /\ file.mode = mode[r.user] /\ file.ignore = ignore[r.user]
    BY <1>3 DEF NoFile
  <2>2. r.user \in UserIds
    BY <1>1, <1>3 DEF Carried
  <2>3. file.rooms \subseteq Names /\ IsFiniteSet(file.rooms)
    BY <1>1, <1>3, <2>1, UsersRoomsAreFinite
  <2>4. IsFiniteSet(file.devices)
    BY <2>1, FS_EmptySet
  <2>5. file.mode \in Modes /\ file.ignore \subseteq Items
    BY <1>1, <2>1, <2>2 DEF TablesOK, PreferencesOK
  <2>6. QED
    BY <2>1, <2>3, <2>4, <2>5 DEF FileOK
<1>6. /\ DOMAIN x = DOMAIN Blank /\ x.at = "readDevices" /\ x.listed = listed /\ x.file = file
      /\ x.user = r.user /\ x.solo = r.solo /\ x.todo = r.todo /\ x.names = r.names
  BY <1>1, <1>3, <1>4 DEF Carried, Blank
<1>7. \A id \in DOMAIN listed : OwnId(r.user, id) /\ listed[id] \in Names
  BY <1>1, <1>3 DEF OwnId, OfUser, TablesOK, RoomsOK, RoomRow
<1>8. Carried(x)
  BY <1>1, <1>3, <1>5, <1>6, <1>7 DEF Carried, Statements
<1>9. Prepared(x)
  BY <1>6 DEF Prepared, Restoring, Placing, Deleting
<1>10. Carried(x)' /\ Prepared(x)' /\ Undisturbed(x)'
  BY <1>1, <1>2, <1>6, <1>8, <1>9, CarriedStays, PreparedStays DEF Undisturbed, Placing
<1>11. req' = [req EXCEPT ![p] = x]
  BY <1>3, <1>4 DEF ReadRooms
<1>12. QED
  BY <1>1, <1>2, <1>3, <1>6, <1>10, <1>11, Advance DEF Unreloaded, Reloading, Placing

LEMMA ReadDevicesStep ==
  ASSUME IInv, NEW p \in Procs, ReadDevices(p)
  PROVE  IInv'
<1>1. /\ up /\ req[p].at = "readDevices" /\ Reply(p) /\ TablesOK /\ Carried(req[p])
      /\ UNCHANGED <<up, tables, published, overtaken, unpublished, devices>>
  BY RequestFacts DEF ReadDevices, At, Served, registry, published, tables, deviceRows
<1>2. Grows
  BY <1>1, GrowsWhenUnchanged DEF tables, deviceRows
<1>3. LoadAll(rooms, devices)' = LoadAll(rooms, devices)
  BY <1>1 DEF tables, roomRows, deviceRows, LoadAll
<1>4. PICK r, mine : r = req[p] /\ mine = OfUser(devices, r.user)
  OBVIOUS
<1>5. PICK f : f = [d \in mine |-> Draft(d, IF devices[d].room \in DOMAIN r.listed
                                           THEN r.listed[devices[d].room] ELSE NoName, devices[d].zone)]
  OBVIOUS
<1>6. f \in [mine -> Drafted]
  <2>1. ASSUME NEW d \in mine
        PROVE  f[d] \in Drafted
    <3>1. d \in Ids /\ devices[d].zone \in Zones
      BY <1>1, <1>4 DEF OfUser, TablesOK, DevicesOK, Row
    <3>2. PICK n : n = IF devices[d].room \in DOMAIN r.listed THEN r.listed[devices[d].room] ELSE NoName
      OBVIOUS
    <3>3. n \in Names \union {NoName}
      BY <1>1, <1>4, <3>2 DEF Carried
    <3>4. f[d] = [id |-> d, room |-> n, zone |-> devices[d].zone]
      BY <1>5, <3>2 DEF Draft
    <3>5. QED
      BY <3>1, <3>3, <3>4 DEF Drafted
  <2>2. QED
    BY <1>5, <2>1
<1>7. FileOK(backup')
  <2>1. PICK file : file = r.file
    OBVIOUS
  <2>2. FileOK(file)
    BY <1>1, <1>4, <2>1 DEF Carried
  <2>3. /\ DOMAIN backup' = DOMAIN file /\ backup'.devices = {f[d] : d \in mine}
        /\ backup'.rooms = file.rooms /\ backup'.mode = file.mode /\ backup'.ignore = file.ignore
    BY <1>4, <1>5, <2>1, <2>2 DEF ReadDevices, FileOK, NoFile
  <2>4. IsFiniteSet({f[d] : d \in mine})
    <3>1. IsFiniteSet(mine)
      BY <1>1, <1>4, UsersRoomsAreFinite
    <3>2. QED
      BY <1>6, <3>1, ImageIsFinite
  <2>5. {f[d] : d \in mine} \subseteq Drafted
    BY <1>6
  <2>6. QED
    BY <2>2, <2>3, <2>4, <2>5 DEF FileOK
<1>8. TablesOK'
  <2>1. FileOK(backup)'
    <3>1. PICK file : file = backup'
      OBVIOUS
    <3>2. FileOK(file)'
      BY <1>1, <1>2, <1>7, <3>1, FileStays
    <3>3. QED
      BY <3>1, <3>2
  <2>2. PreferencesOK'
    BY <1>1, <2>1 DEF TablesOK, PreferencesOK, tables, preferences
  <2>3. QED
    BY <1>1, <2>2, AccountsStay, RoomsStay, DevicesStay, ProcessStays DEF TablesOK, tables, roomRows
<1>9. QED
  BY <1>1, <1>2, <1>3, <1>8, ReplyStep DEF Unreloaded, Reloading, Placing

LEMMA WipeDevicesStep ==
  ASSUME IInv, NEW p \in Procs, WipeDevices(p)
  PROVE  IInv'
<1>1. /\ up /\ up' = up /\ req[p].at = "wipeDevices" /\ Goto(p, "wipeRooms")
      /\ TablesOK /\ Carried(req[p]) /\ Prepared(req[p])
  BY RequestFacts DEF WipeDevices, At, Served
<1>2. PICK gone : gone = OfUser(devices, req[p].user)
  OBVIOUS
<1>3. TablesOK' /\ Grows
  BY <1>1, <1>2, RemovedDevicesAreOK DEF WipeDevices, Served, registry, published, TablesOK, ProcessOK
<1>4. Prepared([req[p] EXCEPT !.at = "wipeRooms"])
  <2>1. PICK r, x : r = req[p] /\ x = [r EXCEPT !.at = "wipeRooms"]
    OBVIOUS
  <2>2. x.at = "wipeRooms" /\ x.op = r.op
    BY <1>1, <2>1, GotoFields DEF Carried
  <2>3. QED
    BY <1>1, <2>1, <2>2 DEF Prepared, Restoring, Placing, Deleting
<1>5. QED
  BY <1>1, <1>3, <1>4, GotoStep DEF Statements, Placing, WipeDevices, registry

LEMMA WipeRoomsStep ==
  ASSUME IInv, NEW p \in Procs, WipeRooms(p)
  PROVE  IInv'
<1>1. /\ up /\ up' = up /\ req[p].at = "wipeRooms" /\ Goto(p, "wipePreferences")
      /\ TablesOK /\ Carried(req[p]) /\ Prepared(req[p])
  BY RequestFacts DEF WipeRooms, At, Served
<1>2. PICK gone : gone = OfUser(rooms, req[p].user)
  OBVIOUS
<1>3. TablesOK' /\ Grows
  BY <1>1, <1>2, DroppedRoomsAreOK DEF WipeRooms, Served, registry, published
<1>4. Prepared([req[p] EXCEPT !.at = "wipePreferences"])
  <2>1. PICK r, x : r = req[p] /\ x = [r EXCEPT !.at = "wipePreferences"]
    OBVIOUS
  <2>2. x.at = "wipePreferences" /\ x.op = r.op
    BY <1>1, <2>1, GotoFields DEF Carried
  <2>3. QED
    BY <1>1, <2>1, <2>2 DEF Prepared, Restoring, Placing, Deleting
<1>5. QED
  BY <1>1, <1>3, <1>4, GotoStep DEF Statements, Placing, WipeRooms, registry

\* A statement that writes preferences only.
LEMMA WrittenPreferencesAreOK ==
  ASSUME TablesOK, up, UNCHANGED <<accounts, roomRows, deviceRows, backup, up, overtaken, unpublished>>,
         mode' \in [UserIds -> Modes], ignore' \in [UserIds -> SUBSET Items]
  PROVE  TablesOK' /\ Grows /\ LoadAll(rooms, devices)' = LoadAll(rooms, devices) /\ UNCHANGED devices
<1>1. Grows
  BY GrowsWhenUnchanged DEF deviceRows
<1>2. FileOK(backup)'
  <2>1. PICK f : f = backup
    OBVIOUS
  <2>2. FileOK(f)'
    BY <1>1, <2>1, FileStays DEF TablesOK, PreferencesOK
  <2>3. QED
    BY <2>1, <2>2
<1>3. PreferencesOK'
  BY <1>2 DEF PreferencesOK
<1>4. TablesOK'
  BY <1>3, AccountsStay, RoomsStay, DevicesStay, ProcessStays DEF TablesOK, roomRows
<1>5. QED
  BY <1>1, <1>4 DEF roomRows, deviceRows, LoadAll

LEMMA WipePreferencesStep ==
  ASSUME IInv, NEW p \in Procs, WipePreferences(p)
  PROVE  IInv'
<1>1. PICK r : r = req[p]
  OBVIOUS
<1>2. /\ up /\ up' = up /\ r.at = "wipePreferences" /\ TablesOK /\ Carried(r)
      /\ r.op \in {"ImportConfig", "ResetConfig"} /\ r.user \in UserIds
  BY <1>1, RequestFacts DEF WipePreferences, At, Served, Carried, Prepared, Restoring
<1>3. mode' \in [UserIds -> Modes] /\ ignore' \in [UserIds -> SUBSET Items]
  BY <1>1, <1>2, ModesAssumption DEF WipePreferences, TablesOK, PreferencesOK
<1>4. TablesOK' /\ Grows /\ LoadAll(rooms, devices)' = LoadAll(rooms, devices) /\ UNCHANGED devices
  BY <1>2, <1>3, WrittenPreferencesAreOK DEF WipePreferences, Served, registry, published
<1>5. CASE r.op = "ResetConfig"
  <2>1. req' = [req EXCEPT ![p].at = "reload"]
    BY <1>1, <1>5 DEF WipePreferences
  <2>2. QED
    BY <1>1, <1>2, <1>4, <2>1, ReloadStep DEF Goto, WipePreferences, registry
<1>6. CASE r.op = "ImportConfig"
  <2>1. PICK y, x : y = [r EXCEPT !.names = SetToSeq(r.file.rooms)] /\ x = NextRoom(y)
    OBVIOUS
  <2>2. SetToSeq(r.file.rooms) \in Seq(Names)
    <3>1. PICK S : S = r.file.rooms
      OBVIOUS
    <3>2. IsFiniteSet(S) /\ S \subseteq Names
      BY <1>2, <3>1 DEF Carried, FileOK
    <3>3. SetToSeq(S) \in Seq(S)
      BY <3>2, SetToSeqIsSeq
    <3>4. QED
      BY <3>1, <3>2, <3>3
  <2>3. /\ DOMAIN y = DOMAIN Blank /\ y.names = SetToSeq(r.file.rooms) /\ y.at = r.at /\ y.op = r.op
        /\ y.user = r.user /\ y.solo = r.solo /\ y.todo = r.todo /\ y.file = r.file /\ y.listed = r.listed
    BY <1>2, <2>1 DEF Carried, Blank
  <2>4. Carried(y)
    BY <1>2, <2>2, <2>3 DEF Carried
  <2>5. Carried(x) /\ Prepared(x) /\ Undisturbed(x) /\ x.solo = r.solo /\ Unreloaded(x)
    BY <1>2, <1>6, <2>1, <2>3, <2>4, NextRoomIsOK
  <2>6. Carried(x)' /\ Prepared(x)' /\ Undisturbed(x)'
    BY <1>2, <1>4, <2>5, CarriedStays, PreparedStays, UndisturbedStays
  <2>7. req' = [req EXCEPT ![p] = x]
    BY <1>1, <1>6, <2>1 DEF WipePreferences
  <2>8. QED
    BY <1>1, <1>2, <1>4, <2>5, <2>6, <2>7, Advance DEF WipePreferences, registry
<1>7. QED
  BY <1>2, <1>5, <1>6

LEMMA ListRoomsStep ==
  ASSUME IInv, NEW p \in Procs, ListRooms(p)
  PROVE  IInv'
<1>1. PICK r, mine, listed, todo :
         /\ r = req[p] /\ mine = OfUser(rooms, r.user)
         /\ listed = [id \in mine |-> rooms[id].name] /\ todo = SetToSeq(r.file.devices)
  OBVIOUS
<1>2. /\ up /\ UNCHANGED <<up, published, overtaken, unpublished, tables, backup, devices>>
      /\ r.at = "listRooms" /\ r.op = "ImportConfig" /\ TablesOK /\ Carried(r)
  BY <1>1, RequestFacts DEF ListRooms, At, Served, Prepared, registry, published, tables, deviceRows
<1>3. TablesOK' /\ Grows
  BY <1>2, TablesStay
<1>4. PICK y, x : y = [r EXCEPT !.listed = listed, !.todo = todo] /\ x = NextDevice(y)
  OBVIOUS
<1>5. todo \in Seq(Drafted)
  <2>1. PICK S : S = r.file.devices
    OBVIOUS
  <2>2. IsFiniteSet(S) /\ S \subseteq Drafted
    BY <1>2, <2>1 DEF Carried, FileOK
  <2>3. SetToSeq(S) \in Seq(S)
    BY <2>2, SetToSeqIsSeq
  <2>4. QED
    BY <1>1, <2>1, <2>2, <2>3
<1>6. /\ DOMAIN y = DOMAIN Blank /\ y.todo = todo /\ y.listed = listed /\ y.at = r.at /\ y.op = r.op
      /\ y.user = r.user /\ y.solo = r.solo /\ y.names = r.names /\ y.file = r.file
  BY <1>2, <1>4 DEF Carried, Blank
<1>7. \A id \in DOMAIN listed : OwnId(r.user, id) /\ listed[id] \in Names
  BY <1>1, <1>2 DEF OwnId, OfUser, TablesOK, RoomsOK, RoomRow
<1>8. Carried(y)
  BY <1>2, <1>5, <1>6, <1>7 DEF Carried
<1>9. Carried(x) /\ Prepared(x) /\ Undisturbed(x) /\ x.solo = r.solo /\ Unreloaded(x)
  BY <1>2, <1>4, <1>6, <1>8, NextDeviceIsOK
<1>10. Carried(x)' /\ Prepared(x)' /\ Undisturbed(x)'
  BY <1>2, <1>3, <1>9, CarriedStays, PreparedStays, UndisturbedStays
<1>11. req' = [req EXCEPT ![p] = x]
  BY <1>1, <1>4 DEF ListRooms
<1>12. QED
  BY <1>1, <1>2, <1>3, <1>9, <1>10, <1>11, Advance

LEMMA RestorePreferencesStep ==
  ASSUME IInv, NEW p \in Procs, RestorePreferences(p)
  PROVE  IInv'
<1>1. PICK r : r = req[p]
  OBVIOUS
<1>2. up /\ up' = up /\ r.at = "restore" /\ TablesOK /\ Carried(r) /\ r.user \in UserIds
  BY <1>1, RequestFacts DEF RestorePreferences, At, Served, Carried
<1>3. r.file.mode \in Modes /\ r.file.ignore \subseteq Items
  BY <1>2 DEF Carried, FileOK
<1>4. mode' \in [UserIds -> Modes]
  BY <1>1, <1>2, <1>3 DEF RestorePreferences, TablesOK, PreferencesOK
<1>5. ignore' \in [UserIds -> SUBSET Items]
  BY <1>1, <1>2, <1>3 DEF RestorePreferences, TablesOK, PreferencesOK
<1>6. TablesOK' /\ Grows
  BY <1>2, <1>4, <1>5, WrittenPreferencesAreOK DEF RestorePreferences, Served, registry, published
<1>7. QED
  BY <1>1, <1>2, <1>6, ReloadStep DEF RestorePreferences, registry

-----------------------------------------------------------------------------
(* Preferences and users.                                                  *)

LEMMA SetModeStep ==
  ASSUME IInv, NEW p \in Procs, SetMode(p)
  PROVE  IInv'
<1>1. PICK r : r = req[p]
  OBVIOUS
<1>2. /\ up /\ up' = up /\ r.at = "setMode" /\ TablesOK /\ r.user \in UserIds /\ r.value \in Modes
      /\ UNCHANGED <<published, overtaken, unpublished>>
  BY <1>1, RequestFacts DEF SetMode, At, Served, Carried, Prepared, registry, published
<1>3. mode' \in [UserIds -> Modes] /\ ignore' \in [UserIds -> SUBSET Items]
  BY <1>1, <1>2 DEF SetMode, TablesOK, PreferencesOK
<1>4. TablesOK' /\ Grows /\ LoadAll(rooms, devices)' = LoadAll(rooms, devices)
  BY <1>2, <1>3, WrittenPreferencesAreOK DEF SetMode, Served
<1>5. QED
  BY <1>1, <1>2, <1>4, ReplyStep DEF SetMode, Unreloaded, Reloading, Placing

LEMMA SetIgnoredStep ==
  ASSUME IInv, NEW p \in Procs, SetIgnored(p)
  PROVE  IInv'
<1>1. PICK r : r = req[p]
  OBVIOUS
<1>2. /\ up /\ up' = up /\ r.at \in {"Ignore", "Unignore", "ClearIgnore"} /\ TablesOK /\ r.user \in UserIds
      /\ (r.at = "Ignore" => r.name \in Items) /\ UNCHANGED <<published, overtaken, unpublished>> /\ Reply(p)
  BY <1>1, RequestFacts DEF SetIgnored, At, Served, Carried, Prepared, registry, published
<1>3. mode' \in [UserIds -> Modes] /\ ignore' \in [UserIds -> SUBSET Items]
  <2>1. \/ ignore' = [ignore EXCEPT ![r.user] = @ \union {r.name}] /\ r.name \in Items
        \/ ignore' = [ignore EXCEPT ![r.user] = @ \ {r.name}]
        \/ ignore' = [ignore EXCEPT ![r.user] = {}]
    BY <1>1, <1>2 DEF SetIgnored, At
  <2>2. ignore \in [UserIds -> SUBSET Items] /\ mode' = mode
    BY <1>2 DEF SetIgnored, TablesOK, PreferencesOK
  <2>3. QED
    BY <1>2, <2>1, <2>2 DEF TablesOK, PreferencesOK
<1>4. TablesOK' /\ Grows /\ LoadAll(rooms, devices)' = LoadAll(rooms, devices)
  BY <1>2, <1>3, WrittenPreferencesAreOK DEF SetIgnored, Served
<1>5. QED
  BY <1>1, <1>2, <1>4, ReplyStep DEF Unreloaded, Reloading, Placing

\* A statement that writes accounts only.
LEMMA WrittenAccountsAreOK ==
  ASSUME TablesOK, up, UNCHANGED <<roomRows, deviceRows, preferences, backup, up, overtaken, unpublished>>,
         AccountsOK', nextUser <= nextUser',
         \A u \in DOMAIN users' : u < nextUser => u \in DOMAIN users /\ users'[u] = users[u]
  PROVE  TablesOK' /\ Grows /\ LoadAll(rooms, devices)' = LoadAll(rooms, devices)
<1>1. Grows
  BY DEF TablesOK, AccountsOK, RoomsOK, DevicesOK, Grows, roomRows, deviceRows
<1>2. TablesOK'
  BY <1>1, RoomsStay, DevicesStay, PreferencesStay, ProcessStays DEF TablesOK, roomRows
<1>3. QED
  BY <1>1, <1>2 DEF roomRows, deviceRows, LoadAll

LEMMA CreateUserStep ==
  ASSUME IInv, NEW p \in Procs, CreateUser(p)
  PROVE  IInv'
<1>1. /\ up /\ up' = up /\ req[p].at = "createUser" /\ TablesOK
      /\ UNCHANGED <<published, overtaken, unpublished>> /\ Reply(p)
  BY RequestFacts DEF CreateUser, At, Served, registry, published
<1>2. PICK v : v = req[p].valid
  OBVIOUS
<1>3. AccountsOK' /\ nextUser <= nextUser'
  <2>1. v \in BOOLEAN
    BY <1>1, <1>2, RequestFacts DEF Prepared
  <2>2. /\ nextUser \in UserIds /\ nextUser' = nextUser + 1
        /\ DOMAIN users' = DOMAIN users \union {nextUser} /\ users' \in [DOMAIN users' -> BOOLEAN]
    BY <1>1, <1>2, <2>1 DEF CreateUser, Put, TablesOK, AccountsOK
  <2>3. QED
    BY <1>1, <2>2 DEF TablesOK, AccountsOK
<1>4. \A u \in DOMAIN users' : u < nextUser => u \in DOMAIN users /\ users'[u] = users[u]
  BY <1>1 DEF CreateUser, Put, TablesOK, AccountsOK
<1>5. TablesOK' /\ Grows /\ LoadAll(rooms, devices)' = LoadAll(rooms, devices)
  BY <1>1, <1>3, <1>4, WrittenAccountsAreOK DEF CreateUser, Served
<1>6. QED
  BY <1>1, <1>5, ReplyStep DEF Unreloaded, Reloading, Placing

LEMMA LookupUserStep ==
  ASSUME IInv, NEW p \in Procs, LookupUser(p)
  PROVE  IInv'
<1>1. PICK r, s, x :
         /\ r = req[p] /\ x = [r EXCEPT !.at = s]
         /\ s = IF IsAdmin(r.target) THEN "countAdmins" ELSE "deleteUser"
  OBVIOUS
<1>2. /\ up /\ UNCHANGED <<up, tables, registry, backup>> /\ r.at = "lookup"
      /\ TablesOK /\ Carried(r) /\ Prepared(r) /\ Goto(p, s)
  BY <1>1, RequestFacts DEF LookupUser, At, Served
<1>3. x.at = s /\ x.target = r.target
  BY <1>1, <1>2, GotoFields DEF Carried
<1>4. r.target \in Nat /\ r.target < nextUser
  BY <1>2 DEF Prepared, Deleting
<1>5. s = "deleteUser" => (r.target \in DOMAIN users => ~users[r.target])
  BY <1>1 DEF IsAdmin
<1>6. s \in {"countAdmins", "deleteUser"}
  BY <1>1
<1>7. Prepared(x)
  BY <1>3, <1>4, <1>5, <1>6 DEF Prepared, Restoring, Placing, Deleting
<1>8. QED
  BY <1>1, <1>2, <1>6, <1>7, QuietGotoStep DEF Statements, Placing, Unreloaded, Reloading

LEMMA CountAdminsStep ==
  ASSUME IInv, NEW p \in Procs, CountAdmins(p)
  PROVE  IInv'
<1>1. PICK r, n, x :
         r = req[p] /\ n = Cardinality(AdminIds) /\ x = [r EXCEPT !.at = "deleteUser", !.admins = n]
  OBVIOUS
<1>2. /\ up /\ UNCHANGED <<up, tables, registry, backup>> /\ r.at = "countAdmins"
      /\ TablesOK /\ Carried(r) /\ Prepared(r)
      /\ req' = [req EXCEPT ![p] = IF n <= 1 THEN Blank ELSE x]
  BY <1>1, RequestFacts DEF CountAdmins, At, Served
<1>3. n \in Nat
  <2>1. IsFiniteSet(1 .. nextUser - 1)
    BY <1>2, FS_Interval DEF TablesOK, AccountsOK
  <2>2. AdminIds \subseteq 1 .. nextUser - 1
    BY <1>2 DEF AdminIds, TablesOK, AccountsOK
  <2>3. IsFiniteSet(AdminIds)
    BY <2>1, <2>2, FS_Subset
  <2>4. QED
    BY <1>1, <2>3, FS_CardinalityType
<1>4. CASE n <= 1
  BY <1>1, <1>2, <1>4, QuietReplyStep DEF Reply, Unreloaded, Reloading, Placing
<1>5. CASE ~(n <= 1)
  <2>1. /\ DOMAIN x = DOMAIN Blank /\ x.at = "deleteUser" /\ x.admins = n /\ x.target = r.target
        /\ x.user = r.user /\ x.solo = r.solo /\ x.todo = r.todo /\ x.names = r.names
        /\ x.file = r.file /\ x.listed = r.listed
    BY <1>1, <1>2 DEF Carried, Blank
  <2>2. Carried(x)
    BY <1>2, <2>1 DEF Carried, Statements
  <2>3. r.target \in Nat /\ r.target < nextUser
    BY <1>2 DEF Prepared, Deleting
  <2>4. Prepared(x)
    BY <1>3, <1>5, <2>1, <2>3 DEF Prepared, Restoring, Placing, Deleting
  <2>5. TablesOK' /\ Grows /\ LoadAll(rooms, devices)' = LoadAll(rooms, devices)
    BY <1>2, TablesStay DEF registry, published, tables, roomRows, deviceRows, LoadAll
  <2>6. Carried(x)' /\ Prepared(x)' /\ Undisturbed(x)'
    BY <1>2, <2>1, <2>2, <2>4, <2>5, CarriedStays, PreparedStays DEF Undisturbed, Placing
  <2>7. QED
    BY <1>1, <1>2, <1>5, <2>1, <2>5, <2>6, Advance DEF registry, published, Unreloaded, Reloading, Placing
<1>6. QED
  BY <1>4, <1>5

LEMMA DeleteUserStep ==
  ASSUME IInv, NEW p \in Procs, DeleteUser(p)
  PROVE  IInv'
<1>1. /\ up /\ up' = up /\ req[p].at = "deleteUser" /\ TablesOK
      /\ UNCHANGED <<published, overtaken, unpublished>> /\ Reply(p)
  BY RequestFacts DEF DeleteUser, At, Served, registry, published
<1>2. PICK t : t = req[p].target
  OBVIOUS
<1>3. DOMAIN users' = DOMAIN users \ {t} /\ \A u \in DOMAIN users' : users'[u] = users[u]
  BY <1>2 DEF DeleteUser, Without
<1>4. users' \in [DOMAIN users' -> BOOLEAN]
  BY <1>1, <1>2 DEF DeleteUser, Without, TablesOK, AccountsOK
<1>5. AccountsOK' /\ nextUser <= nextUser'
  <2>1. nextUser' = nextUser /\ nextUser \in Nat \ {0} /\ DOMAIN users \subseteq UserIds \intersect 1 .. nextUser - 1
    BY <1>1 DEF DeleteUser, TablesOK, AccountsOK
  <2>2. AccountsOK'
    BY <1>3, <1>4, <2>1 DEF AccountsOK
  <2>3. QED
    BY <2>1, <2>2
<1>6. TablesOK' /\ Grows /\ LoadAll(rooms, devices)' = LoadAll(rooms, devices)
  BY <1>1, <1>3, <1>5, WrittenAccountsAreOK DEF DeleteUser, Served
<1>7. QED
  BY <1>1, <1>6, ReplyStep DEF Unreloaded, Reloading, Placing

-----------------------------------------------------------------------------
(* The process.                                                            *)

\* All requests are gone, nothing is served.
LEMMA CrashStep ==
  ASSUME IInv, Crash
  PROVE  IInv'
<1>1. /\ TablesOK /\ req' = [q \in Procs |-> Blank] /\ up' = FALSE /\ DOMAIN fetched' = Procs
      /\ UNCHANGED <<tables, backup, overtaken, unpublished>>
  BY DEF IInv, Crash, client
<1>2. Grows
  BY <1>1, GrowsWhenUnchanged DEF tables, deviceRows
<1>3. TablesOK'
  BY <1>1, <1>2, AccountsStay, RoomsStay, DevicesStay, PreferencesStay
     DEF TablesOK, tables, roomRows, ProcessOK
<1>4. PICK x : x = Blank
  OBVIOUS
<1>5. Carried(x) /\ Prepared(x) /\ ~x.solo /\ ~Blank.solo
  BY <1>1, <1>4, BlankIsOK
<1>6. Carried(x)' /\ Prepared(x)'
  BY <1>1, <1>2, <1>5, CarriedStays, PreparedStays
<1>7. \A q \in Procs : req'[q] = x
  BY <1>1, <1>4
<1>8. RequestsOK'
  BY <1>1, <1>6, <1>7 DEF RequestsOK
<1>9. SoloIsAlone'
  BY <1>5, <1>7 DEF SoloIsAlone, Undisturbed
<1>10. LiveFollows'
  BY <1>1 DEF LiveFollows
<1>11. QED
  BY <1>3, <1>8, <1>9, <1>10 DEF IInv

LEMMA HangUpStep ==
  ASSUME IInv, NEW p \in Procs, HangUp(p)
  PROVE  IInv'
<1>1. TablesOK /\ up /\ up' = up /\ UNCHANGED <<tables, backup, published, overtaken>> /\ unpublished' /\ Reply(p) /\ req[p].at # "idle"
  BY DEF IInv, HangUp, client, published
<1>2. Grows
  BY <1>1, GrowsWhenUnchanged DEF tables, deviceRows
<1>3. TablesOK'
  BY <1>1, <1>2, AccountsStay, RoomsStay, DevicesStay, PreferencesStay
     DEF HangUp, TablesOK, tables, roomRows, ProcessOK
<1>4. QED
  BY <1>1, <1>2, <1>3, ReplyStep
-----------------------------------------------------------------------------
(* Requests that arrive.                                                   *)

\* A request that just arrived has read nothing.
LEMMA NewFormIsCarried ==
  ASSUME TablesOK, NEW u \in UserIds, NEW f, DOMAIN f = DOMAIN Blank, f.user = u, f.solo = FALSE,
         f.at \in Statements \ {"idle"}, f.names = <<>>, f.listed = <<>>,
         f.todo \in Seq(Drafted), FileOK(f.file)
  PROVE  Carried(f)
<1>1. <<>> \in Seq(Names) /\ DOMAIN f.listed = {}
  BY EmptySeq
<1>2. QED
  BY <1>1 DEF Carried

LEMMA VacuumDevicesAreDrafts ==
  ASSUME TablesOK, NEW g \in [Segments -> {RobotRoom, NoName}]
  PROVE  /\ VacuumDevices(g) \in Seq(Drafted) /\ VacuumDevices(g) # <<>>
         /\ Head(VacuumDevices(g)).zone = Whole
<1>1. PICK S, zones, first, rest :
         /\ S = {s \in Segments : g[s] # NoName} /\ zones = SetToSeq(S)
         /\ first = Draft(VacuumId(Whole), RobotRoom, Whole)
         /\ rest = [i \in DOMAIN zones |-> Draft(VacuumId(zones[i]), g[zones[i]], zones[i])]
  OBVIOUS
<1>2. zones \in Seq(S)
  <2>1. IsFiniteSet(S)
    BY <1>1, SegmentsAssumption, FS_Subset
  <2>2. QED
    BY <1>1, <2>1, SetToSeqIsSeq
<1>3. first \in Drafted /\ first.zone = Whole
  BY <1>1, DraftsAssumption DEF Drafted, Draft, Ids, Zones
<1>4. \A i \in 1 .. Len(zones) : zones[i] \in S
  BY <1>2
<1>5. ASSUME NEW i \in 1 .. Len(zones)
      PROVE  rest[i] \in Drafted
  <2>1. PICK z : z = zones[i] /\ z \in Segments /\ g[z] # NoName
    BY <1>1, <1>4
  <2>2. i \in DOMAIN zones
    BY <1>2
  <2>3. rest[i] = [id |-> VacuumId(z), room |-> g[z], zone |-> z]
    BY <1>1, <2>1, <2>2 DEF Draft
  <2>4. VacuumId(z) \in Ids /\ z \in Zones /\ g[z] \in Names \union {NoName}
    BY <2>1, DraftsAssumption DEF Ids, Zones
  <2>5. QED
    BY <2>3, <2>4 DEF Drafted
<1>6. rest \in Seq(Drafted)
  <2>1. Len(zones) \in Nat /\ DOMAIN zones = 1 .. Len(zones)
    BY <1>2
  <2>2. rest \in [1 .. Len(zones) -> Drafted]
    BY <1>1, <1>5, <2>1
  <2>3. QED
    BY <2>1, <2>2, SeqDef
<1>7. VacuumDevices(g) = <<first>> \o rest
  BY <1>1 DEF VacuumDevices
<1>8. QED
  BY <1>3, <1>6, <1>7

\* What Begin relies on.
Arrives(f, u) ==
    /\ Carried(f) /\ Prepared(f)
    /\ f.user = u /\ ~f.solo /\ f.at \notin {"idle", "delete", "publish"}
    /\ ~(f.at \in Placing /\ f.op = "CreateVacuum")

\* A form that sets nothing but its user, handler and row.
LEMMA SimpleFormArrives ==
  ASSUME TablesOK, NEW u \in UserIds, NEW f, DOMAIN f = DOMAIN Blank, f.user = u, f.solo = FALSE,
         f.at \in Statements \ ({"idle", "delete", "publish", "saveDraft", "makeRoom", "rename", "createUser",
                                 "setMode", "Ignore", "Unignore", "dropGroup", "wipeRooms",
                                 "wipePreferences", "listRooms", "restore"} \union Deleting),
         f.at = "save" => f.room = NoRoom,
         f.at = "wipeDevices" => f.op \in {"ImportConfig", "ResetConfig"},
         f.at = "ensure" => f.op = "NewDevice",
         f.names = <<>>, f.listed = <<>>, f.todo = <<>>, FileOK(f.file)
  PROVE  Arrives(f, u)
<1>1. Carried(f)
  BY EmptySeq, NewFormIsCarried DEF Deleting
<1>2. f.at = "save" => OwnId(u, f.room)
  BY DEF OwnId, NoRoom, TablesOK, RoomsOK
<1>3. QED
  BY <1>1, <1>2 DEF Arrives, Prepared, Restoring, Placing, Deleting

LEMMA RoomFormsArrive ==
  ASSUME TablesOK, NEW u \in UserIds, NEW f \in RoomForms(u)
  PROVE  Arrives(f, u)
<1>1. FileOK(NoFile)
  BY FS_EmptySet, ModesAssumption DEF FileOK, NoFile
<1>2. CASE \E n \in Names : f = RoomForm("CreateRoom", u, "createRoom", NoRoom, n)
  <2>1. /\ DOMAIN f = DOMAIN Blank /\ f.user = u /\ f.solo = FALSE /\ f.at = "createRoom"
        /\ f.names = <<>> /\ f.listed = <<>> /\ f.todo = <<>> /\ f.file = NoFile
    BY <1>2 DEF RoomForm, Form, Blank
  <2>2. QED
    BY <1>1, <2>1, SimpleFormArrives DEF Statements, Deleting
<1>3. CASE \E r \in DOMAIN rooms, n \in Names \ LongNames :
              f = RoomForm("RenameRoom", u, "rename", r, n)
  <2>1. /\ DOMAIN f = DOMAIN Blank /\ f.user = u /\ f.solo = FALSE /\ f.at = "rename" /\ f.names = <<>>
        /\ f.listed = <<>> /\ f.todo = <<>> /\ f.file = NoFile /\ f.name \in Names
    BY <1>3 DEF RoomForm, Form, Blank
  <2>2. Carried(f)
    BY <1>1, <2>1, EmptySeq, NewFormIsCarried DEF Statements
  <2>3. QED
    BY <2>1, <2>2 DEF Arrives, Prepared, Restoring, Placing, Deleting
<1>4. CASE \E r \in DOMAIN rooms : f = RoomForm("DeleteRoom", u, "deleteRoom", r, NoName)
  <2>1. /\ DOMAIN f = DOMAIN Blank /\ f.user = u /\ f.solo = FALSE /\ f.at = "deleteRoom"
        /\ f.names = <<>> /\ f.listed = <<>> /\ f.todo = <<>> /\ f.file = NoFile
    BY <1>4 DEF RoomForm, Form, Blank
  <2>2. QED
    BY <1>1, <2>1, SimpleFormArrives DEF Statements, Deleting
<1>5. \/ \E n \in Names : f = RoomForm("CreateRoom", u, "createRoom", NoRoom, n)
      \/ \E r \in DOMAIN rooms, n \in Names \ LongNames : f = RoomForm("RenameRoom", u, "rename", r, n)
      \/ \E r \in DOMAIN rooms : f = RoomForm("DeleteRoom", u, "deleteRoom", r, NoName)
  BY DEF RoomForms
<1>6. QED
  BY <1>2, <1>3, <1>4, <1>5

LEMMA DeviceFormsArrive ==
  ASSUME TablesOK, NEW u \in UserIds, NEW f \in DeviceForms(u)
  PROVE  Arrives(f, u)
<1>1. FileOK(NoFile)
  BY FS_EmptySet, ModesAssumption DEF FileOK, NoFile
<1>2. ASSUME NEW op, NEW d, NEW r, f = Placed(op, u, d, r)
      PROVE  Arrives(f, u)
  <2>1. /\ DOMAIN f = DOMAIN Blank /\ f.user = u /\ f.solo = FALSE /\ f.names = <<>>
        /\ f.listed = <<>> /\ f.todo = <<>> /\ f.file = NoFile /\ f.room = r
        /\ f.at = IF r = NoRoom THEN "save" ELSE "check"
    BY <1>2 DEF Placed, Form, Blank
  <2>2. QED
    BY <1>1, <2>1, SimpleFormArrives DEF Statements, Deleting
<1>3. CASE \E d \in DOMAIN devices : f = [Form("DeleteDevice", u, "find") EXCEPT !.dev = d]
  <2>1. /\ DOMAIN f = DOMAIN Blank /\ f.user = u /\ f.solo = FALSE /\ f.at = "find"
        /\ f.names = <<>> /\ f.listed = <<>> /\ f.todo = <<>> /\ f.file = NoFile
    BY <1>3 DEF Form, Blank
  <2>2. QED
    BY <1>1, <2>1, SimpleFormArrives DEF Statements, Deleting
<1>4. CASE \E n \in Locations \ {NoName} : f = [Form("NewDevice", u, "ensure") EXCEPT !.name = n]
  <2>1. /\ DOMAIN f = DOMAIN Blank /\ f.user = u /\ f.solo = FALSE /\ f.at = "ensure"
        /\ f.names = <<>> /\ f.listed = <<>> /\ f.todo = <<>> /\ f.file = NoFile /\ f.op = "NewDevice"
    BY <1>4 DEF Form, Blank
  <2>2. QED
    BY <1>1, <2>1, SimpleFormArrives DEF Statements, Deleting
<1>5. \/ \E op, d, r : f = Placed(op, u, d, r)
      \/ \E d \in DOMAIN devices : f = [Form("DeleteDevice", u, "find") EXCEPT !.dev = d]
      \/ \E n \in Locations \ {NoName} : f = [Form("NewDevice", u, "ensure") EXCEPT !.name = n]
  BY DEF DeviceForms
<1>6. QED
  BY <1>2, <1>3, <1>4, <1>5

LEMMA DraftFormsArrive ==
  ASSUME TablesOK, NEW u \in UserIds, NEW f \in DraftForms(u)
  PROVE  Arrives(f, u)
<1>1. FileOK(NoFile)
  BY FS_EmptySet, ModesAssumption DEF FileOK, NoFile
<1>2. ASSUME NEW n \in Locations, f = Discovering(u, n)
      PROVE  Arrives(f, u)
  <2>1. PICK d, todo, s : /\ d = Draft(NoDevice, n, NoZone) /\ todo = <<d>>
                          /\ s = IF n = NoName THEN "saveDraft" ELSE "ensure"
    OBVIOUS
  <2>2. todo # <<>> /\ Head(todo) = d /\ d.room = n
    BY <2>1 DEF Draft
  <2>3. PICK g : g = [Form("AddDiscovered", u, "next") EXCEPT !.todo = todo]
    OBVIOUS
  <2>4. f = NextDraft(g)
    BY <1>2, <2>1, <2>3 DEF Discovering
  <2>5. /\ DOMAIN g = DOMAIN Blank /\ g.op = "AddDiscovered" /\ g.user = u /\ g.solo = FALSE
        /\ g.todo = todo /\ g.names = <<>> /\ g.listed = <<>> /\ g.file = NoFile
    BY <2>3 DEF Form, Blank
  <2>6. f = [g EXCEPT !.name = n, !.room = NoRoom, !.at = s]
    BY <2>1, <2>2, <2>4, <2>5 DEF NextDraft
  <2>7. /\ DOMAIN f = DOMAIN Blank /\ f.op = "AddDiscovered" /\ f.user = u /\ f.solo = FALSE
        /\ f.todo = todo /\ f.names = <<>> /\ f.listed = <<>> /\ f.file = NoFile
        /\ f.room = NoRoom /\ f.at = s
    BY <2>5, <2>6 DEF Blank
  <2>8. d \in Drafted /\ n \in Names \union {NoName}
    BY <2>1, DraftsAssumption DEF Drafted, Draft, Zones
  <2>9. todo \in Seq(Drafted)
    BY <2>1, <2>8
  <2>10. s \in {"saveDraft", "ensure"}
    BY <2>1
  <2>11. Carried(f)
    BY <1>1, <2>7, <2>9, <2>10, NewFormIsCarried DEF Statements
  <2>12. OwnId(u, NoRoom)
    BY DEF OwnId, NoRoom, TablesOK, RoomsOK
  <2>13. \E m \in Names \union {NoName} : todo = <<Draft(NoDevice, m, NoZone)>>
    BY <2>1, <2>8
  <2>14. QED
    BY <2>2, <2>7, <2>10, <2>11, <2>12, <2>13 DEF Arrives, Prepared, Restoring, Placing, Deleting
<1>3. ASSUME NEW g \in [Segments -> {RobotRoom, NoName}], NEW v \in BOOLEAN,
             f = Setup(u, g, v)
      PROVE  Arrives(f, u)
  <2>1. PICK todo : todo = VacuumDevices(g)
    OBVIOUS
  <2>2. todo \in Seq(Drafted) /\ todo # <<>> /\ Head(todo).zone = Whole
    BY <2>1, VacuumDevicesAreDrafts
  <2>3. /\ DOMAIN f = DOMAIN Blank /\ f.op = "CreateVacuum" /\ f.user = u /\ f.solo = FALSE
        /\ f.todo = todo /\ f.names = <<>> /\ f.listed = <<>> /\ f.file = NoFile /\ f.at = "dropGroup"
    BY <1>3, <2>1 DEF Setup, Form, Blank
  <2>4. Carried(f)
    BY <1>1, <2>2, <2>3, NewFormIsCarried DEF Statements
  <2>5. QED
    BY <2>2, <2>3, <2>4 DEF Arrives, Prepared, Restoring, Placing, Deleting
<1>4. \/ \E n \in Locations : f = Discovering(u, n)
      \/ \E g \in [Segments -> {RobotRoom, NoName}], v \in BOOLEAN : f = Setup(u, g, v)
  BY DEF DraftForms
<1>5. QED
  BY <1>2, <1>3, <1>4

LEMMA PreferenceFormsArrive ==
  ASSUME TablesOK, NEW u \in UserIds, NEW f \in PreferenceForms(u)
  PROVE  Arrives(f, u)
<1>1. FileOK(NoFile)
  BY FS_EmptySet, ModesAssumption DEF FileOK, NoFile
<1>2. CASE \E v \in Modes \ {"unset"} : f = [Form("SetMode", u, "setMode") EXCEPT !.value = v]
  <2>1. /\ DOMAIN f = DOMAIN Blank /\ f.user = u /\ f.solo = FALSE /\ f.at = "setMode" /\ f.names = <<>>
        /\ f.listed = <<>> /\ f.todo = <<>> /\ f.file = NoFile /\ f.value \in Modes
    BY <1>2 DEF Form, Blank
  <2>2. Carried(f)
    BY <1>1, <2>1, EmptySeq, NewFormIsCarried DEF Statements
  <2>3. QED
    BY <2>1, <2>2 DEF Arrives, Prepared, Restoring, Placing, Deleting
<1>3. CASE \E op \in {"Ignore", "Unignore"}, i \in Items : f = Ignoring(op, u, i)
  <2>1. /\ DOMAIN f = DOMAIN Blank /\ f.user = u /\ f.solo = FALSE /\ f.at \in {"Ignore", "Unignore"}
        /\ f.names = <<>> /\ f.listed = <<>> /\ f.todo = <<>> /\ f.file = NoFile /\ f.name \in Items
    BY <1>3 DEF Ignoring, Form, Blank
  <2>2. Carried(f)
    BY <1>1, <2>1, EmptySeq, NewFormIsCarried DEF Statements
  <2>3. QED
    BY <2>1, <2>2 DEF Arrives, Prepared, Restoring, Placing, Deleting
<1>4. CASE f = Form("ClearIgnore", u, "ClearIgnore")
  <2>1. /\ DOMAIN f = DOMAIN Blank /\ f.user = u /\ f.solo = FALSE /\ f.at = "ClearIgnore"
        /\ f.names = <<>> /\ f.listed = <<>> /\ f.todo = <<>> /\ f.file = NoFile
    BY <1>4 DEF Form, Blank
  <2>2. QED
    BY <1>1, <2>1, SimpleFormArrives DEF Statements, Deleting
<1>5. \/ \E v \in Modes \ {"unset"} : f = [Form("SetMode", u, "setMode") EXCEPT !.value = v]
      \/ \E op \in {"Ignore", "Unignore"}, i \in Items : f = Ignoring(op, u, i)
      \/ f = Form("ClearIgnore", u, "ClearIgnore")
  BY DEF PreferenceForms
<1>6. QED
  BY <1>2, <1>3, <1>4, <1>5

LEMMA BackupFormsArrive ==
  ASSUME TablesOK, NEW u \in UserIds, NEW f \in BackupForms(u)
  PROVE  Arrives(f, u)
<1>1. FileOK(NoFile) /\ FileOK(backup)
  BY FS_EmptySet, ModesAssumption DEF FileOK, NoFile, TablesOK, PreferencesOK
<1>2. CASE f = Form("ExportConfig", u, "readRooms") \/ f = Form("ResetConfig", u, "wipeDevices")
  <2>1. /\ DOMAIN f = DOMAIN Blank /\ f.user = u /\ f.solo = FALSE /\ f.names = <<>>
        /\ f.listed = <<>> /\ f.todo = <<>> /\ f.file = NoFile
        /\ f.at = "readRooms" \/ (f.at = "wipeDevices" /\ f.op = "ResetConfig")
    BY <1>2 DEF Form, Blank
  <2>2. QED
    BY <1>1, <2>1, SimpleFormArrives DEF Statements, Deleting
<1>3. CASE f = [Form("ImportConfig", u, "wipeDevices") EXCEPT !.file = backup]
  <2>1. /\ DOMAIN f = DOMAIN Blank /\ f.user = u /\ f.solo = FALSE /\ f.at = "wipeDevices"
        /\ f.names = <<>> /\ f.listed = <<>> /\ f.todo = <<>> /\ f.file = backup /\ f.op = "ImportConfig"
    BY <1>3 DEF Form, Blank
  <2>2. QED
    BY <1>1, <2>1, SimpleFormArrives DEF Statements, Deleting
<1>4. QED
  BY <1>2, <1>3, Zenon DEF BackupForms

LEMMA UserFormsArrive ==
  ASSUME TablesOK, NEW u \in UserIds, NEW f \in UserForms(u)
  PROVE  Arrives(f, u)
<1>1. FileOK(NoFile)
  BY FS_EmptySet, ModesAssumption DEF FileOK, NoFile
<1>2. CASE \E v \in BOOLEAN : f = [Form("CreateUser", u, "createUser") EXCEPT !.valid = v]
  <2>1. /\ DOMAIN f = DOMAIN Blank /\ f.user = u /\ f.solo = FALSE /\ f.at = "createUser" /\ f.names = <<>>
        /\ f.listed = <<>> /\ f.todo = <<>> /\ f.file = NoFile /\ f.valid \in BOOLEAN
    BY <1>2 DEF Form, Blank
  <2>2. Carried(f)
    BY <1>1, <2>1, EmptySeq, NewFormIsCarried DEF Statements
  <2>3. QED
    BY <2>1, <2>2 DEF Arrives, Prepared, Restoring, Placing, Deleting
<1>3. CASE \E t \in DOMAIN users \ {u} : f = [Form("DeleteUser", u, "lookup") EXCEPT !.target = t]
  <2>1. /\ DOMAIN f = DOMAIN Blank /\ f.user = u /\ f.solo = FALSE /\ f.at = "lookup" /\ f.names = <<>>
        /\ f.listed = <<>> /\ f.todo = <<>> /\ f.file = NoFile /\ f.target \in DOMAIN users
    BY <1>3 DEF Form, Blank
  <2>2. Carried(f)
    BY <1>1, <2>1, EmptySeq, NewFormIsCarried DEF Statements
  <2>3. f.target \in Nat /\ f.target < nextUser
    BY <2>1 DEF TablesOK, AccountsOK
  <2>4. QED
    BY <2>1, <2>2, <2>3 DEF Arrives, Prepared, Restoring, Placing, Deleting
<1>4. QED
  BY <1>2, <1>3, Zenon DEF UserForms

LEMMA FormsArrive ==
  ASSUME TablesOK, NEW u \in UserIds, NEW f \in Forms(u)
  PROVE  Arrives(f, u)
  BY RoomFormsArrive, DeviceFormsArrive, DraftFormsArrive, PreferenceFormsArrive, BackupFormsArrive,
     UserFormsArrive, Zenon DEF Forms

\* Whether a request is alone is history: nothing it carries depends on it.
LEMMA SoloFields ==
  ASSUME NEW r, Carried(r), Prepared(r), NEW b \in BOOLEAN, b => r.at # "idle",
         NEW x, x = [r EXCEPT !.solo = b]
  PROVE  /\ Carried(x) /\ Prepared(x) /\ x.solo = b
         /\ x.at = r.at /\ x.op = r.op /\ x.user = r.user /\ x.todo = r.todo
<1>1. /\ DOMAIN x = DOMAIN Blank
      /\ x.at = r.at /\ x.op = r.op /\ x.user = r.user /\ x.dev = r.dev /\ x.room = r.room
      /\ x.name = r.name /\ x.names = r.names /\ x.todo = r.todo /\ x.value = r.value
      /\ x.target = r.target /\ x.admins = r.admins /\ x.listed = r.listed
      /\ x.file = r.file /\ x.solo = b /\ x.valid = r.valid
  BY DEF Carried, Blank
<1>2. Carried(x)
  BY <1>1 DEF Carried
<1>3. Prepared(x)
  BY <1>1 DEF Prepared
<1>4. QED
  BY <1>1, <1>2, <1>3

LEMMA BeginStep ==
  ASSUME IInv, NEW p \in Procs, Begin(p)
  PROVE  IInv'
<1>1. PICK u, f :
         /\ u \in DOMAIN users /\ f \in Forms(u)
         /\ req' = [q \in Procs |-> IF q = p THEN [f EXCEPT !.solo = (Busy = {})]
                                    ELSE [req[q] EXCEPT !.solo = FALSE]]
  BY DEF Begin
<1>2. /\ TablesOK /\ up /\ req[p].at = "idle" /\ UNCHANGED <<up, tables, published, overtaken, unpublished, backup>>
  BY DEF IInv, Begin, registry, published
<1>3. u \in UserIds
  BY <1>1, <1>2 DEF TablesOK, AccountsOK
<1>4. Arrives(f, u)
  BY <1>1, <1>2, <1>3, FormsArrive
<1>5. TablesOK' /\ Grows
  BY <1>2, TablesStay
<1>6. PICK b, x : b = (Busy = {}) /\ x = [f EXCEPT !.solo = b]
  OBVIOUS
<1>7. /\ Carried(x) /\ Prepared(x) /\ x.solo = b
      /\ x.at \notin {"idle", "delete", "publish"} /\ ~(x.at \in Placing /\ x.op = "CreateVacuum")
  BY <1>4, <1>6, SoloFields DEF Arrives
<1>8. req'[p] = x
  BY <1>1, <1>6
<1>9. ASSUME NEW q \in Procs, q # p
      PROVE  /\ Carried(req[q])' /\ Prepared(req[q])' /\ ~req'[q].solo
             /\ req'[q].at = req[q].at /\ req'[q].op = req[q].op
  <2>1. PICK r, no, y : r = req[q] /\ no = FALSE /\ y = [r EXCEPT !.solo = no]
    OBVIOUS
  <2>2. req'[q] = y
    BY <1>1, <1>9, <2>1
  <2>3. Carried(y) /\ Prepared(y) /\ ~y.solo /\ y.at = r.at /\ y.op = r.op
    <3>1. Carried(r) /\ Prepared(r)
      BY <2>1, RequestFacts
    <3>2. no \in BOOLEAN /\ (no => r.at # "idle") /\ y = [r EXCEPT !.solo = no]
      BY <2>1
    <3>3. Carried(y) /\ Prepared(y) /\ y.solo = no /\ y.at = r.at /\ y.op = r.op
      BY <3>1, <3>2, SoloFields
    <3>4. QED
      BY <2>1, <3>3
  <2>4. Carried(y)' /\ Prepared(y)'
    BY <1>2, <1>5, <2>3, CarriedStays, PreparedStays
  <2>5. QED
    BY <2>1, <2>2, <2>3, <2>4
<1>10. Carried(req[p])' /\ Prepared(req[p])'
  BY <1>2, <1>5, <1>7, <1>8, CarriedStays, PreparedStays
<1>11. RequestsOK'
  <2>1. DOMAIN req' = Procs
    BY <1>1
  <2>2. QED
    BY <1>9, <1>10, <2>1 DEF RequestsOK
<1>12. LiveFollows'
  <2>1. ASSUME NEW q \in Procs, Unreloaded(req[q])
        PROVE  Unreloaded(req'[q])
    <3>1. q # p
      BY <1>2, <2>1 DEF Unreloaded, Placing
    <3>2. QED
      BY <1>9, <2>1, <3>1 DEF Unreloaded
  <2>2. LoadAll(rooms, devices)' = LoadAll(rooms, devices)
    BY <1>2 DEF tables, roomRows, deviceRows, LoadAll
  <2>3. UNCHANGED <<live, fetched, latest, overtaken, unpublished>>
    BY <1>2 DEF published
  <2>4. x.at # "publish"
    BY <1>7
  <2>5. ASSUME NEW q \in Procs
        PROVE  Fresh(q)' <=> Fresh(q)
    BY <1>2, <1>8, <1>9, <2>3, <2>4 DEF Fresh
  <2>6. LoadsFollow => LoadsFollow'
    BY <2>2, <2>3, <2>5 DEF LoadsFollow
  <2>7. QED
    BY <1>2, <2>1, <2>3, <2>6 DEF IInv, LiveFollows
<1>13. SoloIsAlone'
  <2>1. ASSUME req'[p].solo, NEW q \in Procs, q # p
        PROVE  req'[q].at = "idle"
    BY <1>6, <1>7, <1>8, <1>9, <2>1 DEF Busy
  <2>2. Undisturbed(req[p])'
    BY <1>7, <1>8 DEF Undisturbed
  <2>3. \A q \in Procs : q # p => Undisturbed(req[q])'
    BY <1>9 DEF Undisturbed
  <2>4. QED
    BY <1>9, <2>1, <2>2, <2>3 DEF SoloIsAlone
<1>14. QED
  BY <1>5, <1>11, <1>12, <1>13 DEF IInv

\* Nothing happens.
LEMMA RestStep ==
  ASSUME IInv, UNCHANGED vars
  PROVE  IInv'
<1>1. /\ TablesOK /\ RequestsOK
      /\ UNCHANGED <<up, tables, accounts, roomRows, deviceRows, preferences, inserts,
                     published, live, fetched, latest, overtaken, unpublished, backup, req>>
  BY DEF IInv, vars, tables, registry, published, client, deviceRows
<1>2. Grows
  BY <1>1, GrowsWhenUnchanged
<1>3. TablesOK'
  BY <1>1, <1>2, AccountsStay, RoomsStay, DevicesStay, PreferencesStay DEF TablesOK, ProcessOK, roomRows
<1>4. RequestsOK'
  <2>1. ASSUME NEW q \in Procs
        PROVE  Carried(req[q])' /\ Prepared(req[q])'
    <3>1. PICK r : r = req[q]
      OBVIOUS
    <3>2. Carried(r)' /\ Prepared(r)'
      BY <1>1, <1>2, <3>1, CarriedStays, PreparedStays DEF RequestsOK
    <3>3. QED
      BY <1>1, <3>1, <3>2
  <2>2. QED
    BY <1>1, <2>1 DEF RequestsOK
<1>5. LiveFollows'
  BY <1>1 DEF IInv, LiveFollows, LoadsFollow, Fresh, roomRows, deviceRows, LoadAll
<1>6. SoloIsAlone'
  BY <1>1 DEF IInv, SoloIsAlone, Undisturbed, HasParent, Owned, OfUser, deviceRows
<1>7. QED
  BY <1>3, <1>4, <1>5, <1>6 DEF IInv
-----------------------------------------------------------------------------
(* The start: what seeding adds, device by device of the file.             *)

LEMMA LeastExists ==
  ASSUME NEW T \in SUBSET Nat, T # {}
  PROVE  \E n \in T : \A m \in T : n <= m
<1>1. PICK n \in T : \A m \in T : ~ (<<m, n>> \in OpToRel(<, Nat))
  BY NatLessThanWellFounded, WFMin
<1>2. \A m \in T : ~ (m < n)
  BY <1>1 DEF OpToRel
<1>3. QED
  BY <1>2

\* "f" has the accumulators of the first n devices.
Unfolds(f, s0, n) ==
    f = [k \in 0 .. n |-> IF k = 0 THEN s0 ELSE InsertDevice(EnsureRoom(f[k - 1], Seed[k]))]

LEMMA SeedingExists ==
  ASSUME NEW s0, NEW N \in Nat
  PROVE  \E f : Unfolds(f, s0, N)
<1> DEFINE Bad == {n \in Nat : ~ \E f : Unfolds(f, s0, n)}
<1>1. SUFFICES ASSUME Bad # {} PROVE FALSE
  OBVIOUS
<1>2. PICK n \in Bad : \A m \in Bad : n <= m
  <2>1. Bad \in SUBSET Nat
    OBVIOUS
  <2> HIDE DEF Bad
  <2>2. QED
    BY <1>1, <2>1, LeastExists
<1>3. CASE n = 0
  <2>1. Unfolds([k \in 0 .. 0 |-> s0], s0, 0)
    BY DEF Unfolds
  <2>2. QED
    BY <1>3, <2>1
<1>4. CASE n # 0
  <2>1. n - 1 \in Nat /\ n - 1 \notin Bad
    BY <1>2, <1>4
  <2>2. PICK g : Unfolds(g, s0, n - 1)
    BY <2>1
  <2> DEFINE h == [k \in 0 .. n |-> IF k = n THEN InsertDevice(EnsureRoom(g[n - 1], Seed[n])) ELSE g[k]]
  <2>3. ASSUME NEW k \in 0 .. n
        PROVE  h[k] = IF k = 0 THEN s0 ELSE InsertDevice(EnsureRoom(h[k - 1], Seed[k]))
    BY <2>1, <2>2, <1>4 DEF Unfolds
  <2>4. Unfolds(h, s0, n)
    BY <2>3 DEF Unfolds
  <2>5. QED
    BY <2>4, <1>2
<1>5. QED
  BY <1>3, <1>4

LEMMA SeedingUnfolds ==
  ASSUME NEW s0
  PROVE  Unfolds(Seeding(s0), s0, Len(Seed))
<1>1. Len(Seed) \in Nat
  BY SeedAssumption
<1>2. QED
  BY <1>1, SeedingExists DEF Seeding, Unfolds

\* What one device of the file does to an accumulator.
SeedFields == {"rooms", "next", "inserts", "last", "cache", "ids"}

Seeded(s, n, t) ==
    /\ DOMAIN t = SeedFields /\ t.inserts = s.inserts + 1 /\ t.last = s.inserts + 1
    /\ \/ /\ t.rooms = s.rooms /\ t.next = s.next /\ t.cache = s.cache
          /\ \/ n = NoName /\ t.ids = Append(s.ids, NoRoom)
             \/ n \in DOMAIN s.cache /\ t.ids = Append(s.ids, s.cache[n])
       \/ /\ n # NoName /\ n \notin DOMAIN s.cache /\ ~Taken(s.rooms, Admin, n)
          /\ t.rooms = Put(s.rooms, s.next, [user |-> Admin, name |-> n])
          /\ t.next = s.next + 1
          /\ t.cache = Put(s.cache, n, s.next) /\ t.ids = Append(s.ids, s.next)
       \/ /\ n # NoName /\ n \notin DOMAIN s.cache /\ Taken(s.rooms, Admin, n)
          /\ t.rooms = s.rooms /\ t.next = s.next
          /\ \E id \in {s.last} \union DOMAIN s.rooms :
                t.cache = Put(s.cache, n, id) /\ t.ids = Append(s.ids, id)

LEMMA OneSeeded ==
  ASSUME NEW s, DOMAIN s = SeedFields, NEW n, NEW t, t = InsertDevice(EnsureRoom(s, n))
  PROVE  Seeded(s, n, t)
<1>1. PICK e : e = EnsureRoom(s, n)
  OBVIOUS
<1>2. DOMAIN e = SeedFields
      => /\ DOMAIN t = SeedFields /\ t.inserts = e.inserts + 1 /\ t.last = e.inserts + 1
         /\ t.rooms = e.rooms /\ t.next = e.next /\ t.cache = e.cache /\ t.ids = e.ids
  BY <1>1 DEF InsertDevice, SeedFields
<1>3. CASE n = NoName
  <2>1. e = [s EXCEPT !.ids = Append(s.ids, NoRoom)]
    BY <1>1, <1>3 DEF EnsureRoom, SeedFields
  <2>2. /\ DOMAIN e = SeedFields /\ e.inserts = s.inserts /\ e.rooms = s.rooms /\ e.next = s.next
        /\ e.cache = s.cache /\ e.ids = Append(s.ids, NoRoom)
    BY <2>1 DEF SeedFields
  <2>3. QED
    BY <1>2, <1>3, <2>2 DEF Seeded
<1>4. CASE n # NoName /\ n \in DOMAIN s.cache
  <2>1. e = [s EXCEPT !.ids = Append(s.ids, s.cache[n])]
    BY <1>1, <1>4 DEF EnsureRoom, SeedFields
  <2>2. /\ DOMAIN e = SeedFields /\ e.inserts = s.inserts /\ e.rooms = s.rooms /\ e.next = s.next
        /\ e.cache = s.cache /\ e.ids = Append(s.ids, s.cache[n])
    BY <2>1 DEF SeedFields
  <2>3. QED
    BY <1>2, <1>4, <2>2 DEF Seeded
<1>5. CASE n # NoName /\ n \notin DOMAIN s.cache /\ ~Taken(s.rooms, Admin, n)
  <2>1. PICK m : m = [s EXCEPT !.rooms = Put(s.rooms, s.next, [user |-> Admin, name |-> n]),
                               !.next = s.next + 1, !.last = s.next]
    OBVIOUS
  <2>2. /\ DOMAIN m = SeedFields /\ m.inserts = s.inserts /\ m.next = s.next + 1
        /\ m.rooms = Put(s.rooms, s.next, [user |-> Admin, name |-> n])
        /\ m.cache = s.cache /\ m.ids = s.ids
    BY <2>1 DEF SeedFields
  <2>3. e = [m EXCEPT !.cache = Put(m.cache, n, s.next), !.ids = Append(m.ids, s.next)]
    BY <1>1, <1>5, <2>1, <2>2 DEF EnsureRoom, Answer, SeedFields
  <2>4. /\ DOMAIN e = SeedFields /\ e.inserts = m.inserts /\ e.next = m.next /\ e.rooms = m.rooms
        /\ e.cache = Put(m.cache, n, s.next) /\ e.ids = Append(m.ids, s.next)
    BY <2>2, <2>3 DEF SeedFields
  <2>5. QED
    BY <1>2, <1>5, <2>2, <2>4 DEF Seeded
<1>6. CASE n # NoName /\ n \notin DOMAIN s.cache /\ Taken(s.rooms, Admin, n)
  <2>1. PICK id : id = IF s.last # 0 THEN s.last ELSE CHOOSE r \in Named(s.rooms, Admin, n) : TRUE
    OBVIOUS
  <2>2. id \in {s.last} \union DOMAIN s.rooms
    BY <1>6, <2>1 DEF Taken, Named
  <2>3. e = [s EXCEPT !.cache = Put(s.cache, n, id), !.ids = Append(s.ids, id)]
    BY <1>1, <1>6, <2>1 DEF EnsureRoom, Answer, SeedFields
  <2>4. /\ DOMAIN e = SeedFields /\ e.inserts = s.inserts /\ e.next = s.next /\ e.rooms = s.rooms
        /\ e.cache = Put(s.cache, n, id) /\ e.ids = Append(s.ids, id)
    BY <2>3 DEF SeedFields
  <2>5. QED
    BY <1>2, <1>6, <2>2, <2>4 DEF Seeded
<1>7. QED
  BY <1>3, <1>4, <1>5, <1>6

\* The rooms that are answered are rooms of the file.
SeedNames == {Seed[i] : i \in DOMAIN Seed}

\* An accumulator after k devices: the rooms there were and new rooms of the
\* administrator, whose names were answered with their ids.
SeedTyped(s, k) ==
    /\ DOMAIN s = SeedFields
    /\ s.next \in Nat \ {0} /\ nextRoom <= s.next
    /\ s.inserts \in Nat /\ inserts <= s.inserts
    /\ s.last \in Nat
    /\ s.ids \in Seq(Nat) /\ Len(s.ids) = k
    /\ \A n \in DOMAIN s.cache : s.cache[n] \in Nat

SeedRooms(s) ==
    /\ s.rooms \in [DOMAIN s.rooms -> RoomRow]
    /\ DOMAIN s.rooms \subseteq 1 .. s.next - 1
    /\ \A r, q \in DOMAIN s.rooms : s.rooms[r] = s.rooms[q] => r = q
    /\ \A r \in DOMAIN rooms : r \in DOMAIN s.rooms /\ s.rooms[r] = rooms[r]
    /\ \A r \in DOMAIN s.rooms \ DOMAIN rooms :
          r >= nextRoom /\ s.rooms[r].user = Admin /\ s.rooms[r].name \in DOMAIN s.cache

SeedAnswers(s, k) ==
    /\ DOMAIN s.cache \subseteq SeedNames
    /\ \A n \in DOMAIN s.cache :
          Taken(rooms, Admin, n) \/ (s.cache[n] \in DOMAIN s.rooms /\ s.rooms[s.cache[n]].user = Admin)
    /\ \A i \in 1 .. k : s.ids[i] = NoRoom \/ \E n \in DOMAIN s.cache : s.ids[i] = s.cache[n]

SeedOK(s, k) == SeedTyped(s, k) /\ SeedRooms(s) /\ SeedAnswers(s, k)

LEMMA SeedStepIsOK ==
  ASSUME TablesOK, NEW k \in Nat, NEW s, SeedOK(s, k), NEW n \in Names \union {NoName}, n \in SeedNames,
         NEW t, t = InsertDevice(EnsureRoom(s, n))
  PROVE  SeedOK(t, k + 1)
<1>1. DOMAIN s = SeedFields /\ SeedTyped(s, k) /\ SeedRooms(s) /\ SeedAnswers(s, k)
  BY DEF SeedOK, SeedTyped
<1>2. Seeded(s, n, t) /\ DOMAIN t = SeedFields /\ t.inserts = s.inserts + 1 /\ t.last = s.inserts + 1
  <2>1. Seeded(s, n, t)
    BY <1>1, OneSeeded, Zenon
  <2>2. QED
    BY <2>1 DEF Seeded
<1>3. ASSUME NEW id \in Nat, t.ids = Append(s.ids, id),
             DOMAIN s.cache \subseteq DOMAIN t.cache, \A m \in DOMAIN s.cache : t.cache[m] = s.cache[m],
             id = NoRoom \/ \E m \in DOMAIN t.cache : id = t.cache[m]
      PROVE  /\ t.ids \in Seq(Nat) /\ Len(t.ids) = k + 1
             /\ \A i \in 1 .. k + 1 : t.ids[i] = NoRoom \/ \E m \in DOMAIN t.cache : t.ids[i] = t.cache[m]
  <2>1. /\ t.ids \in Seq(Nat) /\ Len(t.ids) = k + 1
        /\ t.ids[k + 1] = id /\ \A i \in 1 .. k : t.ids[i] = s.ids[i]
    BY <1>1, <1>3 DEF SeedTyped
  <2>2. ASSUME NEW i \in 1 .. k
        PROVE  t.ids[i] = NoRoom \/ \E m \in DOMAIN t.cache : t.ids[i] = t.cache[m]
    BY <1>1, <1>3, <2>1, <2>2 DEF SeedAnswers
  <2>3. \A i \in 1 .. k + 1 : i = k + 1 \/ i \in 1 .. k
    OBVIOUS
  <2>4. QED
    BY <1>3, <2>1, <2>2, <2>3
<1>4. CASE /\ t.rooms = s.rooms /\ t.next = s.next /\ t.cache = s.cache
           /\ \/ n = NoName /\ t.ids = Append(s.ids, NoRoom)
              \/ n \in DOMAIN s.cache /\ t.ids = Append(s.ids, s.cache[n])
  <2>1. \E id \in Nat : t.ids = Append(s.ids, id) /\ (id = NoRoom \/ \E m \in DOMAIN t.cache : id = t.cache[m])
    BY <1>1, <1>4 DEF SeedTyped, NoRoom
  <2>2. /\ t.ids \in Seq(Nat) /\ Len(t.ids) = k + 1
        /\ \A i \in 1 .. k + 1 : t.ids[i] = NoRoom \/ \E m \in DOMAIN t.cache : t.ids[i] = t.cache[m]
    BY <1>3, <1>4, <2>1
  <2>3. SeedTyped(t, k + 1)
    BY <1>1, <1>2, <1>4, <2>2 DEF SeedTyped, TablesOK, DevicesOK
  <2>4. SeedRooms(t)
    BY <1>1, <1>4 DEF SeedRooms
  <2>5. SeedAnswers(t, k + 1)
    BY <1>1, <1>4, <2>2 DEF SeedAnswers
  <2>6. QED
    BY <2>3, <2>4, <2>5 DEF SeedOK
<1>5. CASE /\ n # NoName /\ n \notin DOMAIN s.cache /\ ~Taken(s.rooms, Admin, n)
           /\ t.rooms = Put(s.rooms, s.next, [user |-> Admin, name |-> n])
           /\ t.next = s.next + 1
           /\ t.cache = Put(s.cache, n, s.next) /\ t.ids = Append(s.ids, s.next)
  <2>1. PICK id, row : id = s.next /\ row = [user |-> Admin, name |-> n]
    OBVIOUS
  <2>2. id \in Nat \ {0} /\ nextRoom <= id /\ row \in RoomRow /\ id \notin DOMAIN s.rooms
    <3>1. \A r \in DOMAIN s.rooms : r < s.next
      BY <1>1 DEF SeedTyped, SeedRooms
    <3>2. QED
      BY <1>1, <1>5, <2>1, <3>1, AdminAssumption DEF SeedTyped, RoomRow
  <2>3. /\ DOMAIN t.cache = DOMAIN s.cache \union {n} /\ t.cache[n] = id
        /\ \A m \in DOMAIN s.cache : t.cache[m] = s.cache[m]
    BY <1>5, <2>1 DEF Put
  <2>4. /\ DOMAIN t.rooms = DOMAIN s.rooms \union {id} /\ t.rooms[id] = row
        /\ \A r \in DOMAIN s.rooms : t.rooms[r] = s.rooms[r]
    BY <1>5, <2>1, <2>2 DEF Put
  <2>5. /\ t.ids \in Seq(Nat) /\ Len(t.ids) = k + 1
        /\ \A i \in 1 .. k + 1 : t.ids[i] = NoRoom \/ \E m \in DOMAIN t.cache : t.ids[i] = t.cache[m]
    BY <1>3, <1>5, <2>1, <2>2, <2>3
  <2>6. SeedTyped(t, k + 1)
    <3>1. t.next \in Nat \ {0} /\ nextRoom <= t.next
      BY <1>5, <2>1, <2>2 DEF TablesOK, RoomsOK
    <3>2. t.inserts \in Nat /\ inserts <= t.inserts /\ t.last \in Nat
      BY <1>1, <1>2 DEF SeedTyped, TablesOK, DevicesOK
    <3>3. \A m \in DOMAIN t.cache : t.cache[m] \in Nat
      BY <1>1, <2>2, <2>3 DEF SeedTyped
    <3>4. QED
      BY <1>2, <2>5, <3>1, <3>2, <3>3 DEF SeedTyped
  <2>7. SeedRooms(t)
    <3>1. t.rooms \in [DOMAIN t.rooms -> RoomRow]
      BY <1>1, <1>5, <2>1, <2>2, <2>4 DEF SeedRooms, Put
    <3>2. DOMAIN t.rooms \subseteq 1 .. t.next - 1
      BY <1>1, <1>5, <2>1, <2>2, <2>4 DEF SeedRooms
    <3>3. \A r \in DOMAIN s.rooms : s.rooms[r] # row
      BY <1>5, <2>1 DEF Taken, Named
    <3>4. \A r, q \in DOMAIN t.rooms : t.rooms[r] = t.rooms[q] => r = q
      BY <1>1, <2>4, <3>3 DEF SeedRooms
    <3>5. \A r \in DOMAIN rooms : r \in DOMAIN t.rooms /\ t.rooms[r] = rooms[r]
      BY <1>1, <2>4 DEF SeedRooms
    <3>6. \A r \in DOMAIN t.rooms \ DOMAIN rooms :
             r >= nextRoom /\ t.rooms[r].user = Admin /\ t.rooms[r].name \in DOMAIN t.cache
      BY <1>1, <2>1, <2>2, <2>3, <2>4 DEF SeedRooms
    <3>7. QED
      BY <3>1, <3>2, <3>4, <3>5, <3>6 DEF SeedRooms
  <2>8. SeedAnswers(t, k + 1)
    <3>1. ASSUME NEW m \in DOMAIN t.cache
          PROVE  \/ Taken(rooms, Admin, m)
                 \/ t.cache[m] \in DOMAIN t.rooms /\ t.rooms[t.cache[m]].user = Admin
      <4>1. CASE m = n
        BY <2>1, <2>3, <2>4, <4>1
      <4>2. CASE m # n
        BY <1>1, <2>3, <2>4, <4>2 DEF SeedAnswers
      <4>3. QED
        BY <4>1, <4>2
    <3>2. DOMAIN t.cache \subseteq SeedNames
      BY <1>1, <2>3 DEF SeedAnswers
    <3>3. QED
      BY <2>5, <3>1, <3>2 DEF SeedAnswers
  <2>9. QED
    BY <2>6, <2>7, <2>8 DEF SeedOK
<1>6. CASE /\ n # NoName /\ n \notin DOMAIN s.cache /\ Taken(s.rooms, Admin, n)
           /\ t.rooms = s.rooms /\ t.next = s.next
           /\ \E id \in {s.last} \union DOMAIN s.rooms :
                 t.cache = Put(s.cache, n, id) /\ t.ids = Append(s.ids, id)
  <2>1. PICK id \in {s.last} \union DOMAIN s.rooms :
           t.cache = Put(s.cache, n, id) /\ t.ids = Append(s.ids, id)
    BY <1>6
  <2>2. id \in Nat
    BY <1>1, <2>1 DEF SeedTyped, SeedRooms
  <2>3. /\ DOMAIN t.cache = DOMAIN s.cache \union {n} /\ t.cache[n] = id
        /\ \A m \in DOMAIN s.cache : t.cache[m] = s.cache[m]
    BY <1>6, <2>1 DEF Put
  <2>4. Taken(rooms, Admin, n)
    <3>1. PICK r \in DOMAIN s.rooms : s.rooms[r].user = Admin /\ s.rooms[r].name = n
      BY <1>6 DEF Taken, Named
    <3>2. r \in DOMAIN rooms /\ rooms[r] = s.rooms[r]
      BY <1>1, <1>6, <3>1 DEF SeedRooms
    <3>3. QED
      BY <3>1, <3>2 DEF Taken, Named
  <2>5. /\ t.ids \in Seq(Nat) /\ Len(t.ids) = k + 1
        /\ \A i \in 1 .. k + 1 : t.ids[i] = NoRoom \/ \E m \in DOMAIN t.cache : t.ids[i] = t.cache[m]
    BY <1>3, <2>1, <2>2, <2>3
  <2>6. SeedTyped(t, k + 1)
    BY <1>1, <1>2, <1>6, <2>2, <2>3, <2>5 DEF SeedTyped, TablesOK, DevicesOK, RoomsOK
  <2>7. SeedRooms(t)
    BY <1>1, <1>6, <2>3 DEF SeedRooms
  <2>8. SeedAnswers(t, k + 1)
    BY <1>1, <1>6, <2>3, <2>4, <2>5 DEF SeedAnswers
  <2>9. QED
    BY <2>6, <2>7, <2>8 DEF SeedOK
<1>7. QED
  BY <1>2, <1>4, <1>5, <1>6 DEF Seeded

LEMMA SeedingIsOK ==
  ASSUME TablesOK, NEW last \in Nat, NEW s, s = ImportCatalog(rooms, nextRoom, inserts, last)
  PROVE  SeedOK(s, Len(Seed))
<1>1. PICK s0, f, N :
         /\ s0 = [rooms |-> rooms, next |-> nextRoom, inserts |-> inserts, last |-> last,
                  cache |-> <<>>, ids |-> <<>>]
         /\ f = Seeding(s0) /\ N = Len(Seed)
  OBVIOUS
<1>2. s = f[N]
  BY <1>1 DEF ImportCatalog
<1>3. N \in Nat /\ \A k \in 1 .. N : Seed[k] \in Names \union {NoName} /\ Seed[k] \in SeedNames
  BY <1>1, SeedAssumption DEF SeedNames
<1>4. \A k \in 0 .. N : f[k] = IF k = 0 THEN s0 ELSE InsertDevice(EnsureRoom(f[k - 1], Seed[k]))
  BY <1>1, <1>3, SeedingUnfolds DEF Unfolds
<1>5. SeedOK(s0, 0)
  <2>1. /\ DOMAIN s0 = SeedFields /\ s0.rooms = rooms /\ s0.next = nextRoom /\ s0.inserts = inserts
        /\ s0.last = last /\ DOMAIN s0.cache = {} /\ s0.ids = <<>>
    BY <1>1 DEF SeedFields
  <2>2. s0.ids \in Seq(Nat) /\ Len(s0.ids) = 0
    BY <2>1, EmptySeq
  <2>3. SeedTyped(s0, 0)
    BY <2>1, <2>2 DEF SeedTyped, TablesOK, RoomsOK, DevicesOK
  <2>4. SeedRooms(s0)
    BY <2>1 DEF SeedRooms, TablesOK, RoomsOK
  <2>5. SeedAnswers(s0, 0)
    BY <2>1 DEF SeedAnswers
  <2>6. QED
    BY <2>3, <2>4, <2>5 DEF SeedOK
<1> DEFINE Bad == {k \in 0 .. N : ~SeedOK(f[k], k)}
<1>6. ASSUME Bad # {} PROVE FALSE
  <2>1. PICK k \in Bad : \A m \in Bad : k <= m
    <3>1. Bad \in SUBSET Nat
      BY <1>3
    <3> HIDE DEF Bad
    <3>2. QED
      BY <1>6, <3>1, LeastExists
  <2>2. k # 0
    BY <1>3, <1>4, <1>5, <2>1
  <2>3. k - 1 \in 0 .. N /\ k - 1 \notin Bad /\ k \in 1 .. N
    BY <1>3, <2>1, <2>2
  <2>4. SeedOK(f[k - 1], k - 1)
    BY <2>3
  <2>5. SeedOK(f[k], k)
    <3>1. PICK e, t, n, j : e = f[k - 1] /\ t = f[k] /\ n = Seed[k] /\ j = k - 1
      OBVIOUS
    <3>2. t = InsertDevice(EnsureRoom(e, n)) /\ n \in Names \union {NoName} /\ n \in SeedNames /\ j \in Nat /\ j + 1 = k
      BY <1>3, <1>4, <2>2, <2>3, <3>1
    <3>3. SeedOK(t, j + 1)
      BY <2>4, <3>1, <3>2, SeedStepIsOK
    <3>4. QED
      BY <3>1, <3>2, <3>3
  <2>6. QED
    BY <2>1, <2>5
<1>7. N \in 0 .. N /\ N \notin Bad
  BY <1>3, <1>6
<1>8. QED
  BY <1>1, <1>2, <1>7

\* The devices of the file are well-formed if their rooms exist.
SeededRows(s, all) ==
    /\ all \in [DOMAIN all -> Row] /\ IsFiniteSet(DOMAIN all)
    /\ DOMAIN all = {YamlId(k) : k \in 1 .. Len(Seed)}
    /\ \A d \in DOMAIN all :
          /\ RoomExists(s.rooms, all[d].room)
          /\ all[d].user = Admin
          /\ all[d].room # NoRoom => \E n \in DOMAIN s.cache : all[d].room = s.cache[n]

LEMMA SeededDevicesAreOK ==
  ASSUME TablesOK, NEW s, SeedOK(s, Len(Seed)), Imported(s), NEW all, all = SeededDevices(s)
  PROVE  SeededRows(s, all)
<1>1. PICK ids, N : ids = {YamlId(k) : k \in 1 .. N} /\ N = Len(Seed)
  OBVIOUS
<1>2. N \in Nat
  BY <1>1, SeedAssumption
<1>3. all = [d \in ids |-> Device(Admin, s.ids[d[2]], NoZone)]
  BY <1>1 DEF SeededDevices
<1>4. DOMAIN all = ids
  BY <1>3
<1>5. IsFiniteSet(ids)
  <2>1. PICK S, f : S = 1 .. N /\ f = [k \in S |-> YamlId(k)]
    OBVIOUS
  <2>2. IsFiniteSet(S)
    BY <1>2, <2>1, FS_Interval
  <2>3. f \in [S -> ids]
    BY <1>1, <2>1
  <2>4. IsFiniteSet({f[k] : k \in S})
    BY <2>2, <2>3, ImageIsFinite
  <2>5. {f[k] : k \in S} = ids
    BY <1>1, <2>1
  <2>6. QED
    BY <2>4, <2>5
<1>6. ASSUME NEW d \in ids
      PROVE  /\ all[d] \in Row /\ RoomExists(s.rooms, all[d].room) /\ all[d].user = Admin
             /\ all[d].room # NoRoom => \E n \in DOMAIN s.cache : all[d].room = s.cache[n]
  <2>1. PICK k \in 1 .. N : d = YamlId(k)
    BY <1>1
  <2>2. d[2] = k
    BY <2>1 DEF YamlId
  <2>3. all[d] = Device(Admin, s.ids[k], NoZone)
    BY <1>3, <2>2
  <2>4. RoomExists(s.rooms, s.ids[k]) /\ s.ids[k] \in Nat
    BY <1>1, <1>2, <2>1 DEF Imported, SeedOK, SeedTyped
  <2>5. s.ids[k] = NoRoom \/ \E n \in DOMAIN s.cache : s.ids[k] = s.cache[n]
    BY <1>1, <2>1 DEF SeedOK, SeedAnswers
  <2>6. QED
    BY <2>3, <2>4, <2>5, AdminAssumption DEF Device, Row, Zones
<1>7. QED
  BY <1>1, <1>3, <1>4, <1>5, <1>6 DEF SeededRows

LEMMA StartStep ==
  ASSUME IInv, Start
  PROVE  IInv'
<1>1. PICK fresh, s, seeds, exits :
         /\ fresh = (DOMAIN users = {})
         /\ s = ImportCatalog(rooms, nextRoom, inserts, IF fresh THEN Admin ELSE 0)
         /\ seeds = (DOMAIN devices = {} /\ Len(Seed) > 0)
         /\ exits = (seeds /\ ~Imported(s))
  OBVIOUS
<1>2. /\ TablesOK /\ ~up /\ up' = ~exits /\ unpublished' = FALSE /\ overtaken' = FALSE
      /\ users'    = IF fresh THEN Put(users, Admin, TRUE) ELSE users
      /\ nextUser' = IF fresh /\ nextUser <= Admin THEN Admin + 1 ELSE nextUser
      /\ IF seeds /\ ~exits
         THEN /\ rooms'    = s.rooms
              /\ nextRoom' = s.next
              /\ devices'  = SeededDevices(s)
              /\ inserts'  = s.inserts
         ELSE UNCHANGED <<rooms, nextRoom, devices, inserts>>
      /\ live' = IF exits THEN <<>> ELSE LoadAll(rooms', devices')
      /\ UNCHANGED <<mode, ignore, backup, req, fetched>>
  BY <1>1 DEF IInv, Start, client
<1>3. AccountsOK'
  <2>1. CASE fresh
    <3>1. Admin \in UserIds /\ Admin \in Nat \ {0} /\ nextUser \in Nat \ {0}
      BY <1>2, AdminAssumption DEF TablesOK, AccountsOK
    <3>2. DOMAIN users' = {Admin} /\ users' \in [DOMAIN users' -> BOOLEAN]
      BY <1>1, <1>2, <2>1 DEF Put
    <3>3. nextUser' \in Nat \ {0} /\ Admin < nextUser'
      BY <1>2, <2>1, <3>1
    <3>4. QED
      BY <3>1, <3>2, <3>3 DEF AccountsOK
  <2>2. CASE ~fresh
    BY <1>2, <2>2 DEF TablesOK, AccountsOK
  <2>3. QED
    BY <2>1, <2>2, <1>1
<1>4. RoomsOK' /\ DevicesOK' /\ inserts \in Nat /\ inserts' \in Nat /\ inserts <= inserts'
  <2>1. CASE seeds /\ ~exits
    <3>1. SeedOK(s, Len(Seed)) /\ Imported(s)
      <4>1. PICK last : last = IF fresh THEN Admin ELSE 0
        OBVIOUS
      <4>2. last \in Nat /\ s = ImportCatalog(rooms, nextRoom, inserts, last)
        BY <1>1, <4>1, AdminAssumption
      <4>3. QED
        BY <1>1, <1>2, <2>1, <4>2, SeedingIsOK
    <3>2. RoomsOK' /\ inserts \in Nat /\ inserts' \in Nat /\ inserts <= inserts'
      BY <1>2, <2>1, <3>1 DEF SeedOK, SeedTyped, SeedRooms, RoomsOK, TablesOK, DevicesOK
    <3>3. PICK all : all = SeededDevices(s)
      OBVIOUS
    <3>4. /\ all \in [DOMAIN all -> Row] /\ IsFiniteSet(DOMAIN all)
          /\ DOMAIN all = {YamlId(k) : k \in 1 .. Len(Seed)}
          /\ \A d \in DOMAIN all : RoomExists(s.rooms, all[d].room)
      BY <1>2, <3>1, <3>3, SeededDevicesAreOK DEF SeededRows
    <3>5. devices' = all /\ rooms' = s.rooms
      BY <1>2, <2>1, <3>3
    <3>6. DOMAIN all \subseteq Ids'
      BY <3>4 DEF Ids
    <3>7. DevicesOK'
      BY <3>2, <3>4, <3>5, <3>6 DEF DevicesOK
    <3>8. QED
      BY <3>2, <3>7
  <2>2. CASE ~(seeds /\ ~exits)
    <3>1. UNCHANGED <<rooms, nextRoom, devices, inserts>>
      BY <1>2, <2>2
    <3>2. QED
      BY <1>2, <3>1, RoomsStay, DevicesStay DEF TablesOK, DevicesOK, roomRows, deviceRows
  <2>3. QED
    BY <2>1, <2>2
<1>5. PreferencesOK'
  <2>1. Drafted \subseteq Drafted'
    BY <1>4, IdsGrow
  <2>2. FileOK(backup)'
    BY <1>2, <2>1 DEF TablesOK, PreferencesOK, FileOK
  <2>3. QED
    BY <1>2, <2>2 DEF TablesOK, PreferencesOK
<1>6. req' = [q \in Procs |-> Blank] /\ up' \in BOOLEAN
  BY <1>1, <1>2 DEF TablesOK, ProcessOK
<1>7. TablesOK'
  BY <1>2, <1>3, <1>4, <1>5, <1>6 DEF TablesOK, ProcessOK
<1>8. PICK x : x = Blank
  OBVIOUS
<1>9. Carried(x)' /\ Prepared(x)' /\ ~x.solo
  <2>1. FileOK(NoFile)'
    BY FS_EmptySet, ModesAssumption DEF FileOK, NoFile
  <2>2. <<>> \in Seq(Drafted') /\ <<>> \in Seq(Names)
    BY EmptySeq
  <2>3. Carried(x)'
    BY <1>8, <2>1, <2>2 DEF Carried, Blank, Statements
  <2>4. QED
    BY <1>8, <2>3 DEF Prepared, Blank, Restoring, Placing, Deleting
<1>10. \A q \in Procs : req'[q] = x
  BY <1>6, <1>8
<1>11. RequestsOK'
  BY <1>6, <1>9, <1>10 DEF RequestsOK
<1>12. SoloIsAlone'
  BY <1>9, <1>10 DEF SoloIsAlone, Undisturbed
<1>13. LiveFollows'
  <2>1. ASSUME up'
        PROVE  live' = LoadAll(rooms, devices)'
    BY <1>1, <1>2, <2>1 DEF LoadAll
  <2>2. ASSUME NEW q \in Procs
        PROVE  ~Fresh(q)'
    BY <1>6 DEF Fresh, Blank
  <2>3. DOMAIN fetched' = Procs
    BY <1>2 DEF IInv, LiveFollows
  <2>4. QED
    BY <2>1, <2>2, <2>3 DEF LiveFollows, LoadsFollow
<1>14. QED
  BY <1>7, <1>11, <1>12, <1>13 DEF IInv
-----------------------------------------------------------------------------
(* The invariant holds.                                                    *)

LEMMA InitIInv ==
  ASSUME Init
  PROVE  IInv
<1>1. AccountsOK
  <2>1. users \in Seq(BOOLEAN) /\ DOMAIN users \subseteq UserIds /\ nextUser = Len(users) + 1
    BY WorkloadsAssumption DEF Init
  <2>2. Len(users) \in Nat /\ users \in [1 .. Len(users) -> BOOLEAN] /\ DOMAIN users = 1 .. Len(users)
    BY <2>1
  <2>3. QED
    BY <2>1, <2>2 DEF AccountsOK
<1>2. RoomsOK /\ DevicesOK
  <2>1. rooms = <<>> /\ nextRoom = 1 /\ devices = <<>> /\ inserts = 0
    BY DEF Init
  <2>2. QED
    BY <2>1, FS_EmptySet DEF RoomsOK, DevicesOK
<1>3. FileOK(NoFile)
  BY FS_EmptySet, ModesAssumption DEF FileOK, NoFile
<1>4. PreferencesOK
  BY <1>3, ModesAssumption DEF PreferencesOK, Init
<1>5. req = [p \in Procs |-> Blank] /\ up = FALSE /\ unpublished = FALSE /\ overtaken = FALSE
  BY DEF Init
<1>6. TablesOK
  BY <1>1, <1>2, <1>4, <1>5 DEF TablesOK, ProcessOK
<1>7. PICK x : x = Blank
  OBVIOUS
<1>8. Carried(x) /\ Prepared(x) /\ ~x.solo /\ \A p \in Procs : req[p] = x
  BY <1>5, <1>6, <1>7, BlankIsOK
<1>9. RequestsOK
  BY <1>5, <1>8 DEF RequestsOK
<1>10. LiveFollows /\ SoloIsAlone
  BY <1>5, <1>8 DEF Init, LiveFollows, SoloIsAlone, Undisturbed
<1>11. QED
  BY <1>6, <1>9, <1>10 DEF IInv

LEMMA StatementStep ==
  ASSUME IInv, NEW p \in Procs, Statement(p)
  PROVE  IInv'
<1>1. CASE \/ CreateRoom(p) \/ RenameRoom(p) \/ DeleteRoom(p) \/ CheckRoom(p) \/ MoveDevice(p)
           \/ CreateDevice(p) \/ UpdateDevice(p) \/ FindDevice(p) \/ DeleteGroup(p) \/ DeleteDevice(p)
  BY <1>1, CreateRoomStep, RenameRoomStep, DeleteRoomStep, CheckRoomStep, MoveDeviceStep,
     CreateDeviceStep, UpdateDeviceStep, FindDeviceStep, DeleteGroupStep, DeleteDeviceStep
<1>2. CASE FindRoom(p) \/ MakeRoom(p) \/ DropGroup(p) \/ SaveDraft(p) \/ ReadRooms(p) \/ ReadDevices(p)
  BY <1>2, FindRoomStep, MakeRoomStep, DropGroupStep, SaveDraftStep, ReadRoomsStep, ReadDevicesStep
<1>3. CASE WipeDevices(p) \/ WipeRooms(p) \/ WipePreferences(p) \/ ListRooms(p) \/ RestorePreferences(p)
  BY <1>3, WipeDevicesStep, WipeRoomsStep, WipePreferencesStep, ListRoomsStep, RestorePreferencesStep
<1>4. CASE \/ SetMode(p) \/ SetIgnored(p) \/ CreateUser(p) \/ LookupUser(p) \/ CountAdmins(p)
           \/ DeleteUser(p) \/ Reload(p) \/ Publish(p)
  BY <1>4, SetModeStep, SetIgnoredStep, CreateUserStep, LookupUserStep, CountAdminsStep,
     DeleteUserStep, ReloadRequestStep, PublishStep
<1>5. QED
  BY <1>1, <1>2, <1>3, <1>4 DEF Statement

LEMMA StepIInv ==
  ASSUME IInv, [Next]_vars
  PROVE  IInv'
<1>1. CASE Start
  BY <1>1, StartStep
<1>2. CASE Crash
  BY <1>2, CrashStep
<1>3. CASE Rest \/ UNCHANGED vars
  BY <1>3, RestStep DEF Rest
<1>4. CASE \E p \in Procs : Begin(p) \/ Statement(p) \/ HangUp(p)
  BY <1>4, BeginStep, StatementStep, HangUpStep
<1>5. QED
  BY <1>1, <1>2, <1>3, <1>4 DEF Next

LEMMA Invariance == Spec => []IInv
<1>1. Init => IInv
  BY InitIInv
<1>2. IInv /\ [Next]_vars => IInv'
  BY StepIInv
<1>3. QED
  BY <1>1, <1>2, PTL DEF Spec

\* Every row is well-formed and below its sequence, and no user has two rooms
\* of one name, whichever handlers alternate, fail or are cut short, and
\* whatever seeding does with rooms that are already there.
THEOREM TypeCorrect == Spec => []TypeOK
<1>1. IInv => TypeOK
  <2>1. SUFFICES ASSUME IInv PROVE TypeOK
    OBVIOUS
  <2>2. TablesOK /\ RequestsOK
    BY <2>1 DEF IInv
  <2>3. up \in BOOLEAN /\ unpublished \in BOOLEAN /\ overtaken \in BOOLEAN /\ DOMAIN users \subseteq UserIds
    BY <2>2 DEF TablesOK, ProcessOK, AccountsOK
  <2>4. \A u \in DOMAIN users : users[u] \in BOOLEAN
    BY <2>2 DEF TablesOK, AccountsOK
  <2>5. /\ \A r \in DOMAIN rooms : IsRoomRow(rooms[r]) /\ r \in 1 .. nextRoom - 1
        /\ \A r, q \in DOMAIN rooms : rooms[r] = rooms[q] => r = q
    BY <2>2 DEF TablesOK, RoomsOK, RoomRow, IsRoomRow
  <2>6. \A d \in DOMAIN devices : devices[d].user \in UserIds /\ IsZone(devices[d].zone)
    <3>1. \A d \in DOMAIN devices : devices[d] \in Row
      BY <2>2 DEF TablesOK, DevicesOK
    <3>2. QED
      BY <3>1 DEF Row, Zones, IsZone
  <2>7. mode \in [UserIds -> Modes] /\ ignore \in [UserIds -> SUBSET Items]
    BY <2>2 DEF TablesOK, PreferencesOK
  <2>8. \A p \in Procs : req[p].at \in Statements /\ req[p].user \in UserIds \union {0}
    BY <2>2 DEF RequestsOK, Carried
  <2>9. QED
    BY <2>3, <2>4, <2>5, <2>6, <2>7, <2>8 DEF TypeOK
<1>2. QED
  BY <1>1, Invariance, PTL

\* At rest the provider API serves the catalog as the database has it, unless
\* the reload that stored last had been overtaken: after every statement that
\* shows, its request has a load ahead, and the latest load is the catalog
\* until the next such statement, wherever its request stands.
THEOREM LiveStaysCatalog == Spec => []LiveIsCatalog
<1>1. IInv => LiveIsCatalog
  <2>1. SUFFICES ASSUME IInv, up, Busy = {}, ~unpublished, ~overtaken
                 PROVE  live = LoadAll(rooms, devices)
    BY DEF LiveIsCatalog
  <2>2. \A p \in Procs : req[p].at = "idle"
    BY <2>1 DEF Busy
  <2>3. QED
    BY <2>1, <2>2 DEF IInv, LiveFollows, LoadsFollow, Fresh, Unreloaded, Placing
<1>2. QED
  BY <1>1, Invariance, PTL
-----------------------------------------------------------------------------
(* The last administrator.                                                 *)

\* Who writes accounts.
LEMMA AccountWriters ==
  ASSUME [Next]_vars
  PROVE  UNCHANGED users \/ Start \/ \E p \in Procs : CreateUser(p) \/ DeleteUser(p)
<1>1. CASE Crash \/ Rest \/ UNCHANGED vars
  BY <1>1 DEF Crash, Rest, vars, tables, accounts
<1>2. ASSUME NEW p \in Procs, Statement(p), ~CreateUser(p), ~DeleteUser(p)
      PROVE  UNCHANGED users
  <2>1. CASE \/ CreateRoom(p) \/ RenameRoom(p) \/ DeleteRoom(p) \/ CheckRoom(p) \/ MoveDevice(p)
             \/ CreateDevice(p) \/ UpdateDevice(p) \/ FindDevice(p) \/ DeleteGroup(p) \/ DeleteDevice(p)
    BY <2>1 DEF CreateRoom, RenameRoom, DeleteRoom, CheckRoom, MoveDevice, CreateDevice, UpdateDevice,
                FindDevice, DeleteGroup, DeleteDevice, tables, accounts
  <2>2. CASE \/ FindRoom(p) \/ MakeRoom(p) \/ DropGroup(p) \/ SaveDraft(p) \/ ReadRooms(p)
             \/ ReadDevices(p) \/ WipeDevices(p) \/ WipeRooms(p)
    BY <2>2 DEF FindRoom, MakeRoom, DropGroup, SaveDraft, ReadRooms, ReadDevices, WipeDevices,
                WipeRooms, tables, accounts
  <2>3. CASE \/ WipePreferences(p) \/ ListRooms(p) \/ RestorePreferences(p) \/ SetMode(p)
             \/ SetIgnored(p) \/ LookupUser(p) \/ CountAdmins(p) \/ Reload(p) \/ Publish(p)
    BY <2>3 DEF WipePreferences, ListRooms, RestorePreferences, SetMode, SetIgnored, LookupUser,
                CountAdmins, Reload, Publish, tables, accounts
  <2>4. QED
    BY <1>2, <2>1, <2>2, <2>3 DEF Statement
<1>3. ASSUME NEW p \in Procs, Begin(p) \/ HangUp(p)
      PROVE  UNCHANGED users
  BY <1>3 DEF Begin, HangUp, tables, accounts
<1>4. QED
  BY <1>1, <1>2, <1>3 DEF Next

\* The last administrator goes only by a request that has counted more of
\* them than there are: a request that finds an account an ordinary one
\* deletes an ordinary one, since no account becomes an administrator later.
THEOREM LastAdminGoesByRace == Spec => LastAdminNeedsRace
<1>1. ASSUME IInv, [Next]_vars, AdminIds # {}, AdminIds' = {}
      PROVE  \E p \in Procs : req[p].at = "deleteUser" /\ req[p].admins > Cardinality(AdminIds)
  <2>1. PICK a \in DOMAIN users : users[a]
    BY <1>1 DEF AdminIds
  <2>2. TablesOK
    BY <1>1 DEF IInv
  <2>3. ~(a \in DOMAIN users' /\ users'[a])
    BY <1>1 DEF AdminIds
  <2>4. ~Start
    BY <2>1, <2>3 DEF Start
  <2>5. ASSUME NEW p \in Procs PROVE ~CreateUser(p)
    BY <2>1, <2>2, <2>3 DEF CreateUser, Put, TablesOK, AccountsOK
  <2>6. PICK p \in Procs : DeleteUser(p)
    BY <1>1, <2>1, <2>3, <2>4, <2>5, AccountWriters
  <2>7. PICK r : r = req[p]
    OBVIOUS
  <2>8. r.at = "deleteUser" /\ users' = Without(users, {r.target})
    BY <2>6, <2>7 DEF DeleteUser, At
  <2>9. \A u \in AdminIds : u = r.target
    BY <1>1, <2>8 DEF AdminIds, Without
  <2>10. AdminIds = {r.target} /\ r.target \in DOMAIN users /\ users[r.target]
    BY <1>1, <2>9 DEF AdminIds
  <2>11. r.admins > 1
    BY <1>1, <2>7, <2>8, <2>10, RequestFacts DEF Prepared
  <2>12. Cardinality(AdminIds) = 1
    BY <2>10, FS_Singleton
  <2>13. QED
    BY <2>7, <2>8, <2>11, <2>12
<1>2. IInv /\ [Next]_vars =>
        [(AdminIds # {} /\ AdminIds' = {})
           => \E p \in Procs : req[p].at = "deleteUser" /\ req[p].admins > Cardinality(AdminIds)]_vars
  BY <1>1
<1>3. QED
  BY Invariance, <1>2, PTL DEF Spec, LastAdminNeedsRace
-----------------------------------------------------------------------------
(* A robot's group.                                                        *)

\* Moving devices about leaves groups alone.
LEMMA SameGroups ==
  ASSUME DOMAIN devices' = DOMAIN devices,
         \A d \in DOMAIN devices : devices'[d].user = devices[d].user /\ devices'[d].zone = devices[d].zone
  PROVE  Orphans' \subseteq Orphans
  BY DEF Orphans, OfUser

\* Deleting orphans no zone, if no parent goes whose zones stay.
LEMMA DeletedOrphansNone ==
  ASSUME NEW gone, devices' = Without(devices, gone),
         \A e \in gone, d \in DOMAIN devices \ gone :
            /\ e \in DOMAIN devices /\ devices[e].zone = Whole
            /\ devices[d].user = devices[e].user
            => devices[d].zone \notin Segments
  PROVE  Orphans' \subseteq Orphans
<1>1. DOMAIN devices' = DOMAIN devices \ gone /\ \A d \in DOMAIN devices' : devices'[d] = devices[d]
  BY DEF Without
<1>2. QED
  BY <1>1 DEF Orphans, OfUser

\* A new device is a zone only if the parent is there.
LEMMA AddedOrphansNone ==
  ASSUME NEW d, d \notin DOMAIN devices, NEW row, devices' = Put(devices, d, row),
         row.zone \in Segments => HasParent(row.user)
  PROVE  Orphans' \subseteq Orphans
<1>1. /\ DOMAIN devices' = DOMAIN devices \union {d} /\ devices'[d] = row
      /\ \A e \in DOMAIN devices : devices'[e] = devices[e]
  BY DEF Put
<1>2. QED
  BY <1>1 DEF Orphans, OfUser, HasParent

\* An id from the counter is nobody's.
LEMMA UuidIsNew ==
  ASSUME TablesOK
  PROVE  Uuid(inserts + 1) \notin DOMAIN devices
  BY DEF TablesOK, DevicesOK, Ids, Uuid, VacuumId, YamlId

LEMMA GroupIsDeletedWhole ==
  ASSUME NEW u, devices' = Without(devices, VacuumGroup(devices, u))
  PROVE  Orphans' \subseteq Orphans
<1>1. PICK gone : gone = VacuumGroup(devices, u)
  OBVIOUS
<1>2. \A e \in gone : e \in DOMAIN devices /\ devices[e].user = u
  BY <1>1 DEF VacuumGroup, OfUser
<1>3. \A d \in DOMAIN devices \ gone : devices[d].user = u => devices[d].zone = NoZone
  BY <1>1 DEF VacuumGroup, OfUser
<1>4. NoZone \notin Segments
  BY SegmentsAssumption DEF NoZone
<1>5. QED
  BY <1>1, <1>2, <1>3, <1>4, DeletedOrphansNone

\* The statements that write the table of devices.
LEMMA DeviceWriters ==
  ASSUME NEW p \in Procs, Statement(p)
  PROVE  \/ UNCHANGED devices
         \/ DeleteRoom(p) \/ MoveDevice(p) \/ CreateDevice(p) \/ UpdateDevice(p) \/ DeleteGroup(p)
         \/ DeleteDevice(p) \/ DropGroup(p) \/ SaveDraft(p) \/ WipeDevices(p) \/ WipeRooms(p)
<1>1. CASE \/ CreateRoom(p) \/ RenameRoom(p) \/ CheckRoom(p) \/ FindDevice(p) \/ FindRoom(p)
           \/ MakeRoom(p) \/ ReadRooms(p) \/ ReadDevices(p) \/ WipePreferences(p) \/ ListRooms(p)
  BY <1>1 DEF CreateRoom, RenameRoom, CheckRoom, FindDevice, FindRoom, MakeRoom, ReadRooms, ReadDevices,
              WipePreferences, ListRooms, tables, deviceRows
<1>2. CASE \/ RestorePreferences(p) \/ SetMode(p) \/ SetIgnored(p) \/ CreateUser(p) \/ LookupUser(p)
           \/ CountAdmins(p) \/ DeleteUser(p) \/ Reload(p) \/ Publish(p)
  BY <1>2 DEF RestorePreferences, SetMode, SetIgnored, CreateUser, LookupUser, CountAdmins, DeleteUser,
              Reload, Publish, tables, deviceRows
<1>3. QED
  BY <1>1, <1>2 DEF Statement

LEMMA SoloKeepsGroups ==
  ASSUME IInv, NEW p \in Procs, Statement(p), req[p].solo,
         req[p].op \notin {"UpdateDevice", "ImportConfig"}
  PROVE  Orphans' \subseteq Orphans
<1>1. PICK r : r = req[p]
  OBVIOUS
<1>2. /\ TablesOK /\ Carried(r) /\ Prepared(r) /\ Undisturbed(r)
      /\ r.solo /\ r.op \notin {"UpdateDevice", "ImportConfig"}
  BY <1>1, RequestFacts
<1>3. \A d \in DOMAIN devices : devices[d] \in Row
  BY <1>2 DEF TablesOK, DevicesOK
<1>4. CASE UNCHANGED devices
  BY <1>4 DEF Orphans, OfUser
<1>5. ASSUME NEW gone, devices' = Unassign(devices, gone)
      PROVE  Orphans' \subseteq Orphans
  BY <1>3, <1>5, SameGroups DEF Unassign, Row
<1>6. CASE DeleteRoom(p) \/ WipeRooms(p)
  BY <1>5, <1>6 DEF DeleteRoom, WipeRooms
<1>7. CASE MoveDevice(p)
  <2>1. PICK d, id : d = r.dev /\ id = r.room
    OBVIOUS
  <2>2. UNCHANGED devices \/ devices' = [devices EXCEPT ![d].room = id]
    BY <1>1, <1>7, <2>1 DEF MoveDevice
  <2>3. QED
    BY <1>3, <1>4, <2>2, SameGroups DEF Row
<1>8. CASE CreateDevice(p)
  <2>1. PICK d, row : d = Uuid(inserts + 1) /\ row = Device(r.user, r.room, NoZone)
    OBVIOUS
  <2>2. UNCHANGED devices \/ devices' = Put(devices, d, row)
    BY <1>1, <1>8, <2>1 DEF CreateDevice, deviceRows
  <2>3. d \notin DOMAIN devices /\ row.zone \notin Segments
    BY <1>2, <2>1, UuidIsNew, SegmentsAssumption DEF Device, NoZone
  <2>4. QED
    BY <1>4, <2>2, <2>3, AddedOrphansNone
<1>9. CASE DeleteGroup(p) \/ DropGroup(p)
  BY <1>9, GroupIsDeletedWhole DEF DeleteGroup, DropGroup
<1>10. CASE DeleteDevice(p)
  <2>1. r.at = "delete"
    BY <1>1, <1>10 DEF DeleteDevice, At
  <2>2. CASE Owned(devices, r.user, r.dev)
    <3>1. devices[r.dev].zone # Whole
      BY <1>2, <2>1, <2>2 DEF Undisturbed
    <3>2. PICK gone : gone = {r.dev}
      OBVIOUS
    <3>3. devices' = Without(devices, gone)
      BY <1>1, <1>10, <2>2, <3>2 DEF DeleteDevice
    <3>4. QED
      BY <3>1, <3>2, <3>3, DeletedOrphansNone
  <2>3. CASE ~Owned(devices, r.user, r.dev)
    BY <1>1, <1>4, <1>10, <2>3 DEF DeleteDevice
  <2>4. QED
    BY <2>2, <2>3
<1>11. CASE SaveDraft(p)
  <2>1. PICK d, id, row : /\ d = Head(r.todo) /\ id = IF d.id = NoDevice THEN Uuid(inserts + 1) ELSE d.id
                          /\ row = Device(r.user, r.room, d.zone)
    OBVIOUS
  <2>2. r.at = "saveDraft"
    BY <1>1, <1>11 DEF SaveDraft, At
  <2>3. \/ UNCHANGED devices
        \/ id \notin DOMAIN devices /\ devices' = Put(devices, id, row)
    BY <1>1, <1>11, <2>1 DEF SaveDraft, deviceRows, CanSave
  <2>4. row.zone = d.zone /\ row.user = r.user
    BY <2>1 DEF Device
  <2>5. d.zone = Whole \/ d.zone = NoZone \/ HasParent(r.user)
    <3>1. CASE r.op = "CreateVacuum"
      BY <1>2, <2>1, <2>2, <3>1 DEF Undisturbed, Placing
    <3>2. CASE r.op = "AddDiscovered"
      <4>1. PICK n : r.todo = <<Draft(NoDevice, n, NoZone)>>
        BY <1>2, <2>2, <3>2 DEF Prepared, Placing
      <4>2. QED
        BY <2>1, <4>1 DEF Draft
    <3>3. QED
      BY <1>2, <2>2, <3>1, <3>2 DEF Prepared, Placing
  <2>6. Whole \notin Segments /\ NoZone \notin Segments
    BY SegmentsAssumption DEF Whole, NoZone
  <2>7. QED
    BY <1>4, <2>3, <2>4, <2>5, <2>6, AddedOrphansNone
<1>12. CASE WipeDevices(p)
  <2>1. PICK gone : gone = OfUser(devices, r.user)
    OBVIOUS
  <2>2. devices' = Without(devices, gone)
    BY <1>1, <1>12, <2>1 DEF WipeDevices
  <2>3. QED
    BY <2>1, <2>2, DeletedOrphansNone DEF OfUser
<1>13. ~UpdateDevice(p)
  BY <1>1, <1>2 DEF UpdateDevice
<1>14. QED
  BY <1>4, <1>6, <1>7, <1>8, <1>9, <1>10, <1>11, <1>12, <1>13, DeviceWriters

\* A request that nothing overlaps leaves no zone without its robot's parent
\* at any of its statements: it deletes a group as one, and creates the parent
\* before the zones.
THEOREM SoloKeepsGroupsWhole == Spec => GroupsStayWhole
<1>1. ASSUME IInv, [Next]_vars, NEW p \in Procs, req'[p] # req[p], req[p].solo,
             req[p].op \notin {"UpdateDevice", "ImportConfig"}
      PROVE  Orphans' \subseteq Orphans
  <2>1. DOMAIN req = Procs
    BY <1>1 DEF IInv, RequestsOK
  <2>2. ~Start
    BY <1>1 DEF Start
  <2>3. CASE UNCHANGED devices
    BY <2>3 DEF Orphans, OfUser
  <2>4. CASE Crash \/ Rest \/ UNCHANGED vars
    BY <2>3, <2>4 DEF Crash, Rest, vars, tables, deviceRows
  <2>5. ASSUME NEW q \in Procs, Begin(q) \/ HangUp(q)
        PROVE  UNCHANGED devices
    BY <2>5 DEF Begin, HangUp, tables, deviceRows
  <2>6. ASSUME NEW q \in Procs, Statement(q)
        PROVE  Orphans' \subseteq Orphans
    <3>1. CASE q = p
      BY <1>1, <2>6, <3>1, SoloKeepsGroups
    <3>2. CASE q # p
      <4>1. req[q].at = "idle"
        BY <1>1, <3>2 DEF IInv, SoloIsAlone
      <4>2. QED
        BY <2>6, <4>1, DeviceWriters, <2>3
           DEF At, DeleteRoom, MoveDevice, CreateDevice, UpdateDevice, DeleteGroup, DeleteDevice, DropGroup,
               SaveDraft, WipeDevices, WipeRooms
    <3>3. QED
      BY <3>1, <3>2
  <2>7. QED
    BY <1>1, <2>2, <2>3, <2>4, <2>5, <2>6 DEF Next
<1>2. IInv /\ [Next]_vars =>
        [\A p \in Procs :
           (req'[p] # req[p] /\ req[p].solo /\ req[p].op \notin {"UpdateDevice", "ImportConfig"})
             => Orphans' \subseteq Orphans]_vars
  BY <1>1
<1>3. QED
  BY Invariance, <1>2, PTL DEF Spec, GroupsStayWhole
-----------------------------------------------------------------------------
(* Devices in rooms of their owners, if seeding finds rooms.               *)

\* A step that keeps the owners of the rooms that stay in use.
LEMMA OwnersStay ==
  ASSUME RoomOfOwner, UNCHANGED astray,
         \A d \in DOMAIN devices' :
            \/ devices'[d].room = NoRoom
            \/ /\ BelongsToUser(rooms, devices'[d].user, devices'[d].room)
               /\ devices'[d].room \in DOMAIN rooms'
            \/ /\ d \in DOMAIN devices
               /\ devices'[d].room = devices[d].room /\ devices'[d].user = devices[d].user
               /\ devices[d].room \in DOMAIN rooms => devices[d].room \in DOMAIN rooms',
         \A r \in DOMAIN rooms : r \in DOMAIN rooms' => rooms'[r].user = rooms[r].user
  PROVE  RoomOfOwner'
  BY DEF RoomOfOwner, InOwnRoom, BelongsToUser, OfUser

\* Writing one device in a room its request looked up, or dropping some.
LEMMA OwnersPut ==
  ASSUME RoomOfOwner, UNCHANGED <<rooms, astray>>, NEW d, NEW row, devices' = Put(devices, d, row),
         OwnId(row.user, row.room), RoomExists(rooms, row.room)
  PROVE  RoomOfOwner'
<1>1. row.room = NoRoom \/ BelongsToUser(rooms, row.user, row.room)
  BY DEF OwnId, RoomExists, BelongsToUser, OfUser
<1>2. /\ DOMAIN devices' = DOMAIN devices \union {d} /\ devices'[d] = row
      /\ \A e \in DOMAIN devices : e # d => devices'[e] = devices[e]
  BY DEF Put
<1>3. \A e \in DOMAIN devices' :
         \/ devices'[e].room # NoRoom => BelongsToUser(rooms, devices'[e].user, devices'[e].room)
         \/ <<e, devices'[e].room>> \in astray
  BY <1>1, <1>2 DEF RoomOfOwner, InOwnRoom
<1>4. QED
  BY <1>3 DEF RoomOfOwner, InOwnRoom, BelongsToUser, OfUser

LEMMA OwnersWithout ==
  ASSUME RoomOfOwner, UNCHANGED <<rooms, astray>>, NEW gone, devices' = Without(devices, gone)
  PROVE  RoomOfOwner'
  BY DEF RoomOfOwner, InOwnRoom, BelongsToUser, OfUser, Without

\* The statements that write the table of rooms.
LEMMA RoomWriters ==
  ASSUME NEW p \in Procs, Statement(p)
  PROVE  \/ UNCHANGED rooms
         \/ CreateRoom(p) \/ RenameRoom(p) \/ MakeRoom(p) \/ DeleteRoom(p) \/ WipeRooms(p)
<1>1. CASE \/ CheckRoom(p) \/ MoveDevice(p) \/ CreateDevice(p) \/ UpdateDevice(p) \/ FindDevice(p)
           \/ DeleteGroup(p) \/ DeleteDevice(p) \/ FindRoom(p) \/ DropGroup(p) \/ SaveDraft(p)
           \/ ReadRooms(p) \/ ReadDevices(p) \/ WipeDevices(p)
  BY <1>1 DEF CheckRoom, MoveDevice, CreateDevice, UpdateDevice, FindDevice, DeleteGroup, DeleteDevice,
              FindRoom, DropGroup, SaveDraft, ReadRooms, ReadDevices, WipeDevices, tables, roomRows
<1>2. CASE \/ WipePreferences(p) \/ ListRooms(p) \/ RestorePreferences(p) \/ SetMode(p)
           \/ SetIgnored(p) \/ CreateUser(p) \/ LookupUser(p) \/ CountAdmins(p) \/ DeleteUser(p) \/ Reload(p) \/ Publish(p)
  BY <1>2 DEF WipePreferences, ListRooms, RestorePreferences, SetMode, SetIgnored, CreateUser, LookupUser,
              CountAdmins, DeleteUser, Reload, Publish, tables, roomRows
<1>3. QED
  BY <1>1, <1>2 DEF Statement

LEMMA StatementIsServed ==
  ASSUME NEW p \in Procs, Statement(p)
  PROVE  up /\ UNCHANGED <<up, astray>>
<1>1. CASE \/ CreateRoom(p) \/ RenameRoom(p) \/ DeleteRoom(p) \/ CheckRoom(p) \/ MoveDevice(p)
           \/ CreateDevice(p) \/ UpdateDevice(p) \/ FindDevice(p) \/ DeleteGroup(p) \/ DeleteDevice(p)
           \/ FindRoom(p) \/ MakeRoom(p) \/ DropGroup(p) \/ SaveDraft(p)
  BY <1>1 DEF CreateRoom, RenameRoom, DeleteRoom, CheckRoom, MoveDevice, CreateDevice, UpdateDevice,
              FindDevice, DeleteGroup, DeleteDevice, FindRoom, MakeRoom, DropGroup, SaveDraft, At, Served, seeding
<1>2. CASE \/ ReadRooms(p) \/ ReadDevices(p) \/ WipeDevices(p) \/ WipeRooms(p) \/ WipePreferences(p)
           \/ ListRooms(p) \/ RestorePreferences(p) \/ SetMode(p) \/ SetIgnored(p) \/ CreateUser(p)
           \/ LookupUser(p) \/ CountAdmins(p) \/ DeleteUser(p) \/ Reload(p) \/ Publish(p)
  BY <1>2 DEF ReadRooms, ReadDevices, WipeDevices, WipeRooms, WipePreferences, ListRooms,
              RestorePreferences, SetMode, SetIgnored, CreateUser, LookupUser, CountAdmins, DeleteUser,
              Reload, Publish, At, Served, seeding
<1>3. QED
  BY <1>1, <1>2 DEF Statement

LEMMA StatementKeepsOwners ==
  ASSUME IInv, RoomOfOwner, NEW p \in Procs, Statement(p)
  PROVE  RoomOfOwner'
<1>1. PICK r : r = req[p]
  OBVIOUS
<1> UNCHANGED astray
  BY StatementIsServed
<1>2. TablesOK /\ Carried(r) /\ Prepared(r)
  BY <1>1, RequestFacts
<1>3. \A d \in DOMAIN devices : devices[d] \in Row
  BY <1>2 DEF TablesOK, DevicesOK
<1>4. ASSUME NEW u, NEW n, AddRoom(u, n), UNCHANGED devices
      PROVE  RoomOfOwner'
  <2>1. PICK id, row : id = nextRoom /\ row = [user |-> u, name |-> n]
    OBVIOUS
  <2>2. id \notin DOMAIN rooms /\ rooms' = Put(rooms, id, row)
    BY <1>2, <1>4, <2>1 DEF TablesOK, RoomsOK, AddRoom
  <2>3. /\ DOMAIN rooms' = DOMAIN rooms \union {id} /\ \A q \in DOMAIN rooms : rooms'[q] = rooms[q]
    BY <2>2 DEF Put
  <2>4. QED
    BY <1>4, <2>3, OwnersStay
<1>5. ASSUME NEW gone, rooms' = Without(rooms, gone), devices' = Unassign(devices, gone)
      PROVE  RoomOfOwner'
  <2>1. DOMAIN rooms' = DOMAIN rooms \ gone /\ \A q \in DOMAIN rooms' : rooms'[q] = rooms[q]
    BY <1>5 DEF Without
  <2>2. /\ DOMAIN devices' = DOMAIN devices
        /\ \A d \in DOMAIN devices :
              \/ devices'[d].room = NoRoom
              \/ devices[d].room \notin gone /\ devices'[d] = devices[d]
    BY <1>3, <1>5 DEF Unassign, Row
  <2>3. QED
    BY <2>1, <2>2, OwnersStay
<1>6. CASE UNCHANGED <<rooms, devices>>
  BY <1>6 DEF RoomOfOwner, InOwnRoom, BelongsToUser, OfUser
<1>7. CASE CreateRoom(p)
  BY <1>4, <1>6, <1>7 DEF CreateRoom, roomRows, deviceRows
<1>8. CASE MakeRoom(p)
  BY <1>4, <1>6, <1>8 DEF MakeRoom, roomRows, deviceRows
<1>9. CASE DeleteRoom(p) \/ WipeRooms(p)
  BY <1>5, <1>9 DEF DeleteRoom, WipeRooms
<1>10. CASE RenameRoom(p)
  <2>1. PICK id, n : id = r.room /\ n = r.name
    OBVIOUS
  <2>2. \/ UNCHANGED rooms
        \/ id \in DOMAIN rooms /\ rooms' = [rooms EXCEPT ![id].name = n]
    BY <1>1, <1>10, <2>1 DEF RenameRoom, RenameRow, OfUser
  <2>3. \A q \in DOMAIN rooms : rooms[q] \in RoomRow
    BY <1>2 DEF TablesOK, RoomsOK
  <2>4. DOMAIN rooms' = DOMAIN rooms /\ \A q \in DOMAIN rooms : rooms'[q].user = rooms[q].user
    BY <2>2, <2>3 DEF RoomRow
  <2>5. UNCHANGED devices
    BY <1>10 DEF RenameRoom, deviceRows
  <2>6. QED
    BY <2>4, <2>5, OwnersStay
<1>11. CASE MoveDevice(p) \/ UpdateDevice(p)
  <2>1. PICK d, row : d = r.dev /\ row = IF r.op = "MoveDevice" THEN [devices[d] EXCEPT !.room = r.room]
                                         ELSE Device(r.user, r.room, NoZone)
    OBVIOUS
  <2>2. r.at = "save" /\ UNCHANGED rooms
    BY <1>1, <1>11 DEF MoveDevice, UpdateDevice, At, roomRows
  <2>3. CASE CanReplace(rooms, devices, r.user, d, r.room)
    <3>1. d \in DOMAIN devices /\ devices[d].user = r.user /\ RoomExists(rooms, r.room)
      BY <2>3 DEF CanReplace, Owned, OfUser
    <3>2. row.user = r.user /\ row.room = r.room
      BY <1>3, <2>1, <3>1 DEF Device, Row
    <3>3. devices' = [devices EXCEPT ![d] = row]
      BY <1>1, <1>3, <1>11, <2>1, <2>3, <3>1 DEF MoveDevice, UpdateDevice
    <3>4. devices' = Put(devices, d, row)
      BY <1>2, <3>1, <3>3, ReplacedIsPut
    <3>5. OwnId(r.user, r.room)
      BY <1>2, <2>2 DEF Prepared
    <3>6. QED
      BY <2>2, <3>1, <3>2, <3>4, <3>5, OwnersPut
  <2>4. CASE ~CanReplace(rooms, devices, r.user, d, r.room)
    BY <1>1, <1>6, <1>11, <2>1, <2>2, <2>4 DEF MoveDevice, UpdateDevice, deviceRows
  <2>5. QED
    BY <2>3, <2>4
<1>12. CASE CreateDevice(p)
  <2>1. PICK d, row : d = Uuid(inserts + 1) /\ row = Device(r.user, r.room, NoZone)
    OBVIOUS
  <2>2. /\ r.at = "save" /\ UNCHANGED rooms
        /\ UNCHANGED devices \/ (devices' = Put(devices, d, row) /\ RoomExists(rooms, r.room))
    BY <1>1, <1>12, <2>1 DEF CreateDevice, At, roomRows, deviceRows
  <2>3. OwnId(row.user, row.room) /\ row.room = r.room
    BY <1>2, <2>1, <2>2 DEF Prepared, Device
  <2>4. QED
    BY <1>6, <2>2, <2>3, OwnersPut
<1>13. CASE SaveDraft(p)
  <2>1. PICK d, id, row : /\ d = Head(r.todo) /\ id = IF d.id = NoDevice THEN Uuid(inserts + 1) ELSE d.id
                          /\ row = Device(r.user, r.room, d.zone)
    OBVIOUS
  <2>2. /\ r.at = "saveDraft" /\ UNCHANGED rooms
        /\ UNCHANGED devices \/ (devices' = Put(devices, id, row) /\ RoomExists(rooms, r.room))
    BY <1>1, <1>13, <2>1 DEF SaveDraft, At, roomRows, deviceRows, CanSave
  <2>3. OwnId(row.user, row.room) /\ row.room = r.room
    BY <1>2, <2>1, <2>2 DEF Prepared, Device
  <2>4. QED
    BY <1>6, <2>2, <2>3, OwnersPut
<1>14. ASSUME \E gone : devices' = Without(devices, gone), UNCHANGED rooms
       PROVE  RoomOfOwner'
  BY <1>14, OwnersWithout
<1>15. CASE DeleteGroup(p) \/ DropGroup(p) \/ WipeDevices(p)
  BY <1>14, <1>15 DEF DeleteGroup, DropGroup, WipeDevices, roomRows
<1>16. CASE DeleteDevice(p)
  BY <1>6, <1>14, <1>16 DEF DeleteDevice, roomRows
<1>17. QED
  BY <1>6, <1>7, <1>8, <1>9, <1>10, <1>11, <1>12, <1>13, <1>15, <1>16, DeviceWriters, RoomWriters

LEMMA StartKeepsOwners ==
  ASSUME RoomOfOwner, Start
  PROVE  RoomOfOwner'
<1>1. PICK s, seeds, exits :
         /\ s = ImportCatalog(rooms, nextRoom, inserts, IF DOMAIN users = {} THEN Admin ELSE 0)
         /\ seeds = (DOMAIN devices = {} /\ Len(Seed) > 0)
         /\ exits = (seeds /\ ~Imported(s))
  OBVIOUS
<1>2. IF seeds /\ ~exits
      THEN rooms' = s.rooms /\ devices' = SeededDevices(s) /\ astray' = Astray(s)
      ELSE UNCHANGED <<rooms, devices, astray>>
  BY <1>1 DEF Start
<1>3. CASE seeds /\ ~exits
  <2>1. ASSUME NEW k \in 1 .. Len(Seed), s.ids[k] # NoRoom, <<YamlId(k), s.ids[k]>> \notin Astray(s)
        PROVE  s.ids[k] \in DOMAIN s.rooms /\ s.rooms[s.ids[k]].user = Admin
    BY <2>1 DEF Astray, Named
  <2>2. \A d \in DOMAIN devices' :
           \E k \in 1 .. Len(Seed) :
              d = YamlId(k) /\ devices'[d].user = Admin /\ devices'[d].room = s.ids[k]
    BY <1>2, <1>3 DEF SeededDevices, Device, YamlId
  <2>3. QED
    BY <1>2, <1>3, <2>1, <2>2 DEF RoomOfOwner, InOwnRoom, BelongsToUser, OfUser
<1>4. CASE ~(seeds /\ ~exits)
  BY <1>2, <1>4 DEF RoomOfOwner, InOwnRoom, BelongsToUser, OfUser
<1>5. QED
  BY <1>3, <1>4

\* A device is in a room of its own user or in none, whatever becomes of the
\* room between the statement that looks it up and the one that writes the
\* device: a room that is deleted takes its id with it.  The exception is a
\* device that seeding put in another room than the file names, which stays
\* there until it is moved.
THEOREM RoomsAreOfOwners == Spec => []RoomOfOwner
<1>1. Init => RoomOfOwner
  BY DEF Init, RoomOfOwner
<1>2. ASSUME IInv, RoomOfOwner, [Next]_vars
      PROVE  RoomOfOwner'
  <2>1. CASE UNCHANGED <<rooms, devices, astray>>
    BY <1>2, <2>1 DEF RoomOfOwner, InOwnRoom, BelongsToUser, OfUser
  <2>2. CASE Start
    BY <1>2, <2>2, StartKeepsOwners
  <2>3. CASE Crash \/ Rest \/ UNCHANGED vars
    BY <2>1, <2>3 DEF Crash, Rest, vars, seeding, tables, roomRows, deviceRows
  <2>4. ASSUME NEW p \in Procs, Begin(p) \/ HangUp(p)
        PROVE  RoomOfOwner'
    BY <2>1, <2>4 DEF Begin, HangUp, seeding, tables, roomRows, deviceRows
  <2>5. ASSUME NEW p \in Procs, Statement(p)
        PROVE  RoomOfOwner'
    BY <1>2, <2>5, StatementKeepsOwners
  <2>6. QED
    BY <1>2, <2>2, <2>3, <2>4, <2>5 DEF Next
<1>3. QED
  BY <1>1, <1>2, Invariance, PTL DEF Spec
-----------------------------------------------------------------------------
(* A backup, from the export to the end of an import.                      *)

Entries(s)   == {s[i] : i \in DOMAIN s}
RoomNames(u) == {rooms[id].name : id \in OfUser(rooms, u)}
RoomList(u)  == [id \in OfUser(rooms, u) |-> rooms[id].name]
Shown(d)     == <<RoomName(rooms, devices[d].room), devices[d].zone>>

\* A file that says what its view was.
Faithful(f) ==
    f.solo =>
        /\ f.rooms \subseteq Names
        /\ \A d \in f.devices : /\ d.id # NoDevice
                                /\ d.room \in f.rooms \union {NoName}
                                /\ f.view[d.id] = <<d.room, d.zone>>
        /\ f.view = [x \in {d.id : d \in f.devices} |-> f.view[x]]

\* Half an export that nothing overlapped.
Reading(r) ==
    r.solo /\ r.at = "readDevices" => r.listed = RoomList(r.user) /\ r.file.rooms = RoomNames(r.user)

\* What an import that nothing overlapped has done so far.
NoDevicesYet == {"wipeRooms", "wipePreferences", "ensure", "makeRoom", "listRooms"}
RoomsAreBack == {"listRooms", "saveDraft", "restore", "reload"}
Saving       == {"saveDraft", "restore", "reload"}

Unset(u) == mode[u] = "unset" /\ ignore[u] = {}

DevicesAreBack(r) ==
    /\ \A x \in OfUser(devices, r.user) : x \in DOMAIN r.file.view /\ Shown(x) = r.file.view[x]
    /\ \A d \in r.file.devices : d.id \in DOMAIN devices \/ (r.at = "saveDraft" /\ d \in Entries(r.todo))

NextIsPlaced(r) ==
    /\ r.listed = RoomList(r.user)
    /\ Entries(r.todo) \subseteq r.file.devices
    /\ RoomExists(rooms, r.room) /\ RoomName(rooms, r.room) = Head(r.todo).room

Progress(r) ==
    /\ r.at \in NoDevicesYet => OfUser(devices, r.user) = {}
    /\ r.at = "wipePreferences" => OfUser(rooms, r.user) = {}
    /\ r.at \in {"ensure", "makeRoom", "listRooms", "saveDraft", "restore"} => Unset(r.user)
    /\ r.at \in {"ensure", "makeRoom"} =>
          RoomNames(r.user) \union {r.name} \union Entries(r.names) = r.file.rooms
    /\ r.at \in RoomsAreBack => RoomNames(r.user) = r.file.rooms
    /\ r.at \in Saving => DevicesAreBack(r)
    /\ r.at = "saveDraft" => NextIsPlaced(r)
    /\ r.at = "reload" => mode[r.user] = r.file.mode /\ ignore[r.user] = r.file.ignore

\* A file that can be restored: Create accepts the names of its rooms.
Restorable(f) == f.solo /\ f.rooms \intersect LongNames = {}

Importing(r) == r.op = "ImportConfig" /\ r.solo /\ Restorable(r.file) => Progress(r)

\* The statements of an import.
ImportSteps == {"wipeDevices", "publish"} \union NoDevicesYet \union Saving

BackupOK(r) ==
    /\ Faithful(r.file) /\ Reading(r) /\ Importing(r)
    /\ r.op = "ImportConfig" => r.at \in ImportSteps

BackupsOK == Faithful(backup) /\ \A p \in Procs : BackupOK(req[p])

LEMMA SetToSeqHasAll ==
  ASSUME NEW S, IsFiniteSet(S)
  PROVE  Entries(SetToSeq(S)) = S /\ (SetToSeq(S) = <<>> => S = {})
<1>1. PICK n, s : n = Cardinality(S) /\ s = SetToSeq(S)
  OBVIOUS
<1>2. n \in Nat /\ ExistsBijection(1 .. n, S)
  BY <1>1, FS_CardinalityType
<1>3. \E f \in [1 .. n -> S] : IsInjective(f)
  BY <1>2 DEF ExistsBijection, Bijection, Injection
<1>4. s \in [1 .. n -> S] /\ IsInjective(s)
  BY <1>1, <1>3 DEF SetToSeq
<1>5. PICK T : T = Entries(s)
  OBVIOUS
<1>6. T \subseteq S /\ IsFiniteSet(T)
  BY <1>4, <1>5, FS_Subset DEF Entries
<1>7. s \in Bijection(1 .. n, T)
  BY <1>4, <1>5 DEF Entries, IsInjective, Bijection, Injection, Surjection
<1>8. Cardinality(T) = n
  BY <1>2, <1>6, <1>7, FS_CountingElements DEF ExistsBijection
<1>9. T = S
  BY <1>1, <1>6, <1>8, FS_Subset
<1>10. s = <<>> => T = {}
  BY <1>5 DEF Entries
<1>11. QED
  BY <1>1, <1>5, <1>9, <1>10

LEMMA EntriesSplit ==
  ASSUME NEW S, NEW s \in Seq(S), s # <<>>
  PROVE  Entries(s) = {Head(s)} \union Entries(Tail(s))
<1>1. Len(s) \in Nat \ {0} /\ DOMAIN s = 1 .. Len(s) /\ Head(s) = s[1]
  OBVIOUS
<1>2. DOMAIN Tail(s) = 1 .. Len(s) - 1 /\ \A i \in 1 .. Len(s) - 1 : Tail(s)[i] = s[i + 1]
  BY <1>1
<1>3. ASSUME NEW i \in DOMAIN s
      PROVE  s[i] = Head(s) \/ \E j \in DOMAIN Tail(s) : s[i] = Tail(s)[j]
  <2>1. CASE i = 1
    BY <1>1, <2>1
  <2>2. CASE i # 1
    <3>1. i - 1 \in DOMAIN Tail(s) /\ Tail(s)[i - 1] = s[i]
      BY <1>1, <1>2, <2>2
    <3>2. QED
      BY <3>1
  <2>3. QED
    BY <2>1, <2>2
<1>4. \A j \in DOMAIN Tail(s) : j + 1 \in DOMAIN s /\ Tail(s)[j] = s[j + 1]
  BY <1>1, <1>2
<1>5. PICK h, t : h = Head(s) /\ t = Tail(s)
  OBVIOUS
<1>6. Entries(s) \subseteq {h} \union Entries(t)
  BY <1>3, <1>5 DEF Entries
<1>7. h \in Entries(s)
  BY <1>1, <1>5 DEF Entries
<1>8. Entries(t) \subseteq Entries(s)
  BY <1>4, <1>5 DEF Entries
<1>9. QED
  BY <1>5, <1>6, <1>7, <1>8

\* A statement answers, or goes on with the same file for the same user.
Moved(r, x) ==
    \/ x = Blank
    \/ /\ x.op = r.op /\ x.file = r.file /\ x.user = r.user /\ x.solo = r.solo
       /\ x.at \notin {"rename", "readDevices"}

Moves(p) == \E x : req' = [req EXCEPT ![p] = x] /\ Moved(req[p], x)

LEMMA ReplyMoves ==
  ASSUME NEW p \in Procs, Reply(p)
  PROVE  Moves(p)
  BY DEF Reply, Moves, Moved

LEMMA GotoMoves ==
  ASSUME NEW p \in Procs, DOMAIN req[p] = DOMAIN Blank, NEW s, s \notin {"rename", "readDevices"}, Goto(p, s)
  PROVE  Moves(p)
<1>1. PICK r, x : r = req[p] /\ x = [r EXCEPT !.at = s]
  OBVIOUS
<1>2. x.at = s /\ x.op = r.op /\ x.file = r.file /\ x.user = r.user /\ x.solo = r.solo
  BY <1>1 DEF Blank
<1>3. req' = [req EXCEPT ![p] = x]
  BY <1>1 DEF Goto
<1>4. Moved(req[p], x)
  BY <1>1, <1>2 DEF Moved
<1>5. QED
  BY <1>3, <1>4 DEF Moves

LEMMA NextMoves ==
  ASSUME NEW r, DOMAIN r = DOMAIN Blank, NEW x, x \in {NextRoom(r), NextDevice(r), NextDraft(r)}
  PROVE  Moved(r, x)
<1>1. CASE x = NextRoom(r)
  <2>1. \/ x = [r EXCEPT !.at = "listRooms"]
        \/ x = [r EXCEPT !.at = "ensure", !.name = Head(r.names), !.names = Tail(r.names)]
    BY <1>1 DEF NextRoom, Blank
  <2>2. QED
    BY <2>1 DEF Moved, Blank
<1>2. CASE x = NextDevice(r)
  <2>1. PICK id : id = IF Listed(r, Head(r.todo).room) = {} THEN NoRoom
                       ELSE CHOOSE i \in Listed(r, Head(r.todo).room) : TRUE
    OBVIOUS
  <2>2. x = [r EXCEPT !.at = "restore"] \/ x = [r EXCEPT !.at = "saveDraft", !.room = id]
    BY <1>2, <2>1 DEF NextDevice
  <2>3. QED
    BY <2>2 DEF Moved, Blank
<1>3. CASE x = NextDraft(r)
  <2>1. PICK n, s : n = Head(r.todo).room /\ s = IF n = NoName THEN "saveDraft" ELSE "ensure"
    OBVIOUS
  <2>2. x = [r EXCEPT !.at = "reload"] \/ x = [r EXCEPT !.name = n, !.room = NoRoom, !.at = s]
    BY <1>3, <2>1 DEF NextDraft
  <2>3. QED
    BY <2>1, <2>2 DEF Moved, Blank
<1>4. QED
  BY <1>1, <1>2, <1>3

LEMMA EnsuredMoves ==
  ASSUME NEW r, DOMAIN r = DOMAIN Blank, NEW id, NEW x, x = Ensured(r, id)
  PROVE  Moved(r, x)
<1>1. x = Blank \/ x = NextRoom(r) \/ x = [r EXCEPT !.at = "saveDraft", !.room = id]
  BY DEF Ensured
<1>2. CASE x = [r EXCEPT !.at = "saveDraft", !.room = id]
  BY <1>2 DEF Moved, Blank
<1>3. QED
  BY <1>1, <1>2, NextMoves DEF Moved

LEMMA StatementMoves ==
  ASSUME IInv, NEW p \in Procs, Statement(p), ~ReadRooms(p)
  PROVE  Moves(p)
<1>1. PICK r : r = req[p]
  OBVIOUS
<1>2. DOMAIN r = DOMAIN Blank
  BY <1>1, RequestFacts DEF Carried
<1>3. ASSUME NEW x, req' = [req EXCEPT ![p] = x], Moved(r, x)
      PROVE  Moves(p)
  BY <1>1, <1>3 DEF Moves
<1>4. ASSUME Reply(p) \/ \E s \in Statements \ {"rename", "readDevices"} : Goto(p, s)
      PROVE  Moves(p)
  BY <1>1, <1>2, <1>4, ReplyMoves, GotoMoves
<1>5. CASE \/ CreateRoom(p) \/ RenameRoom(p) \/ DeleteRoom(p) \/ CheckRoom(p) \/ MoveDevice(p)
           \/ CreateDevice(p) \/ UpdateDevice(p) \/ FindDevice(p) \/ DeleteGroup(p) \/ DeleteDevice(p)
  BY <1>4, <1>5 DEF CreateRoom, RenameRoom, DeleteRoom, CheckRoom, MoveDevice, CreateDevice,
                    UpdateDevice, FindDevice, DeleteGroup, DeleteDevice, Statements
<1>6. CASE \/ ReadDevices(p) \/ WipeDevices(p) \/ WipeRooms(p) \/ RestorePreferences(p) \/ SetMode(p)
           \/ SetIgnored(p) \/ CreateUser(p) \/ LookupUser(p) \/ DeleteUser(p) \/ Reload(p) \/ Publish(p)
  BY <1>4, <1>6 DEF ReadDevices, WipeDevices, WipeRooms, RestorePreferences, SetMode, SetIgnored,
                    CreateUser, LookupUser, DeleteUser, Reload, Publish, Statements
<1>7. CASE FindRoom(p)
  <2>1. CASE Goto(p, "makeRoom")
    BY <1>4, <2>1 DEF Statements
  <2>2. CASE ~Goto(p, "makeRoom")
    <3>1. PICK id : req' = [req EXCEPT ![p] = Ensured(r, id)]
      BY <1>1, <1>7, <2>2 DEF FindRoom
    <3>2. QED
      BY <1>2, <1>3, <3>1, EnsuredMoves
  <2>3. QED
    BY <2>1, <2>2
<1>8. CASE MakeRoom(p)
  <2>1. PICK id : req' = [req EXCEPT ![p] = Ensured(r, id)]
    BY <1>1, <1>8 DEF MakeRoom
  <2>2. QED
    BY <1>2, <1>3, <2>1, EnsuredMoves
<1>9. CASE DropGroup(p)
  <2>1. req' = [req EXCEPT ![p] = NextDraft(r)] \/ req' = [req EXCEPT ![p] = Blank]
    BY <1>1, <1>9 DEF DropGroup
  <2>2. QED
    BY <1>2, <1>3, <2>1, NextMoves DEF Moved
<1>10. CASE SaveDraft(p)
  <2>1. PICK left : left = [r EXCEPT !.todo = Tail(r.todo)]
    OBVIOUS
  <2>2. /\ DOMAIN left = DOMAIN Blank /\ left.op = r.op /\ left.file = r.file
        /\ left.user = r.user /\ left.solo = r.solo
    BY <1>2, <2>1 DEF Blank
  <2>3. PICK x : /\ req' = [req EXCEPT ![p] = x]
                 /\ x = NextDevice(left) \/ x = NextDraft(left) \/ x = Blank
    BY <1>1, <1>2, <1>10, <2>1 DEF SaveDraft, Blank
  <2>4. Moved(left, x)
    BY <2>2, <2>3, NextMoves DEF Moved
  <2>5. Moved(r, x)
    BY <2>2, <2>4 DEF Moved
  <2>6. QED
    BY <1>3, <2>3, <2>5
<1>11. CASE WipePreferences(p)
  <2>1. PICK y, g : y = [r EXCEPT !.names = SetToSeq(r.file.rooms)] /\ g = [r EXCEPT !.at = "reload"]
    OBVIOUS
  <2>2. /\ DOMAIN y = DOMAIN Blank /\ y.op = r.op /\ y.file = r.file /\ y.user = r.user /\ y.solo = r.solo
        /\ g.at = "reload" /\ g.op = r.op /\ g.file = r.file /\ g.user = r.user /\ g.solo = r.solo
    BY <1>2, <2>1 DEF Blank
  <2>3. PICK x : req' = [req EXCEPT ![p] = x] /\ (x = g \/ x = NextRoom(y))
    BY <1>1, <1>11, <2>1 DEF WipePreferences
  <2>4. Moved(r, x)
    BY <2>2, <2>3, NextMoves DEF Moved
  <2>5. QED
    BY <1>3, <2>3, <2>4
<1>12. CASE ListRooms(p)
  <2>1. PICK y : y = [r EXCEPT !.listed = RoomList(r.user), !.todo = SetToSeq(r.file.devices)]
    OBVIOUS
  <2>2. DOMAIN y = DOMAIN Blank /\ y.op = r.op /\ y.file = r.file /\ y.user = r.user /\ y.solo = r.solo
    BY <1>2, <2>1 DEF Blank
  <2>3. PICK x : req' = [req EXCEPT ![p] = x] /\ x = NextDevice(y)
    BY <1>1, <1>12, <2>1 DEF ListRooms, RoomList
  <2>4. Moved(r, x)
    BY <2>2, <2>3, NextMoves DEF Moved
  <2>5. QED
    BY <1>3, <2>3, <2>4
<1>13. CASE CountAdmins(p)
  <2>1. PICK n, x : n = Cardinality(AdminIds) /\ x = [r EXCEPT !.at = "deleteUser", !.admins = n]
    OBVIOUS
  <2>2. Moved(r, x)
    BY <1>2, <2>1 DEF Moved, Blank
  <2>3. req' = [req EXCEPT ![p] = Blank] \/ req' = [req EXCEPT ![p] = x]
    BY <1>1, <1>13, <2>1 DEF CountAdmins
  <2>4. QED
    BY <1>3, <2>2, <2>3 DEF Moved
<1>14. QED
  BY <1>5, <1>6, <1>7, <1>8, <1>9, <1>10, <1>11, <1>12, <1>13 DEF Statement

\* Only the request that runs a statement may be one that nothing overlaps.
LEMMA OthersKeepBackups ==
  ASSUME IInv, BackupsOK, NEW p \in Procs, req[p].at # "idle", NEW x, req' = [req EXCEPT ![p] = x],
         Faithful(backup'), BackupOK(x)'
  PROVE  BackupsOK'
<1>1. DOMAIN req = Procs /\ req'[p] = x /\ \A q \in Procs : q # p => req'[q] = req[q]
  BY DEF IInv, RequestsOK
<1>2. ASSUME NEW q \in Procs, q # p
      PROVE  BackupOK(req[q])'
  <2>1. PICK r : r = req[q]
    OBVIOUS
  <2>2. ~r.solo /\ Faithful(r.file) /\ (r.op = "ImportConfig" => r.at \in ImportSteps)
    BY <1>2, <2>1 DEF IInv, SoloIsAlone, BackupsOK, BackupOK
  <2>3. BackupOK(r)'
    BY <2>2 DEF BackupOK, Faithful, Reading, Importing
  <2>4. QED
    BY <1>1, <1>2, <2>1, <2>3
<1>3. BackupOK(req[p])'
  BY <1>1
<1>4. Faithful(backup)'
  BY DEF Faithful
<1>5. QED
  BY <1>2, <1>3, <1>4 DEF BackupsOK

LEMMA BlankBackupIsOK == BackupOK(Blank)'
  BY DEF BackupOK, Faithful, Reading, Importing, Blank, NoFile

\* A statement that is not one of an import's keeps what is known of backups.
LEMMA MovesKeepBackups ==
  ASSUME IInv, BackupsOK, NEW p \in Procs, req[p].at # "idle", NEW x, req' = [req EXCEPT ![p] = x],
         Moved(req[p], x), Faithful(backup'),
         req[p].op = "ImportConfig" /\ x # Blank =>
            /\ x.at \in ImportSteps
            /\ req[p].solo /\ Restorable(req[p].file) => Progress(x)'
  PROVE  BackupsOK'
<1>1. PICK r : r = req[p]
  OBVIOUS
<1>2. Faithful(r.file)
  BY <1>1 DEF BackupsOK, BackupOK
<1>3. BackupOK(x)'
  <2>1. CASE x = Blank
    BY <2>1, BlankBackupIsOK
  <2>2. CASE x # Blank
    <3>1. x.op = r.op /\ x.file = r.file /\ x.user = r.user /\ x.solo = r.solo /\ x.at # "readDevices"
      BY <1>1, <2>2 DEF Moved
    <3>2. Faithful(x.file)'
      BY <1>2, <3>1 DEF Faithful
    <3>3. Reading(x)'
      BY <3>1 DEF Reading
    <3>4. Importing(x)' /\ (x.op = "ImportConfig" => x.at \in ImportSteps)
      BY <1>1, <2>2, <3>1 DEF Importing
    <3>5. QED
      BY <3>2, <3>3, <3>4 DEF BackupOK
  <2>3. QED
    BY <2>1, <2>2
<1>4. QED
  BY <1>3, OthersKeepBackups

-----------------------------------------------------------------------------
(* The export.                                                             *)

LEMMA ReadRoomsKeepsBackups ==
  ASSUME IInv, BackupsOK, NEW p \in Procs, ReadRooms(p)
  PROVE  BackupsOK'
<1>1. PICK r, listed, file, x :
         /\ r = req[p] /\ listed = RoomList(r.user)
         /\ file = [NoFile EXCEPT !.rooms = RoomNames(r.user), !.mode = mode[r.user], !.ignore = ignore[r.user]]
         /\ x = [r EXCEPT !.at = "readDevices", !.listed = listed, !.file = file]
  OBVIOUS
<1>2. /\ r.at = "readRooms" /\ DOMAIN r = DOMAIN Blank /\ UNCHANGED <<tables, roomRows, backup>>
      /\ req' = [req EXCEPT ![p] = x]
  BY <1>1, RequestFacts DEF ReadRooms, At, Carried, RoomList, RoomNames, tables
<1>3. r.op # "ImportConfig"
  BY <1>1, <1>2 DEF BackupsOK, BackupOK, ImportSteps, NoDevicesYet, Saving
<1>4. file.solo = FALSE /\ file.rooms = RoomNames(r.user)
  BY <1>1 DEF NoFile
<1>5. /\ x.at = "readDevices" /\ x.listed = listed /\ x.file = file /\ x.op = r.op /\ x.user = r.user
  BY <1>1, <1>2 DEF Blank
<1>6. Reading(x)'
  <2>1. UNCHANGED rooms
    BY <1>2 DEF roomRows
  <2>2. x.listed = RoomList(x.user) /\ x.file.rooms = RoomNames(x.user)
    BY <1>1, <1>4, <1>5
  <2>3. QED
    BY <2>1, <2>2 DEF Reading, RoomList, RoomNames
<1>7. BackupOK(x)'
  BY <1>3, <1>4, <1>5, <1>6 DEF BackupOK, Faithful, Importing
<1>8. Faithful(backup')
  BY <1>2 DEF BackupsOK
<1>9. QED
  BY <1>1, <1>2, <1>7, <1>8, OthersKeepBackups

LEMMA ReadDevicesKeepsBackups ==
  ASSUME IInv, BackupsOK, NEW p \in Procs, ReadDevices(p)
  PROVE  BackupsOK'
<1>1. PICK r, u, mine : r = req[p] /\ u = r.user /\ mine = OfUser(devices, u)
  OBVIOUS
<1>2. /\ r.at = "readDevices" /\ TablesOK /\ Carried(r) /\ Reading(r) /\ req' = [req EXCEPT ![p] = Blank]
  BY <1>1, RequestFacts DEF ReadDevices, At, Reply, BackupsOK, BackupOK
<1>3. PICK f, file, view, own :
         /\ f = [d \in mine |-> Draft(d, IF devices[d].room \in DOMAIN r.listed
                                         THEN r.listed[devices[d].room] ELSE NoName, devices[d].zone)]
         /\ file = r.file /\ view = View(u)
         /\ own = (r.solo /\ \A d \in mine : InOwnRoom(d))
  OBVIOUS
<1>4. /\ backup'.rooms = file.rooms /\ backup'.devices = {f[d] : d \in mine}
      /\ backup'.view = view /\ backup'.solo = own
  <2>1. backup' = [file EXCEPT !.devices = {f[d] : d \in mine}, !.view = view, !.solo = own]
    BY <1>1, <1>3 DEF ReadDevices
  <2>2. DOMAIN file = DOMAIN NoFile
    BY <1>2, <1>3 DEF Carried, FileOK
  <2>3. QED
    BY <2>1, <2>2 DEF NoFile
<1>5. ASSUME r.solo, \A d \in mine : InOwnRoom(d)
      PROVE  Faithful(backup')
  <2>1. r.listed = RoomList(u) /\ file.rooms = RoomNames(u)
    BY <1>1, <1>2, <1>3, <1>5 DEF Reading
  <2>2. file.rooms \subseteq Names
    BY <1>2, <2>1 DEF RoomNames, OfUser, TablesOK, RoomsOK, RoomRow
  <2>3. ASSUME NEW d \in mine
        PROVE  /\ f[d].id = d /\ d # NoDevice /\ f[d].zone = devices[d].zone
               /\ f[d].room = RoomName(rooms, devices[d].room)
               /\ f[d].room \in file.rooms \union {NoName}
    <3>1. d \in DOMAIN devices /\ devices[d].user = u /\ d \in Ids
      BY <1>1, <1>2 DEF OfUser, TablesOK, DevicesOK
    <3>2. d # NoDevice
      BY <3>1 DEF Ids, NoDevice, Uuid, VacuumId, YamlId
    <3>3. PICK id, n : id = devices[d].room /\ n = IF id \in DOMAIN r.listed THEN r.listed[id] ELSE NoName
      OBVIOUS
    <3>4. f[d] = Draft(d, n, devices[d].zone)
      BY <1>3, <3>3
    <3>5. CASE id = NoRoom
      <4>1. id \notin DOMAIN rooms
        BY <1>2, <3>5 DEF NoRoom, TablesOK, RoomsOK
      <4>2. n = NoName
        BY <2>1, <3>3, <4>1 DEF RoomList, OfUser
      <4>3. QED
        BY <3>2, <3>3, <3>4, <3>5, <4>2 DEF Draft, RoomName
    <3>6. CASE id # NoRoom
      <4>1. id \in OfUser(rooms, u)
        BY <1>5, <3>1, <3>3, <3>6 DEF InOwnRoom, BelongsToUser
      <4>2. n = rooms[id].name
        BY <2>1, <3>3, <4>1 DEF RoomList
      <4>3. n \in file.rooms
        BY <2>1, <4>1, <4>2 DEF RoomNames
      <4>4. QED
        BY <3>2, <3>3, <3>4, <3>6, <4>2, <4>3 DEF Draft, RoomName
    <3>7. QED
      BY <3>5, <3>6
  <2>4. /\ DOMAIN view = mine
        /\ \A d \in mine : view[d] = <<f[d].room, f[d].zone>>
        /\ view = [d \in mine |-> view[d]]
    BY <1>1, <1>3, <2>3 DEF View
  <2>5. PICK drafts : drafts = {f[d] : d \in mine}
    OBVIOUS
  <2>6. {d.id : d \in drafts} = mine
    BY <2>3, <2>5
  <2>7. \A d \in drafts : /\ d.id # NoDevice /\ d.room \in file.rooms \union {NoName}
                          /\ view[d.id] = <<d.room, d.zone>>
    BY <2>3, <2>4, <2>5
  <2>8. view = [x \in {d.id : d \in drafts} |-> view[x]]
    BY <2>4, <2>6
  <2>9. PICK b : b = backup'
    OBVIOUS
  <2>10. b.rooms = file.rooms /\ b.devices = drafts /\ b.view = view
    BY <1>4, <2>5, <2>9
  <2>11. b.view = [x \in {d.id : d \in b.devices} |-> b.view[x]]
    BY <2>8, <2>10
  <2>12. QED
    BY <2>2, <2>7, <2>9, <2>10, <2>11 DEF Faithful
<1>6. Faithful(backup')
  BY <1>3, <1>4, <1>5 DEF Faithful
<1>7. QED
  BY <1>1, <1>2, <1>6, BlankBackupIsOK, OthersKeepBackups
-----------------------------------------------------------------------------
(* The import.                                                             *)

\* The rooms of a backup but "names" are back, and no device is.
RoomsAhead(r) ==
    /\ OfUser(devices, r.user) = {} /\ Unset(r.user)
    /\ RoomNames(r.user) \union Entries(r.names) = r.file.rooms

\* The rooms of a backup are back, and its devices but "todo".
DevicesAhead(r) ==
    /\ Unset(r.user) /\ RoomNames(r.user) = r.file.rooms /\ r.listed = RoomList(r.user)
    /\ Entries(r.todo) \subseteq r.file.devices
    /\ \A d \in OfUser(devices, r.user) : d \in DOMAIN r.file.view /\ Shown(d) = r.file.view[d]
    /\ \A d \in r.file.devices : d.id \in DOMAIN devices \/ d \in Entries(r.todo)

LEMMA NextRoomProgress ==
  ASSUME NEW y, DOMAIN y = DOMAIN Blank, y.names \in Seq(Names), NEW x, x = NextRoom(y)
  PROVE  x.at \in ImportSteps /\ (RoomsAhead(y)' => Progress(x)')
<1>1. CASE y.names = <<>>
  <2>1. x = [y EXCEPT !.at = "listRooms"]
    BY <1>1 DEF NextRoom
  <2>2. x.at = "listRooms" /\ x.user = y.user /\ x.file = y.file
    BY <2>1 DEF Blank
  <2>3. Entries(y.names) = {}
    BY <1>1 DEF Entries
  <2>4. QED
    BY <2>2, <2>3 DEF RoomsAhead, Progress, ImportSteps, NoDevicesYet, RoomsAreBack, Saving
<1>2. CASE y.names # <<>>
  <2>1. PICK h, t : h = Head(y.names) /\ t = Tail(y.names)
    OBVIOUS
  <2>2. x = [y EXCEPT !.at = "ensure", !.name = h, !.names = t]
    BY <1>2, <2>1 DEF NextRoom, Blank
  <2>3. x.at = "ensure" /\ x.user = y.user /\ x.file = y.file /\ x.name = h /\ x.names = t
    BY <2>2 DEF Blank
  <2>4. Entries(y.names) = {h} \union Entries(t)
    BY <1>2, <2>1, EntriesSplit
  <2>5. QED
    BY <2>3, <2>4 DEF RoomsAhead, Progress, ImportSteps, NoDevicesYet, RoomsAreBack, Saving
<1>3. QED
  BY <1>1, <1>2

LEMMA NextDeviceProgress ==
  ASSUME RoomsOK', NEW y, DOMAIN y = DOMAIN Blank, NEW S, y.todo \in Seq(S), Restorable(y.file), Faithful(y.file),
         NEW x, x = NextDevice(y), DevicesAhead(y)'
  PROVE  Progress(x)'
<1>1. CASE y.todo = <<>>
  <2>1. x = [y EXCEPT !.at = "restore"]
    BY <1>1 DEF NextDevice
  <2>2. x.at = "restore" /\ x.user = y.user /\ x.file = y.file
    BY <2>1 DEF Blank
  <2>3. Entries(y.todo) = {}
    BY <1>1 DEF Entries
  <2>4. DevicesAreBack(x)'
    BY <2>2, <2>3 DEF DevicesAhead, DevicesAreBack
  <2>5. QED
    BY <2>2, <2>4 DEF DevicesAhead, Progress, NoDevicesYet, RoomsAreBack, Saving
<1>2. CASE y.todo # <<>>
  <2>1. PICK d, ids, id : /\ d = Head(y.todo) /\ ids = Listed(y, d.room)
                          /\ id = IF ids = {} THEN NoRoom ELSE CHOOSE i \in ids : TRUE
    OBVIOUS
  <2>2. x = [y EXCEPT !.at = "saveDraft", !.room = id]
    BY <1>2, <2>1 DEF NextDevice
  <2>3. /\ x.at = "saveDraft" /\ x.user = y.user /\ x.file = y.file /\ x.room = id
        /\ x.listed = y.listed /\ x.todo = y.todo
    BY <2>2 DEF Blank
  <2>4. d \in Entries(y.todo)
    BY <1>2, <2>1, EntriesSplit
  <2>5. d.room \in RoomNames(y.user)' \union {NoName}
    BY <2>4 DEF DevicesAhead, Faithful, Restorable
  <2>6. RoomExists(rooms', id) /\ RoomName(rooms', id) = d.room
    <3>1. DOMAIN y.listed = OfUser(rooms', y.user) /\ \A i \in DOMAIN y.listed : y.listed[i] = rooms'[i].name
      BY DEF DevicesAhead, RoomList
    <3>2. \A i \in DOMAIN y.listed : i \in DOMAIN rooms' /\ i # NoRoom /\ rooms'[i].name \in Names
      BY <3>1 DEF OfUser, RoomsOK, RoomRow, NoRoom
    <3>3. ids = {i \in DOMAIN y.listed : y.listed[i] = d.room}
      BY <2>1 DEF Listed
    <3>4. CASE d.room = NoName
      <4>1. ids = {}
        BY <3>1, <3>2, <3>3, <3>4, NamesAssumption
      <4>2. QED
        BY <2>1, <3>4, <4>1 DEF RoomExists, RoomName
    <3>5. CASE d.room # NoName
      <4>1. d.room \in RoomNames(y.user)'
        BY <2>5, <3>5
      <4>2. ids # {}
        BY <3>1, <3>3, <4>1 DEF RoomNames
      <4>3. id \in ids
        BY <2>1, <4>2
      <4>4. QED
        BY <3>1, <3>2, <3>3, <4>3 DEF RoomExists, RoomName
    <3>6. QED
      BY <3>4, <3>5
  <2>7. NextIsPlaced(x)'
    BY <2>1, <2>3, <2>6 DEF NextIsPlaced, DevicesAhead
  <2>8. DevicesAreBack(x)'
    BY <2>3 DEF DevicesAhead, DevicesAreBack
  <2>9. QED
    BY <2>3, <2>7, <2>8 DEF DevicesAhead, Progress, NoDevicesYet, RoomsAreBack, Saving
<1>3. QED
  BY <1>1, <1>2

LEMMA NextDeviceIsImports ==
  ASSUME NEW y, DOMAIN y = DOMAIN Blank
  PROVE  NextDevice(y).at \in ImportSteps
<1>1. PICK id : id = IF Listed(y, Head(y.todo).room) = {} THEN NoRoom
                     ELSE CHOOSE i \in Listed(y, Head(y.todo).room) : TRUE
  OBVIOUS
<1>2. NextDevice(y) = [y EXCEPT !.at = "restore"] \/ NextDevice(y) = [y EXCEPT !.at = "saveDraft", !.room = id]
  BY <1>1 DEF NextDevice
<1>3. QED
  BY <1>2 DEF Blank, ImportSteps, Saving

\* A request that imports, and what is known of it.
Imports(p, r) ==
    /\ r = req[p] /\ r.op = "ImportConfig" /\ r.at \in ImportSteps
    /\ TablesOK /\ Carried(r) /\ Prepared(r) /\ r.user \in UserIds
    /\ Faithful(r.file) /\ (r.solo /\ Restorable(r.file) => Progress(r))

LEMMA ImportFacts ==
  ASSUME IInv, BackupsOK, NEW p \in Procs, req[p].op = "ImportConfig"
  PROVE  Imports(p, req[p])
<1>1. req[p].at \in ImportSteps /\ Faithful(req[p].file)
  BY DEF BackupsOK, BackupOK
<1>2. req[p].user \in UserIds
  BY <1>1, RequestFacts DEF Carried, ImportSteps, NoDevicesYet, Saving
<1>3. QED
  BY <1>1, <1>2, RequestFacts DEF Imports, BackupsOK, BackupOK, Importing

\* A statement of an import leads to another, with its part done.
Resumes(p) ==
    \E x : /\ req' = [req EXCEPT ![p] = x]
           /\ \/ x = Blank
              \/ x.at \in ImportSteps /\ (req[p].solo /\ Restorable(req[p].file) => Progress(x)')

LEMMA ImportKeepsBackups ==
  ASSUME IInv, BackupsOK, NEW p \in Procs, req[p].at # "idle", Moves(p), UNCHANGED backup,
         req[p].op = "ImportConfig" => Resumes(p)
  PROVE  BackupsOK'
<1>1. PICK x : req' = [req EXCEPT ![p] = x] /\ Moved(req[p], x)
  BY DEF Moves
<1>2. ASSUME req[p].op = "ImportConfig", x # Blank
      PROVE  x.at \in ImportSteps /\ (req[p].solo /\ Restorable(req[p].file) => Progress(x)')
  <2>1. PICK y : /\ req' = [req EXCEPT ![p] = y]
                 /\ \/ y = Blank
                    \/ y.at \in ImportSteps /\ (req[p].solo /\ Restorable(req[p].file) => Progress(y)')
    BY <1>2 DEF Resumes
  <2>2. x = y
    <3>1. req'[p] = x /\ req'[p] = y
      BY <1>1, <2>1 DEF IInv, RequestsOK
    <3>2. QED
      BY <3>1
  <2>3. QED
    BY <1>2, <2>1, <2>2
<1>3. Faithful(backup')
  BY DEF BackupsOK
<1>4. QED
  BY <1>1, <1>2, <1>3, MovesKeepBackups

LEMMA WipeDevicesResumes ==
  ASSUME IInv, NEW p \in Procs, NEW r, Imports(p, r), WipeDevices(p)
  PROVE  Resumes(p)
<1>1. PICK x : x = [r EXCEPT !.at = "wipeRooms"]
  OBVIOUS
<1>2. x.at = "wipeRooms" /\ x.user = r.user
  BY <1>1 DEF Imports, Carried, Blank
<1>3. req' = [req EXCEPT ![p] = x] /\ devices' = Without(devices, OfUser(devices, r.user))
  BY <1>1 DEF WipeDevices, Goto, Imports
<1>4. OfUser(devices', x.user) = {}
  BY <1>2, <1>3 DEF OfUser, Without
<1>5. Progress(x)' /\ x.at \in ImportSteps
  BY <1>2, <1>4 DEF Progress, ImportSteps, NoDevicesYet, RoomsAreBack, Saving
<1>6. QED
  BY <1>3, <1>5, Zenon DEF Imports, Resumes

LEMMA WipeRoomsResumes ==
  ASSUME IInv, NEW p \in Procs, NEW r, Imports(p, r), WipeRooms(p)
  PROVE  Resumes(p)
<1>1. PICK x, gone : x = [r EXCEPT !.at = "wipePreferences"] /\ gone = OfUser(rooms, r.user)
  OBVIOUS
<1>2. x.at = "wipePreferences" /\ x.user = r.user
  BY <1>1 DEF Imports, Carried, Blank
<1>3. /\ req' = [req EXCEPT ![p] = x] /\ r.at = "wipeRooms"
      /\ rooms' = Without(rooms, gone) /\ devices' = Unassign(devices, gone)
  BY <1>1 DEF WipeRooms, At, Goto, Imports
<1>4. OfUser(rooms', x.user) = {}
  BY <1>1, <1>2, <1>3 DEF OfUser, Without
<1>5. ASSUME r.solo, Restorable(r.file)
      PROVE  OfUser(devices', x.user) = {}
  <2>1. OfUser(devices, r.user) = {}
    BY <1>3, <1>5 DEF Imports, Progress, NoDevicesYet
  <2>2. DOMAIN devices' = DOMAIN devices
    BY <1>3 DEF Unassign
  <2>3. \A d \in DOMAIN devices : devices'[d].user = devices[d].user
    BY <1>3 DEF Unassign, Imports, TablesOK, DevicesOK, Row
  <2>4. QED
    BY <1>2, <2>1, <2>2, <2>3 DEF OfUser
<1>6. x.at \in ImportSteps /\ (r.solo /\ Restorable(r.file) => Progress(x)')
  BY <1>2, <1>4, <1>5 DEF Progress, ImportSteps, NoDevicesYet, RoomsAreBack, Saving
<1>7. QED
  BY <1>3, <1>6, Zenon DEF Imports, Resumes

LEMMA WipePreferencesResumes ==
  ASSUME IInv, NEW p \in Procs, NEW r, Imports(p, r), WipePreferences(p)
  PROVE  Resumes(p)
<1>1. PICK y, x : y = [r EXCEPT !.names = SetToSeq(r.file.rooms)] /\ x = NextRoom(y)
  OBVIOUS
<1>2. /\ DOMAIN y = DOMAIN Blank /\ y.user = r.user /\ y.file = r.file
      /\ y.names = SetToSeq(r.file.rooms)
  BY <1>1 DEF Imports, Carried, Blank
<1>3. /\ r.at = "wipePreferences" /\ UNCHANGED <<rooms, devices>>
      /\ mode' = [mode EXCEPT ![r.user] = "unset"] /\ ignore' = [ignore EXCEPT ![r.user] = {}]
      /\ req' = [req EXCEPT ![p] = x]
  BY <1>1 DEF WipePreferences, At, Imports, roomRows, deviceRows
<1>4. IsFiniteSet(r.file.rooms) /\ r.file.rooms \subseteq Names
  BY DEF Imports, Carried, FileOK
<1>5. y.names \in Seq(Names) /\ Entries(y.names) = r.file.rooms
  <2>1. SetToSeq(r.file.rooms) \in Seq(r.file.rooms) /\ Entries(SetToSeq(r.file.rooms)) = r.file.rooms
    BY <1>4, SetToSeqIsSeq, SetToSeqHasAll
  <2>2. QED
    BY <1>2, <1>4, <2>1
<1>6. Unset(r.user)'
  BY <1>3 DEF Unset, Imports, TablesOK, PreferencesOK
<1>7. ASSUME r.solo, Restorable(r.file)
      PROVE  Progress(x)'
  <2>1. OfUser(devices, r.user) = {} /\ OfUser(rooms, r.user) = {}
    BY <1>3, <1>7 DEF Imports, Progress, NoDevicesYet
  <2>2. OfUser(devices, y.user)' = {} /\ RoomNames(y.user)' = {}
    BY <1>2, <1>3, <2>1 DEF RoomNames, OfUser
  <2>3. Unset(y.user)'
    BY <1>2, <1>6
  <2>4. RoomsAhead(y)'
    BY <1>2, <1>5, <2>2, <2>3 DEF RoomsAhead
  <2>5. QED
    BY <1>1, <1>2, <1>5, <2>4, NextRoomProgress
<1>8. x.at \in ImportSteps
  BY <1>1, <1>2, <1>5, NextRoomProgress
<1>9. QED
  BY <1>3, <1>7, <1>8, Zenon DEF Imports, Resumes

LEMMA FindRoomResumes ==
  ASSUME IInv, NEW p \in Procs, NEW r, Imports(p, r), FindRoom(p)
  PROVE  Resumes(p)
<1>1. PICK found, x, y : /\ found = Named(rooms, r.user, r.name)
                         /\ x = [r EXCEPT !.at = "makeRoom"] /\ y = NextRoom(r)
  OBVIOUS
<1>2. /\ r.at = "ensure" /\ UNCHANGED <<rooms, devices, mode, ignore>>
      /\ req' = [req EXCEPT ![p] = IF found = {} THEN x ELSE y]
  BY <1>1 DEF FindRoom, At, Goto, Ensured, Imports, tables, roomRows, deviceRows, preferences
<1>3. UNCHANGED <<OfUser(devices, r.user), RoomNames(r.user), Unset(r.user)>>
  BY <1>2 DEF RoomNames, OfUser, Unset
<1>4. ASSUME r.solo, Restorable(r.file)
      PROVE  /\ OfUser(devices, r.user) = {} /\ Unset(r.user)
             /\ RoomNames(r.user) \union {r.name} \union Entries(r.names) = r.file.rooms
  BY <1>2, <1>4 DEF Imports, Progress, NoDevicesYet
<1>5. CASE found = {}
  <2>1. x.at = "makeRoom" /\ x.user = r.user /\ x.file = r.file /\ x.name = r.name /\ x.names = r.names
    BY <1>1 DEF Imports, Carried, Blank
  <2>2. ASSUME r.solo, Restorable(r.file)
        PROVE  Progress(x)'
    BY <1>3, <1>4, <2>1, <2>2 DEF Progress, NoDevicesYet, RoomsAreBack, Saving
  <2>3. x.at \in ImportSteps
    BY <2>1 DEF ImportSteps, NoDevicesYet
  <2>4. QED
    BY <1>2, <1>5, <2>2, <2>3, Zenon DEF Imports, Resumes
<1>6. CASE found # {}
  <2>1. r.name \in RoomNames(r.user)
    BY <1>1, <1>6 DEF Named, RoomNames, OfUser
  <2>2. ASSUME r.solo, Restorable(r.file)
        PROVE  RoomsAhead(r)'
    BY <1>3, <1>4, <2>1, <2>2 DEF RoomsAhead
  <2>3. y.at \in ImportSteps /\ (RoomsAhead(r)' => Progress(y)')
    BY <1>1, NextRoomProgress DEF Imports, Carried
  <2>4. QED
    BY <1>2, <1>6, <2>2, <2>3, Zenon DEF Imports, Resumes
<1>7. QED
  BY <1>5, <1>6

LEMMA MakeRoomResumes ==
  ASSUME IInv, NEW p \in Procs, NEW r, Imports(p, r), MakeRoom(p)
  PROVE  Resumes(p)
<1>1. PICK x, made : x = NextRoom(r) /\ made = Creatable(rooms, r.user, r.name)
  OBVIOUS
<1>2. /\ r.at = "makeRoom" /\ UNCHANGED <<devices, mode, ignore>> /\ req' = [req EXCEPT ![p] = x]
      /\ IF made THEN AddRoom(r.user, r.name) ELSE UNCHANGED rooms
  BY <1>1 DEF MakeRoom, At, Ensured, Imports, roomRows, deviceRows, preferences
<1>3. ASSUME r.solo, Restorable(r.file)
      PROVE  /\ OfUser(devices, r.user) = {} /\ Unset(r.user)
             /\ RoomNames(r.user) \union {r.name} \union Entries(r.names) = r.file.rooms
  BY <1>2, <1>3 DEF Imports, Progress, NoDevicesYet
<1>4. ASSUME r.solo, Restorable(r.file)
      PROVE  RoomNames(r.user)' = RoomNames(r.user) \union {r.name}
  <2>1. CASE made
    <3>1. PICK id : id = nextRoom
      OBVIOUS
    <3>2. id \notin DOMAIN rooms
      BY <3>1 DEF Imports, TablesOK, RoomsOK
    <3>3. /\ DOMAIN rooms' = DOMAIN rooms \union {id}
          /\ rooms'[id].user = r.user /\ rooms'[id].name = r.name
          /\ \A q \in DOMAIN rooms : rooms'[q] = rooms[q]
      BY <1>2, <2>1, <3>1, <3>2 DEF AddRoom, Put
    <3>4. OfUser(rooms', r.user) = OfUser(rooms, r.user) \union {id}
      BY <3>3 DEF OfUser
    <3>5. \A q \in OfUser(rooms, r.user) : rooms'[q].name = rooms[q].name
      BY <3>3 DEF OfUser
    <3>6. QED
      BY <3>3, <3>4, <3>5 DEF RoomNames
  <2>2. CASE ~made
    <3>1. r.name \in Names \ LongNames
      BY <1>3, <1>4 DEF Imports, Faithful, Restorable
    <3>2. Named(rooms, r.user, r.name) # {}
      BY <1>1, <2>2, <3>1 DEF Creatable, Taken
    <3>3. r.name \in RoomNames(r.user)
      BY <3>2 DEF Named, RoomNames, OfUser
    <3>4. QED
      BY <1>2, <2>2, <3>3 DEF RoomNames, OfUser
  <2>3. QED
    BY <2>1, <2>2
<1>5. ASSUME r.solo, Restorable(r.file)
      PROVE  RoomsAhead(r)'
  <2>1. OfUser(devices, r.user)' = {} /\ Unset(r.user)'
    BY <1>2, <1>3, <1>5 DEF OfUser, Unset
  <2>2. QED
    BY <1>3, <1>4, <1>5, <2>1 DEF RoomsAhead
<1>6. x.at \in ImportSteps /\ (RoomsAhead(r)' => Progress(x)')
  BY <1>1, NextRoomProgress DEF Imports, Carried
<1>7. QED
  BY <1>2, <1>5, <1>6, Zenon DEF Imports, Resumes

LEMMA ListRoomsResumes ==
  ASSUME IInv, NEW p \in Procs, NEW r, Imports(p, r), ListRooms(p)
  PROVE  Resumes(p)
<1>1. PICK y, x : /\ y = [r EXCEPT !.listed = RoomList(r.user), !.todo = SetToSeq(r.file.devices)]
                  /\ x = NextDevice(y)
  OBVIOUS
<1>2. /\ DOMAIN y = DOMAIN Blank /\ y.user = r.user /\ y.file = r.file
      /\ y.listed = RoomList(r.user) /\ y.todo = SetToSeq(r.file.devices)
  BY <1>1 DEF Imports, Carried, Blank
<1>3. r.at = "listRooms" /\ UNCHANGED tables /\ req' = [req EXCEPT ![p] = x]
  BY <1>1 DEF ListRooms, At, Imports, RoomList
<1>4. UNCHANGED <<rooms, nextRoom, devices, mode, ignore>>
  BY <1>3 DEF tables, roomRows, deviceRows, preferences
<1>5. IsFiniteSet(r.file.devices)
  BY DEF Imports, Carried, FileOK
<1>6. y.todo \in Seq(r.file.devices) /\ Entries(y.todo) = r.file.devices
  BY <1>2, <1>5, SetToSeqIsSeq, SetToSeqHasAll
<1>7. ASSUME r.solo, Restorable(r.file)
      PROVE  Progress(x)'
  <2>1. OfUser(devices, r.user) = {} /\ Unset(r.user) /\ RoomNames(r.user) = r.file.rooms
    BY <1>3, <1>7 DEF Imports, Progress, NoDevicesYet, RoomsAreBack
  <2>2. /\ OfUser(devices, y.user)' = {} /\ Unset(y.user)' /\ RoomNames(y.user)' = y.file.rooms
        /\ y.listed = RoomList(y.user)'
    BY <1>2, <1>4, <2>1 DEF OfUser, Unset, RoomNames, RoomList
  <2>3. DevicesAhead(y)'
    BY <1>2, <1>6, <2>2 DEF DevicesAhead
  <2>4. RoomsOK'
    BY <1>4 DEF Imports, TablesOK, RoomsOK
  <2>5. QED
    BY <1>1, <1>2, <1>6, <1>7, <2>3, <2>4, NextDeviceProgress DEF Imports
<1>8. x.at \in ImportSteps
  BY <1>1, <1>2, NextDeviceIsImports
<1>9. QED
  BY <1>3, <1>7, <1>8, Zenon DEF Imports, Resumes

LEMMA RestorePreferencesResumes ==
  ASSUME IInv, NEW p \in Procs, NEW r, Imports(p, r), RestorePreferences(p)
  PROVE  Resumes(p)
<1>1. PICK x : x = [r EXCEPT !.at = "reload"]
  OBVIOUS
<1>2. x.at = "reload" /\ x.user = r.user /\ x.file = r.file
  BY <1>1 DEF Imports, Carried, Blank
<1>3. /\ r.at = "restore" /\ UNCHANGED <<rooms, devices>> /\ req' = [req EXCEPT ![p] = x]
      /\ mode' = (IF r.file.mode = "unset" THEN mode ELSE [mode EXCEPT ![r.user] = r.file.mode])
      /\ ignore' = [ignore EXCEPT ![r.user] = @ \union r.file.ignore]
  BY <1>1 DEF RestorePreferences, At, Goto, Imports, roomRows, deviceRows
<1>4. ASSUME r.solo, Restorable(r.file)
      PROVE  Progress(x)'
  <2>1. Unset(r.user) /\ RoomNames(r.user) = r.file.rooms /\ DevicesAreBack(r)
    BY <1>3, <1>4 DEF Imports, Progress, RoomsAreBack, Saving
  <2>2. mode'[r.user] = r.file.mode /\ ignore'[r.user] = r.file.ignore
    BY <1>3, <2>1 DEF Unset, Imports, TablesOK, PreferencesOK
  <2>3. RoomNames(x.user)' = x.file.rooms
    BY <1>2, <1>3, <2>1 DEF RoomNames, OfUser
  <2>4. DevicesAreBack(x)'
    BY <1>2, <1>3, <2>1 DEF DevicesAreBack, OfUser, Shown, RoomName
  <2>5. QED
    BY <1>2, <2>2, <2>3, <2>4 DEF Progress, NoDevicesYet, RoomsAreBack, Saving
<1>5. x.at \in ImportSteps
  BY <1>2 DEF ImportSteps, Saving
<1>6. QED
  BY <1>3, <1>4, <1>5, Zenon DEF Imports, Resumes

\* A device of a backup that is saved shows what its view says.
LEMMA SavedIsAhead ==
  ASSUME NEW r, TablesOK, Carried(r), Restorable(r.file), Faithful(r.file), UNCHANGED <<rooms, mode, ignore>>,
         Unset(r.user), RoomNames(r.user) = r.file.rooms, DevicesAreBack(r), NextIsPlaced(r),
         NEW d, d = Head(r.todo), r.todo # <<>>,
         IF d.id \notin DOMAIN devices THEN devices' = Put(devices, d.id, Device(r.user, r.room, d.zone))
                                       ELSE UNCHANGED devices,
         NEW left, left.user = r.user, left.file = r.file, left.listed = r.listed, left.todo = Tail(r.todo)
  PROVE  DevicesAhead(left)'
<1>1. Entries(r.todo) = {d} \union Entries(left.todo)
  <2>1. r.todo \in Seq(Drafted)
    BY DEF Carried
  <2>2. QED
    BY <2>1, EntriesSplit
<1>2. /\ d \in r.file.devices /\ RoomName(rooms, r.room) = d.room
      /\ Entries(left.todo) \subseteq r.file.devices /\ r.listed = RoomList(r.user)
  BY <1>1 DEF NextIsPlaced
<1>3. d.id \in DOMAIN r.file.view /\ r.file.view[d.id] = <<d.room, d.zone>>
  BY <1>2 DEF Faithful, Restorable
<1>4. /\ DOMAIN devices' = DOMAIN devices \union {d.id}
      /\ \A e \in DOMAIN devices : devices'[e] = devices[e]
      /\ d.id \notin DOMAIN devices => devices'[d.id] = Device(r.user, r.room, d.zone)
  BY DEF Put
<1>5. ASSUME NEW e \in OfUser(devices', r.user)
      PROVE  e \in DOMAIN r.file.view /\ Shown(e)' = r.file.view[e]
  <2>1. CASE e \in DOMAIN devices
    <3>1. e \in OfUser(devices, r.user) /\ Shown(e)' = Shown(e)
      BY <1>4, <1>5, <2>1 DEF OfUser, Shown, RoomName
    <3>2. QED
      BY <3>1 DEF DevicesAreBack
  <2>2. CASE e \notin DOMAIN devices
    <3>1. e = d.id /\ devices'[e].room = r.room /\ devices'[e].zone = d.zone
      BY <1>4, <1>5, <2>2 DEF OfUser, Device
    <3>2. Shown(e)' = <<d.room, d.zone>>
      BY <1>2, <3>1 DEF Shown, RoomName
    <3>3. QED
      BY <1>3, <3>1, <3>2
  <2>3. QED
    BY <2>1, <2>2
<1>6. \A e \in r.file.devices : e.id \in DOMAIN devices' \/ e \in Entries(left.todo)
  BY <1>1, <1>4 DEF DevicesAreBack
<1>7. Unset(r.user)' /\ RoomNames(r.user)' = r.file.rooms /\ RoomList(r.user)' = r.listed
  BY <1>2 DEF Unset, RoomNames, RoomList, OfUser
<1>8. QED
  BY <1>2, <1>5, <1>6, <1>7 DEF DevicesAhead

LEMMA SaveDraftResumes ==
  ASSUME IInv, NEW p \in Procs, NEW r, Imports(p, r), SaveDraft(p)
  PROVE  Resumes(p)
<1>1. PICK d, id, saved, left, x :
         /\ d = Head(r.todo) /\ id = (IF d.id = NoDevice THEN Uuid(inserts + 1) ELSE d.id)
         /\ saved = CanSave(rooms, devices, id, r.room)
         /\ left = [r EXCEPT !.todo = Tail(r.todo)] /\ x = NextDevice(left)
  OBVIOUS
<1>2. /\ DOMAIN left = DOMAIN Blank /\ left.user = r.user /\ left.file = r.file
      /\ left.listed = r.listed /\ left.todo = Tail(r.todo)
  BY <1>1 DEF Imports, Carried, Blank
<1>3. /\ r.at = "saveDraft" /\ UNCHANGED <<rooms, nextRoom, mode, ignore>>
      /\ IF saved THEN devices' = Put(devices, id, Device(r.user, r.room, d.zone)) ELSE UNCHANGED devices
  BY <1>1 DEF SaveDraft, At, Imports, roomRows, deviceRows, preferences
<1>4. req' = [req EXCEPT ![p] = x]
  <2>1. [r EXCEPT !.todo = Tail(@)] = left
    BY <1>1
  <2>2. QED
    BY <1>1, <2>1 DEF SaveDraft, Imports
<1>5. r.todo # <<>> /\ r.todo \in Seq(Drafted)
  BY <1>3 DEF Imports, Prepared, Carried
<1>6. ASSUME r.solo, Restorable(r.file)
      PROVE  Progress(x)'
  <2>1. /\ Unset(r.user) /\ RoomNames(r.user) = r.file.rooms /\ DevicesAreBack(r) /\ NextIsPlaced(r)
        /\ Faithful(r.file) /\ TablesOK /\ Carried(r)
    BY <1>3, <1>6 DEF Imports, Progress, RoomsAreBack, Saving
  <2>2. d \in r.file.devices
    BY <1>1, <1>5, <2>1, EntriesSplit DEF NextIsPlaced
  <2>3. id = d.id
    BY <1>1, <1>6, <2>1, <2>2 DEF Faithful, Restorable
  <2>4. saved <=> d.id \notin DOMAIN devices
    BY <1>1, <2>1, <2>3 DEF CanSave, NextIsPlaced
  <2>5. IF d.id \notin DOMAIN devices THEN devices' = Put(devices, d.id, Device(r.user, r.room, d.zone))
                                      ELSE UNCHANGED devices
    BY <1>3, <2>3, <2>4
  <2>6. DevicesAhead(left)'
    BY <1>1, <1>2, <1>3, <1>5, <1>6, <2>1, <2>5, SavedIsAhead
  <2>7. left.todo \in Seq(Drafted)
    BY <1>2, <1>5
  <2>8. RoomsOK'
    BY <1>3, <2>1 DEF TablesOK, RoomsOK
  <2>9. Restorable(left.file) /\ Faithful(left.file)
    BY <1>2, <1>6, <2>1
  <2>10. QED
    BY <1>1, <1>2, <2>6, <2>7, <2>8, <2>9, NextDeviceProgress
<1>7. x.at \in ImportSteps
  BY <1>1, <1>2, NextDeviceIsImports
<1>8. QED
  BY <1>4, <1>6, <1>7, Zenon DEF Imports, Resumes

LEMMA ReloadResumes ==
  ASSUME IInv, NEW p \in Procs, NEW r, Imports(p, r), Reload(p) \/ Publish(p)
  PROVE  Resumes(p)
<1>1. CASE Publish(p)
  BY <1>1 DEF Publish, Reply, Resumes
<1>2. CASE Reload(p)
  <2>1. PICK x : x = [r EXCEPT !.at = "publish"]
    OBVIOUS
  <2>2. x.at = "publish"
    BY <2>1 DEF Imports, Carried, Blank
  <2>3. req' = [req EXCEPT ![p] = x]
    BY <1>2, <2>1 DEF Reload, Goto, Imports
  <2>4. Progress(x)' /\ x.at \in ImportSteps
    BY <2>2 DEF Progress, ImportSteps, NoDevicesYet, RoomsAreBack, Saving
  <2>5. QED
    BY <2>3, <2>4, Zenon DEF Resumes
<1>3. QED
  BY <1>1, <1>2

LEMMA ImportResumes ==
  ASSUME IInv, NEW p \in Procs, NEW r, Imports(p, r), Statement(p)
  PROVE  Resumes(p)
<1>1. req[p].at \in ImportSteps
  BY DEF Imports
<1>2. CASE \/ CreateRoom(p) \/ RenameRoom(p) \/ DeleteRoom(p) \/ CheckRoom(p) \/ MoveDevice(p)
           \/ CreateDevice(p) \/ UpdateDevice(p) \/ FindDevice(p) \/ DeleteGroup(p) \/ DeleteDevice(p)
           \/ DropGroup(p) \/ ReadRooms(p) \/ ReadDevices(p)
  BY <1>1, <1>2 DEF CreateRoom, RenameRoom, DeleteRoom, CheckRoom, MoveDevice, CreateDevice, UpdateDevice,
                    FindDevice, DeleteGroup, DeleteDevice, DropGroup, ReadRooms, ReadDevices, At,
                    ImportSteps, NoDevicesYet, Saving
<1>3. CASE \/ SetMode(p) \/ SetIgnored(p) \/ CreateUser(p) \/ LookupUser(p) \/ CountAdmins(p) \/ DeleteUser(p)
  BY <1>1, <1>3 DEF SetMode, SetIgnored, CreateUser, LookupUser, CountAdmins, DeleteUser, At,
                    ImportSteps, NoDevicesYet, Saving
<1>4. QED
  BY <1>2, <1>3, FindRoomResumes, MakeRoomResumes, SaveDraftResumes, WipeDevicesResumes, WipeRoomsResumes,
     WipePreferencesResumes, ListRoomsResumes, RestorePreferencesResumes, ReloadResumes DEF Statement

LEMMA StatementKeepsBackups ==
  ASSUME IInv, BackupsOK, NEW p \in Procs, Statement(p)
  PROVE  BackupsOK'
<1>1. CASE ReadRooms(p) \/ ReadDevices(p)
  BY <1>1, ReadRoomsKeepsBackups, ReadDevicesKeepsBackups
<1>2. CASE ~ReadRooms(p) /\ ~ReadDevices(p)
  <2>1. UNCHANGED backup /\ req[p].at # "idle"
    <3>1. CASE \/ CreateRoom(p) \/ RenameRoom(p) \/ DeleteRoom(p) \/ CheckRoom(p) \/ MoveDevice(p)
               \/ CreateDevice(p) \/ UpdateDevice(p) \/ FindDevice(p) \/ DeleteGroup(p) \/ DeleteDevice(p)
               \/ FindRoom(p) \/ MakeRoom(p) \/ DropGroup(p) \/ SaveDraft(p)
      BY <3>1 DEF CreateRoom, RenameRoom, DeleteRoom, CheckRoom, MoveDevice, CreateDevice, UpdateDevice,
                  FindDevice, DeleteGroup, DeleteDevice, FindRoom, MakeRoom, DropGroup, SaveDraft, At
    <3>2. CASE \/ WipeDevices(p) \/ WipeRooms(p) \/ WipePreferences(p) \/ ListRooms(p)
               \/ RestorePreferences(p) \/ SetMode(p) \/ SetIgnored(p) \/ CreateUser(p) \/ LookupUser(p)
               \/ CountAdmins(p) \/ DeleteUser(p) \/ Reload(p) \/ Publish(p)
      BY <3>2 DEF WipeDevices, WipeRooms, WipePreferences, ListRooms, RestorePreferences, SetMode,
                  SetIgnored, CreateUser, LookupUser, CountAdmins, DeleteUser, Reload, Publish, At
    <3>3. QED
      BY <1>2, <3>1, <3>2 DEF Statement
  <2>2. Moves(p)
    BY <1>2, StatementMoves
  <2>3. req[p].op = "ImportConfig" => Resumes(p)
    BY ImportFacts, ImportResumes
  <2>4. QED
    BY <2>1, <2>2, <2>3, ImportKeepsBackups
<1>3. QED
  BY <1>1, <1>2
-----------------------------------------------------------------------------
(* The requests that arrive.                                               *)

\* An import brings the file exported last; a new name is a short one.
Sent(f) ==
    /\ f.file \in {NoFile, backup}
    /\ f.op = "ImportConfig" => f.at = "wipeDevices"
    /\ f.at # "readDevices"
    /\ f.at = "rename" => f.name \notin LongNames

LEMMA RoomFormsAreSent ==
  ASSUME NEW u, NEW f \in RoomForms(u)
  PROVE  Sent(f)
<1>1. ASSUME NEW op, NEW at, NEW r, NEW n, f = RoomForm(op, u, at, r, n), op # "ImportConfig",
             at # "readDevices", at = "rename" => n \notin LongNames
      PROVE  Sent(f)
  <2>1. f.op = op /\ f.at = at /\ f.name = n /\ f.file = NoFile
    BY <1>1 DEF RoomForm, Form, Blank
  <2>2. QED
    BY <1>1, <2>1 DEF Sent
<1>2. \/ \E n \in Names : f = RoomForm("CreateRoom", u, "createRoom", NoRoom, n)
      \/ \E r \in DOMAIN rooms, n \in Names \ LongNames : f = RoomForm("RenameRoom", u, "rename", r, n)
      \/ \E r \in DOMAIN rooms : f = RoomForm("DeleteRoom", u, "deleteRoom", r, NoName)
  BY DEF RoomForms
<1>3. QED
  BY <1>1, <1>2

LEMMA DeviceFormsAreSent ==
  ASSUME NEW u, NEW f \in DeviceForms(u)
  PROVE  Sent(f)
<1>1. CASE \E op \in {"MoveDevice", "UpdateDevice", "CreateDevice"} : \E d, r : f = Placed(op, u, d, r)
  <2>1. f.op # "ImportConfig" /\ f.at \in {"save", "check"} /\ f.file = NoFile
    BY <1>1 DEF Placed, Form, Blank
  <2>2. QED
    BY <2>1 DEF Sent
<1>2. CASE \E d \in DOMAIN devices : f = [Form("DeleteDevice", u, "find") EXCEPT !.dev = d]
  <2>1. f.op = "DeleteDevice" /\ f.at = "find" /\ f.file = NoFile
    BY <1>2 DEF Form, Blank
  <2>2. QED
    BY <2>1 DEF Sent
<1>3. CASE \E n \in Locations \ {NoName} : f = [Form("NewDevice", u, "ensure") EXCEPT !.name = n]
  <2>1. f.op = "NewDevice" /\ f.at = "ensure" /\ f.file = NoFile
    BY <1>3 DEF Form, Blank
  <2>2. QED
    BY <2>1 DEF Sent
<1>4. \/ \E op \in {"MoveDevice", "UpdateDevice", "CreateDevice"} : \E d, r : f = Placed(op, u, d, r)
      \/ \E d \in DOMAIN devices : f = [Form("DeleteDevice", u, "find") EXCEPT !.dev = d]
      \/ \E n \in Locations \ {NoName} : f = [Form("NewDevice", u, "ensure") EXCEPT !.name = n]
  BY DEF DeviceForms
<1>5. QED
  BY <1>1, <1>2, <1>3, <1>4

LEMMA DraftFormsAreSent ==
  ASSUME NEW u, NEW f \in DraftForms(u)
  PROVE  Sent(f)
<1>1. ASSUME NEW n \in Locations, f = Discovering(u, n)
      PROVE  Sent(f)
  <2>1. PICK todo, s, g : /\ todo = <<Draft(NoDevice, n, NoZone)>>
                          /\ s = (IF n = NoName THEN "saveDraft" ELSE "ensure")
                          /\ g = [Form("AddDiscovered", u, "next") EXCEPT !.todo = todo]
    OBVIOUS
  <2>2. todo # <<>> /\ Head(todo).room = n
    BY <2>1 DEF Draft
  <2>3. DOMAIN g = DOMAIN Blank /\ g.op = "AddDiscovered" /\ g.todo = todo /\ g.file = NoFile
    BY <2>1 DEF Form, Blank
  <2>4. f = [g EXCEPT !.name = n, !.room = NoRoom, !.at = s]
    BY <1>1, <2>1, <2>2, <2>3 DEF Discovering, NextDraft
  <2>5. f.op = "AddDiscovered" /\ f.at = s /\ f.file = NoFile
    BY <2>3, <2>4 DEF Blank
  <2>6. QED
    BY <2>1, <2>5 DEF Sent
<1>2. ASSUME NEW g, NEW v, f = Setup(u, g, v)
      PROVE  Sent(f)
  <2>1. f.op = "CreateVacuum" /\ f.at = "dropGroup" /\ f.file = NoFile
    BY <1>2 DEF Setup, Form, Blank
  <2>2. QED
    BY <2>1 DEF Sent
<1>3. (\E n \in Locations : f = Discovering(u, n)) \/ (\E g, v : f = Setup(u, g, v))
  BY DEF DraftForms
<1>4. QED
  BY <1>1, <1>2, <1>3

LEMMA OtherFormsAreSent ==
  ASSUME NEW u, NEW f \in PreferenceForms(u) \union BackupForms(u) \union UserForms(u)
  PROVE  Sent(f)
<1>1. CASE f \in PreferenceForms(u)
  <2>1. \/ \E v \in Modes \ {"unset"} : f = [Form("SetMode", u, "setMode") EXCEPT !.value = v]
        \/ \E op \in {"Ignore", "Unignore"}, i \in Items : f = Ignoring(op, u, i)
        \/ f = Form("ClearIgnore", u, "ClearIgnore")
    BY <1>1 DEF PreferenceForms
  <2>2. CASE \E v \in Modes \ {"unset"} : f = [Form("SetMode", u, "setMode") EXCEPT !.value = v]
    BY <2>2 DEF Form, Blank, Sent
  <2>3. CASE \E op \in {"Ignore", "Unignore"}, i \in Items : f = Ignoring(op, u, i)
    BY <2>3 DEF Ignoring, Form, Blank, Sent
  <2>4. CASE f = Form("ClearIgnore", u, "ClearIgnore")
    BY <2>4 DEF Form, Blank, Sent
  <2>5. QED
    BY <2>1, <2>2, <2>3, <2>4
<1>2. CASE f \in BackupForms(u)
  <2>1. \/ f = Form("ExportConfig", u, "readRooms") \/ f = Form("ResetConfig", u, "wipeDevices")
        \/ f = [Form("ImportConfig", u, "wipeDevices") EXCEPT !.file = backup]
    BY <1>2, Zenon DEF BackupForms
  <2>2. f.at \in {"readRooms", "wipeDevices"} /\ f.file \in {NoFile, backup}
        /\ (f.op = "ImportConfig" => f.at = "wipeDevices")
    BY <2>1 DEF Form, Blank
  <2>3. QED
    BY <2>2 DEF Sent
<1>3. CASE f \in UserForms(u)
  <2>1. \/ \E v \in BOOLEAN : f = [Form("CreateUser", u, "createUser") EXCEPT !.valid = v]
        \/ \E t \in DOMAIN users \ {u} : f = [Form("DeleteUser", u, "lookup") EXCEPT !.target = t]
    BY <1>3, Zenon DEF UserForms
  <2>2. /\ f.op \in {"CreateUser", "DeleteUser"} /\ f.at \in {"createUser", "lookup"} /\ f.file = NoFile
    BY <2>1 DEF Form, Blank
  <2>3. QED
    BY <2>2 DEF Sent
<1>4. QED
  BY <1>1, <1>2, <1>3

LEMMA BeginKeepsBackups ==
  ASSUME IInv, BackupsOK, NEW p \in Procs, Begin(p)
  PROVE  BackupsOK'
<1>1. PICK u, f :
         /\ u \in DOMAIN users /\ f \in Forms(u)
         /\ req' = [q \in Procs |-> IF q = p THEN [f EXCEPT !.solo = (Busy = {})]
                                    ELSE [req[q] EXCEPT !.solo = FALSE]]
  BY DEF Begin
<1>2. TablesOK /\ UNCHANGED <<rooms, backup>>
  BY DEF IInv, Begin, tables, roomRows
<1>3. Sent(f) /\ DOMAIN f = DOMAIN Blank
  <2>1. Sent(f)
    BY <1>1, RoomFormsAreSent, DeviceFormsAreSent, DraftFormsAreSent, OtherFormsAreSent, Zenon DEF Forms
  <2>2. Arrives(f, u)
    BY <1>1, <1>2, FormsArrive DEF TablesOK, AccountsOK
  <2>3. QED
    BY <2>1, <2>2 DEF Arrives, Carried
<1>4. PICK b, x : b = (Busy = {}) /\ x = [f EXCEPT !.solo = b] /\ req'[p] = x
  BY <1>1
<1>5. x.at = f.at /\ x.op = f.op /\ x.file = f.file /\ x.name = f.name
  BY <1>3, <1>4 DEF Blank
<1>6. BackupOK(x)'
  <2>1. Faithful(x.file)
    BY <1>3, <1>5 DEF Sent, Faithful, NoFile, BackupsOK
  <2>2. x.op = "ImportConfig" => x.at = "wipeDevices"
    BY <1>3, <1>5 DEF Sent
  <2>3. Importing(x)'
    BY <2>2 DEF Importing, Progress, NoDevicesYet, RoomsAreBack, Saving
  <2>4. Reading(x)'
    BY <1>3, <1>5 DEF Reading, Sent
  <2>5. QED
    BY <2>1, <2>2, <2>3, <2>4 DEF BackupOK, Faithful, ImportSteps
<1>7. ASSUME NEW q \in Procs, q # p
      PROVE  BackupOK(req[q])' /\ req'[q].at = req[q].at /\ req'[q].name = req[q].name
  <2>1. PICK r, y : r = req[q] /\ y = [r EXCEPT !.solo = FALSE]
    OBVIOUS
  <2>2. req'[q] = y
    BY <1>1, <1>7, <2>1
  <2>3. BackupOK(r) /\ DOMAIN r = DOMAIN Blank
    BY <2>1, RequestFacts DEF BackupsOK, Carried
  <2>4. y.at = r.at /\ y.op = r.op /\ y.file = r.file /\ y.name = r.name /\ y.solo = FALSE
    BY <2>1, <2>3 DEF Blank
  <2>5. BackupOK(y)'
    BY <2>3, <2>4 DEF BackupOK, Faithful, Reading, Importing
  <2>6. QED
    BY <2>1, <2>2, <2>4, <2>5
<1>8. BackupsOK'
  <2>1. Faithful(backup)'
    BY <1>2 DEF BackupsOK, Faithful
  <2>2. BackupOK(req[p])'
    BY <1>4, <1>6
  <2>3. QED
    BY <1>7, <2>1, <2>2 DEF BackupsOK
<1>9. QED
  BY <1>8

LEMMA StartKeepsBackups ==
  ASSUME IInv, BackupsOK, Start
  PROVE  BackupsOK'
<1>1. ~up /\ UNCHANGED <<backup, req>>
  BY DEF Start, client
<1>2. \A p \in Procs : req'[p] = Blank
  BY <1>1 DEF IInv, TablesOK, ProcessOK
<1>3. QED
  BY <1>1, <1>2, BlankBackupIsOK DEF BackupsOK, Faithful

\* A reply to one request, or to all, where nothing else happens.
LEMMA BlanksKeepBackups ==
  ASSUME BackupsOK, UNCHANGED <<roomRows, deviceRows, preferences, backup>>,
         \A p \in Procs : req'[p] \in {req[p], Blank}
  PROVE  BackupsOK'
<1>1. UNCHANGED <<rooms, nextRoom, devices, mode, ignore>>
  BY DEF roomRows, deviceRows, preferences
<1>2. ASSUME NEW p \in Procs
      PROVE  BackupOK(req[p])'
  <2>1. CASE req'[p] = Blank
    BY <2>1, BlankBackupIsOK DEF Blank
  <2>2. CASE req'[p] = req[p]
    <3>1. PICK r : r = req[p]
      OBVIOUS
    <3>2. BackupOK(r)
      BY <3>1 DEF BackupsOK
    <3>3. BackupOK(r)'
      <4>1. Faithful(r.file)' /\ (r.op = "ImportConfig" => r.at \in ImportSteps)
        BY <3>2 DEF BackupOK, Faithful
      <4>2. Reading(r)'
        BY <1>1, <3>2 DEF BackupOK, Reading, RoomList, RoomNames, OfUser
      <4>3. Progress(r) => Progress(r)'
        BY <1>1 DEF Progress, OfUser, RoomNames, Unset, DevicesAreBack, Shown, RoomName, NextIsPlaced,
                    RoomList, RoomExists
      <4>4. QED
        BY <3>2, <4>1, <4>2, <4>3 DEF BackupOK, Importing
    <3>4. QED
      BY <2>2, <3>1, <3>3
  <2>3. QED
    BY <2>1, <2>2
<1>3. QED
  BY <1>1, <1>2 DEF BackupsOK, Faithful

LEMMA BackupsAreShown ==
  ASSUME BackupsOK
  PROVE  SoloImportRestores
<1>1. SUFFICES ASSUME NEW p \in Procs, NEW r, r = req[p], r.op = "ImportConfig", r.at = "reload",
                      r.solo, Restorable(r.file),
                      {d.id : d \in r.file.devices} \intersect DOMAIN devices \subseteq OfUser(devices, r.user)
               PROVE  /\ View(r.user) = r.file.view /\ RoomNames(r.user) = r.file.rooms
                      /\ mode[r.user] = r.file.mode /\ ignore[r.user] = r.file.ignore
  BY DEF SoloImportRestores, RoomNames, Restorable
<1>2. Progress(r) /\ Faithful(r.file)
  BY <1>1 DEF BackupsOK, BackupOK, Importing
<1>3. DevicesAreBack(r)
  BY <1>1, <1>2 DEF Progress, Saving
<1>4. PICK ids, view, mine : /\ ids = {d.id : d \in r.file.devices} /\ view = r.file.view
                             /\ mine = OfUser(devices, r.user)
  OBVIOUS
<1>5. view = [x \in ids |-> view[x]]
  BY <1>1, <1>2, <1>4 DEF Faithful, Restorable
<1>6. mine = ids
  <2>1. mine \subseteq ids
    BY <1>3, <1>4, <1>5 DEF DevicesAreBack
  <2>2. ids \subseteq DOMAIN devices
    BY <1>1, <1>3, <1>4 DEF DevicesAreBack
  <2>3. QED
    BY <1>1, <1>4, <2>1, <2>2
<1>7. \A x \in mine : Shown(x) = view[x]
  BY <1>3, <1>4 DEF DevicesAreBack
<1>8. View(r.user) = view
  BY <1>4, <1>5, <1>6, <1>7 DEF View, Shown
<1>9. QED
  BY <1>1, <1>2, <1>4, <1>8 DEF Progress, RoomsAreBack

\* A backup exported and imported without overlap brings back the devices,
\* each in its room, the rooms and the preferences, whatever happened in
\* between.  Importing creates the rooms as CreateRoom would: a name too long
\* for it, which only seeding can have given, is in the file and cannot be
\* created again.
THEOREM BackupsRestore == Spec => []SoloImportRestores
<1>1. Init => BackupsOK
  <2>1. SUFFICES ASSUME Init PROVE BackupsOK
    OBVIOUS
  <2>2. backup = NoFile /\ \A p \in Procs : req[p] = Blank
    BY <2>1 DEF Init
  <2>3. BackupOK(Blank) /\ Faithful(NoFile)
    BY DEF BackupOK, Faithful, Reading, Importing, Blank, NoFile
  <2>4. QED
    BY <2>2, <2>3 DEF BackupsOK, Blank
<1>2. ASSUME IInv, BackupsOK, [Next]_vars
      PROVE  BackupsOK'
  <2>1. CASE Start
    BY <1>2, <2>1, StartKeepsBackups
  <2>2. CASE Crash
    <3>1. UNCHANGED <<roomRows, deviceRows, preferences, backup>> /\ \A p \in Procs : req'[p] = Blank
      BY <2>2 DEF Crash, tables, client
    <3>2. QED
      BY <1>2, <3>1, BlanksKeepBackups
  <2>3. CASE Rest \/ UNCHANGED vars
    <3>1. UNCHANGED <<roomRows, deviceRows, preferences, backup, req>>
      BY <2>3 DEF Rest, vars, tables, client
    <3>2. QED
      BY <1>2, <3>1, BlanksKeepBackups
  <2>4. ASSUME NEW p \in Procs, HangUp(p)
        PROVE  BackupsOK'
    <3>1. UNCHANGED <<roomRows, deviceRows, preferences, backup>> /\ \A q \in Procs : req'[q] \in {req[q], Blank}
      BY <1>2, <2>4 DEF HangUp, Reply, tables, client, IInv, RequestsOK
    <3>2. QED
      BY <1>2, <3>1, BlanksKeepBackups
  <2>5. ASSUME NEW p \in Procs, Begin(p)
        PROVE  BackupsOK'
    BY <1>2, <2>5, BeginKeepsBackups
  <2>6. ASSUME NEW p \in Procs, Statement(p)
        PROVE  BackupsOK'
    BY <1>2, <2>6, StatementKeepsBackups
  <2>7. QED
    BY <1>2, <2>1, <2>2, <2>3, <2>4, <2>5, <2>6 DEF Next
<1>3. BackupsOK => SoloImportRestores
  BY BackupsAreShown
<1>4. QED
  BY <1>1, <1>2, <1>3, Invariance, PTL DEF Spec
==============================================================================
