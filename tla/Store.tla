------------------------------- MODULE Store -------------------------------
(***************************************************************************)
(* The catalog tables and the statements handlers run on them.  The pool   *)
(* has one connection, so a statement or a transaction is atomic and the   *)
(* statements of different handlers alternate.                             *)
(*                                                                         *)
(* "rooms" maps a room's id to its row and "devices" a device's id to its  *)
(* row.  The child tables of a device (capabilities, topics, bindings,     *)
(* mappings, error rules) are written and deleted with their device and    *)
(* are kept as a count of inserted rows; only the row of vacuum_zones      *)
(* stays, as the field "zone".  Room positions, names and types of devices *)
(* are data no statement depends on.                                       *)
(***************************************************************************)
EXTENDS Integers, Sequences, FiniteSets

CONSTANTS
    UserIds,    \* ids an account may get, Admin among them
    Admin,      \* ADMIN_ID: the bootstrapped administrator, who owns the seed
    Names,      \* room names
    LongNames,  \* those of more than MaxRoomNameLen characters
    NoName,     \* the empty room name
    Segments,   \* numbers of the robot's segments
    Seed        \* devices.yaml: the room name of each device

ASSUME AdminAssumption == Admin \in UserIds /\ UserIds \subseteq Nat \ {0}
ASSUME NamesAssumption == LongNames \subseteq Names /\ NoName \notin Names
ASSUME SegmentsAssumption == Segments \subseteq Nat \ {0} /\ IsFiniteSet(Segments)
ASSUME SeedAssumption == Seed \in Seq(Names \union {NoName})

NoRoom == 0     \* NULL: room ids start at 1
Whole  == 0     \* segment_id "": the robot's parent device
NoZone == -1    \* no row in vacuum_zones

\* Device ids: generated for the builder and for discovery, derived from the
\* robot's item for its devices, from the file for seeded ones.
Uuid(n)    == <<"uuid", n>>
VacuumId(s) == <<"vac", s>>
YamlId(k)  == <<"yaml", k>>
NoDevice   == <<"none", 0>>

IsRoomRow(r)   == r.user \in UserIds /\ r.name \in Names
IsZone(z)      == z = NoZone \/ z = Whole \/ z \in Segments

Without(f, S) == [x \in DOMAIN f \ S |-> f[x]]
Put(f, x, v) == [y \in DOMAIN f \union {x} |-> IF y = x THEN v ELSE f[y]]

-----------------------------------------------------------------------------
(* Rooms.                                                                  *)

Named(rooms, u, n) == {r \in DOMAIN rooms : rooms[r].user = u /\ rooms[r].name = n}
Taken(rooms, u, n) == Named(rooms, u, n) # {}
OfUser(rows, u)    == {x \in DOMAIN rows : rows[x].user = u}
BelongsToUser(rooms, u, r) == r \in OfUser(rooms, u)

Creatable(rooms, u, n) == n \in Names \ LongNames /\ ~Taken(rooms, u, n)

\* Mutant: no UNIQUE(user_id, name).
CanRenameMutant(rooms, u, r, n) == r \in DOMAIN rooms

\* UNIQUE(user_id, name) counts the room itself out; an UPDATE that matches
\* no row of the user succeeds and changes nothing.
CanRename(rooms, u, r, n) == BelongsToUser(rooms, u, r) => Named(rooms, u, n) \subseteq {r}
RenameRow(rooms, u, r, n) ==
    IF r \in OfUser(rooms, u) THEN [rooms EXCEPT ![r].name = n] ELSE rooms

\* ON DELETE SET NULL.
Unassign(devices, gone) ==
    [d \in DOMAIN devices |->
        IF devices[d].room \in gone THEN [devices[d] EXCEPT !.room = NoRoom] ELSE devices[d]]

RoomName(rooms, r) == IF r = NoRoom THEN NoName ELSE rooms[r].name

-----------------------------------------------------------------------------
(* Devices.                                                                *)

Device(u, r, z) == [user |-> u, room |-> r, zone |-> z]

RoomExists(rooms, r) == r = NoRoom \/ r \in DOMAIN rooms

\* A device is inserted unless its id is taken, whoever owns it, or its room
\* does not exist.
CanSave(rooms, devices, d, r) == d \notin DOMAIN devices /\ RoomExists(rooms, r)

Owned(devices, u, d) == d \in OfUser(devices, u)

\* ReplaceDevice: the old row goes with its children, the new row brings the
\* children of the new definition.
CanReplace(rooms, devices, u, d, r) == Owned(devices, u, d) /\ RoomExists(rooms, r)

VacuumGroup(devices, u) ==
    {d \in OfUser(devices, u) : d = VacuumId(Whole) \/ devices[d].zone # NoZone}

\* LoadAll: what the manager builds its registry from.
LoadAll(rooms, devices) ==
    [d \in DOMAIN devices |->
        [user |-> devices[d].user, room |-> RoomName(rooms, devices[d].room), zone |-> devices[d].zone]]

-----------------------------------------------------------------------------
(* Seeding.  An accumulator "s" has the rooms, the next room id, the rooms *)
(* answered so far (the cache), the devices' rooms, and the connection's   *)
(* last inserted row id, which an insert that is ignored does not reset.   *)

Answer(s, n, id) == [s EXCEPT !.cache = Put(@, n, id), !.ids = Append(@, id)]

EnsureRoom(s, n) ==
    IF n = NoName THEN [s EXCEPT !.ids = Append(@, NoRoom)]
    ELSE IF n \in DOMAIN s.cache THEN [s EXCEPT !.ids = Append(@, s.cache[n])]
    ELSE IF ~Taken(s.rooms, Admin, n) THEN
        Answer([s EXCEPT !.rooms = Put(@, s.next, [user |-> Admin, name |-> n]),
                         !.next  = @ + 1,
                         !.last  = s.next],
               n, s.next)
    ELSE Answer(s, n, IF s.last # 0 THEN s.last
                      ELSE CHOOSE r \in Named(s.rooms, Admin, n) : TRUE)

\* The device's row and its children: the last insert is a child's.
InsertDevice(s) == [s EXCEPT !.inserts = @ + 1, !.last = s.inserts + 1]

\* The accumulators after each device of the file.
Seeding(start) ==
    LET After[k \in 0 .. Len(Seed)] ==
            IF k = 0 THEN start ELSE InsertDevice(EnsureRoom(After[k - 1], Seed[k]))
    IN  After

ImportCatalog(rooms, next, inserts, last) ==
    Seeding([rooms |-> rooms, next |-> next, inserts |-> inserts, last |-> last,
             cache |-> <<>>, ids |-> <<>>])[Len(Seed)]

\* The foreign key of every device holds, or the transaction is rolled back.
Imported(s) == \A k \in 1 .. Len(Seed) : RoomExists(s.rooms, s.ids[k])

SeededDevices(s) ==
    LET ids == {YamlId(k) : k \in 1 .. Len(Seed)}
    IN  [d \in ids |-> Device(Admin, s.ids[d[2]], NoZone)]

\* The devices the file gives a room, in another room than that one.
Astray(s) ==
    {<<YamlId(k), s.ids[k]>> :
        k \in {j \in 1 .. Len(Seed) : s.ids[j] # NoRoom /\ s.ids[j] \notin Named(s.rooms, Admin, Seed[j])}}
=============================================================================
