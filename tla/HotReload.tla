----------------------------- MODULE HotReload -----------------------------
(***************************************************************************)
(* Hot reload of the device catalog: an HTTP handler commits an edit to    *)
(* the database and calls Manager.Reload, which reads the catalog back,    *)
(* builds new device objects and publishes them to the vacuum groups, the  *)
(* registry the provider API reads, and every transport connector; then it *)
(* asks Yandex to re-discover the devices of the user who edited.  Handlers*)
(* run concurrently and nothing serialises their reloads.                  *)
(*                                                                         *)
(* The catalog is abstracted to the edits committed, numbered in the order *)
(* of their commits; an edit changes devices of the user who made it.  A   *)
(* loaded catalog holds the devices of all users and is a record: "by"     *)
(* names the reload that built the device objects (the edit it follows, 0  *)
(* at start), "rows" and "kids" are the versions at which LoadAll read the *)
(* devices and their child tables, which are separate queries outside any  *)
(* transaction.  Yandex keeps one list per user.  A connector's Resync is  *)
(* one step here; MqttBridge and OpenHABConnector refine it.               *)
(***************************************************************************)
EXTENDS Naturals, FiniteSets

CONSTANTS
    Users,          \* the accounts that own devices
    Editors,        \* concurrent edit requests
    Connectors,     \* transports
    MaxEdits,       \* bounds the committed edits
    MaxFaults       \* bounds the faults: a reload that fails (client gone,
                    \* database error), a handler that gives up after its
                    \* commit, a lost callback, a restart

ASSUME MaxEditsAssumption == MaxEdits \in Nat
ASSUME MaxFaultsAssumption == MaxFaults \in Nat

Versions  == 0 .. MaxEdits
Blank     == [by |-> 0, rows |-> 0, kids |-> 0]

VARIABLES
    db,         \* number of committed edits
    edits,      \* the edits each user has committed
    registry,   \* the snapshot behind Manager.reg
    groups,     \* the snapshot whose vacuum groups are in Manager.vacuumGroups
    table,      \* the snapshot each connector routes updates to
    pc,         \* where each edit request is
    snap,       \* what each request has loaded
    todo,       \* the connectors each request has yet to Resync
    pings,      \* discovery callbacks on their way to Yandex, per user
    faults,     \* how many faults there were
    yandex,     \* the list of each user's devices that Yandex fetched last
    solo,       \* history: requests whose reload nobody has overlapped yet
    repaired,   \* history: a solo reload has completed and no edit followed
    overlapped, \* history: two requests have been under way at a time
    silent      \* history: users whose devices in the registry a request of
                \* another user has changed since their last callback or list

live == <<registry, groups, table>>
request == <<pc, snap, todo>>
callback == <<pings, yandex, silent>>
history == <<solo, repaired, overlapped>>
vars == <<db, edits, live, request, faults, callback, history>>

States == {"idle", "committed", "reading", "loaded", "swapped", "resync", "notify"}
Busy   == {e \in Editors : pc[e] # "idle"}

\* The user whose request e is.
IsOf(e, u) == snap[e].by \in edits[u]

\* What a snapshot knows of a user: the edits in its rows and in the children.
Devices(s, u) == [rows |-> {v \in edits[u] : v <= s.rows},
                  kids |-> {v \in edits[u] : v <= s.kids}]

Init ==
    /\ db = 0
    /\ edits    = [u \in Users |-> {}]
    /\ registry = Blank
    /\ groups   = Blank
    /\ table    = [c \in Connectors |-> Blank]
    /\ pc       = [e \in Editors |-> "idle"]
    /\ snap     = [e \in Editors |-> Blank]
    /\ todo     = [e \in Editors |-> {}]
    /\ pings    = [u \in Users |-> 0]
    /\ faults   = 0
    /\ yandex   = [u \in Users |-> Devices(Blank, u)]
    /\ solo     = {}
    /\ repaired = TRUE
    /\ overlapped = FALSE
    /\ silent   = {}

Goto(e, s)  == pc' = [pc EXCEPT ![e] = s]
Finish(e)   == /\ pc'   = [pc EXCEPT ![e] = "idle"]
               /\ snap' = [snap EXCEPT ![e] = Blank]
               /\ todo' = [todo EXCEPT ![e] = {}]
               /\ solo' = solo \ {e}

Fault == faults < MaxFaults /\ faults' = faults + 1

\* A handler commits its edit of user u's devices in one transaction.
Commit(e, u) ==
    /\ pc[e] = "idle"
    /\ db < MaxEdits
    /\ db' = db + 1
    /\ edits' = [edits EXCEPT ![u] = @ \cup {db + 1}]
    /\ Goto(e, "committed")
    /\ snap' = [snap EXCEPT ![e].by = db + 1]
    /\ solo' = IF Busy = {} THEN {e} ELSE {}
    /\ overlapped' = (overlapped \/ Busy # {})
    /\ repaired' = FALSE
    /\ UNCHANGED <<faults, live, todo, callback>>

\* The handler answers an error after a first commit, without reloading, or
\* LoadAll fails: the registry stays as it was until the next reload.
GiveUp(e) ==
    /\ Fault
    /\ pc[e] \in {"committed", "reading"}
    /\ Finish(e)
    /\ UNCHANGED <<db, edits, live, callback, repaired, overlapped>>

\* Mutant: the rows show an edit that is not committed yet.
LoadRowsMutant(e) ==
    /\ pc[e] = "committed"
    /\ snap' = [snap EXCEPT ![e].rows = db + 1]
    /\ Goto(e, "reading")
    /\ UNCHANGED <<faults, db, edits, live, todo, callback, history>>

\* LoadAll: the device rows, then the children of each device.
LoadRows(e) ==
    /\ pc[e] = "committed"
    /\ snap' = [snap EXCEPT ![e].rows = db]
    /\ Goto(e, "reading")
    /\ UNCHANGED <<faults, db, edits, live, todo, callback, history>>

LoadChildren(e) ==
    /\ pc[e] = "reading"
    /\ snap' = [snap EXCEPT ![e].kids = db]
    /\ Goto(e, "loaded")
    /\ UNCHANGED <<faults, db, edits, live, todo, callback, history>>

SwapGroups(e) ==
    /\ pc[e] = "loaded"
    /\ groups' = snap[e]
    /\ Goto(e, "swapped")
    /\ UNCHANGED <<faults, db, edits, registry, table, snap, todo, callback, history>>

\* The users whose devices the registry changes without a callback to follow:
\* the one after this reload names the user of the request only.
Untold(e) ==
    silent' = {u \in Users : /\ ~IsOf(e, u)
                             /\ \/ u \in silent
                                \/ Devices(registry', u) # Devices(registry, u)}

\* Mutant: only connectors that already serve a device are re-synced.
StoreRegistryMutant(e) ==
    /\ pc[e] = "swapped"
    /\ registry' = snap[e]
    /\ todo' = [todo EXCEPT ![e] = {c \in Connectors : table[c] = registry /\ registry.by > 0}]
    /\ Untold(e)
    /\ Goto(e, "resync")
    /\ UNCHANGED <<faults, db, edits, groups, table, snap, pings, yandex, history>>

\* Mutant: the registry is filled from the definitions of the previous load.
StoreRegistryStale(e) ==
    /\ pc[e] = "swapped"
    /\ registry' = [snap[e] EXCEPT !.rows = registry.rows]
    /\ todo' = [todo EXCEPT ![e] = Connectors]
    /\ Untold(e)
    /\ Goto(e, "resync")
    /\ UNCHANGED <<faults, db, edits, groups, table, snap, pings, yandex, history>>

StoreRegistry(e) ==
    /\ pc[e] = "swapped"
    /\ registry' = snap[e]
    /\ todo' = [todo EXCEPT ![e] = Connectors]
    /\ Untold(e)
    /\ Goto(e, "resync")
    /\ UNCHANGED <<faults, db, edits, groups, table, snap, pings, yandex, history>>

\* Connectors are visited in the random order of a map.
ResyncOne(e) ==
    /\ pc[e] = "resync"
    /\ \E c \in todo[e] :
        /\ table' = [table EXCEPT ![c] = snap[e]]
        /\ todo'  = [todo EXCEPT ![e] = @ \ {c}]
    /\ UNCHANGED <<faults, db, edits, registry, groups, pc, snap, callback, history>>

ReloadDone(e) ==
    /\ pc[e] = "resync"
    /\ todo[e] = {}
    /\ Goto(e, "notify")
    /\ repaired' = (e \in solo)
    /\ UNCHANGED <<faults, db, edits, live, snap, todo, callback, solo, overlapped>>

\* Mutant: the callback always names the account of the configuration.
NotifyDiscoveryMutant(e) ==
    /\ pc[e] = "notify"
    /\ pings' = [pings EXCEPT ![CHOOSE u \in Users : TRUE] = @ + 1]
    /\ Finish(e)
    /\ UNCHANGED <<db, edits, faults, live, yandex, silent, repaired, overlapped>>

\* NotifyDiscovery starts a goroutine that posts once, without a retry; the
\* callback carries the user of the request and nobody else.
NotifyDiscovery(e) ==
    /\ pc[e] = "notify"
    /\ \E u \in Users : IsOf(e, u) /\ pings' = [pings EXCEPT ![u] = @ + 1]
    /\ Finish(e)
    /\ UNCHANGED <<faults, db, edits, live, yandex, silent, repaired, overlapped>>

\* Yandex answers the callback by requesting the devices of that user, and
\* gets those the registry has for the user.
Discover(u) ==
    /\ pings[u] > 0
    /\ pings' = [pings EXCEPT ![u] = @ - 1]
    /\ yandex' = [yandex EXCEPT ![u] = Devices(registry, u)]
    /\ silent' = silent \ {u}
    /\ UNCHANGED <<faults, db, edits, live, request, history>>

LosePing(u) ==
    /\ Fault
    /\ pings[u] > 0
    /\ pings' = [pings EXCEPT ![u] = @ - 1]
    /\ UNCHANGED <<db, edits, live, request, yandex, silent, history>>

\* The process stops and starts again; startup reloads before it serves.
Restart ==
    LET fresh == [by |-> 0, rows |-> db, kids |-> db] IN
    /\ Fault
    /\ registry' = fresh
    /\ groups'   = fresh
    /\ table'    = [c \in Connectors |-> fresh]
    /\ pc'       = [e \in Editors |-> "idle"]
    /\ snap'     = [e \in Editors |-> Blank]
    /\ todo'     = [e \in Editors |-> {}]
    /\ pings'    = [u \in Users |-> 0]
    /\ solo'     = {}
    /\ repaired' = TRUE
    /\ UNCHANGED <<db, edits, yandex, silent, overlapped>>

Reload(e) ==
    \/ LoadRows(e)
    \/ LoadChildren(e)
    \/ SwapGroups(e)
    \/ StoreRegistry(e)
    \/ ResyncOne(e)
    \/ ReloadDone(e)

Next ==
    \/ \E e \in Editors : \/ \E u \in Users : Commit(e, u)
                         \/ GiveUp(e)
                         \/ Reload(e)
                         \/ NotifyDiscovery(e)
    \/ \E u \in Users : Discover(u) \/ LosePing(u)
    \/ Restart

\* A started reload and a started callback run on; Yandex answers.
Fairness ==
    /\ \A e \in Editors : WF_vars(Reload(e)) /\ WF_vars(NotifyDiscovery(e))
    /\ \A u \in Users : WF_vars(Discover(u))

Spec == Init /\ [][Next]_vars /\ Fairness

-----------------------------------------------------------------------------
\* What can have been loaded: nothing beyond the edits committed so far.
Loads == [by : 0 .. db, rows : 0 .. db, kids : 0 .. db]

\* Every variable has its type.  Nothing that was loaded or published is ahead
\* of the last commit, and Yandex keeps for a user only edits of that user.
TypeOK ==
    /\ db       \in Versions
    /\ edits    \in [Users -> SUBSET (1 .. db)]
    /\ registry \in Loads
    /\ groups   \in Loads
    /\ table    \in [Connectors -> Loads]
    /\ pc       \in [Editors -> States]
    /\ snap     \in [Editors -> Loads]
    /\ todo     \in [Editors -> SUBSET Connectors]
    /\ pings    \in [Users -> Nat]
    /\ faults   \in 0 .. MaxFaults
    /\ DOMAIN yandex = Users
    /\ \A u \in Users : yandex[u] \in [rows : SUBSET edits[u], kids : SUBSET edits[u]]
    /\ solo     \in SUBSET Editors
    /\ repaired \in BOOLEAN
    /\ overlapped \in BOOLEAN
    /\ silent   \in SUBSET Users

\* The registry, the vacuum groups and every connector hold the same device
\* objects, built from the database as it is.
Fresh ==
    /\ registry.rows = db
    /\ registry.kids = db
    /\ groups = registry
    /\ \A c \in Connectors : table[c] = registry

\* A reload no other request overlapped leaves nothing of the past behind:
\* whatever interleaved reloads, failed reloads or handlers that gave up had
\* left in the registry, the groups or a connector, it repairs all of it.
SoloReloadRepairs == repaired => Fresh

\* What a reload publishes, to the registry or to a connector, contains the
\* edit the reload follows, however other reloads interleave: a handler
\* never publishes a catalog that misses its own edit.
PublishedHasOwnEdit ==
    \A s \in {registry, groups} \cup {table[c] : c \in Connectors} :
        s.by <= s.rows /\ s.rows <= s.kids /\ s.kids <= db

\* Without faults, Yandex ends up with each user's devices as the registry has
\* them: after the user's last swap of the registry a callback for that user is
\* still to come, whichever order reloads and callbacks finish in.  The one
\* exception the code leaves: a request of another user that overlapped some
\* request published the user's devices last, older or newer, and only the
\* other user is called back.
YandexCatchesUp ==
    \A u \in Users : []<>(\/ yandex[u] = Devices(registry, u)
                          \/ u \in silent /\ overlapped
                          \/ faults > 0)

=============================================================================
