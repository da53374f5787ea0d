-------------------------- MODULE OpenHABConnector --------------------------
(***************************************************************************)
(* The openHAB connector (internal/openhab/connector.go): every Resync     *)
(* cancels the goroutines of the previous one and starts two more, one     *)
(* that fetches the current states and one that follows the event stream.  *)
(* They are not ordered with each other nor with those of earlier Resyncs, *)
(* which may still route what they have read.                              *)
(*                                                                         *)
(* One item is watched.  Its states are numbered in the order openHAB      *)
(* takes them; Run r is the r-th Resync.  A device set is the list of      *)
(* device objects a reload built: a new list knows no state yet.  route    *)
(* reads the tables and writes the device in one step: the write of a      *)
(* route that a Resync overtook lands on replaced objects.                 *)
(***************************************************************************)
EXTENDS Naturals, Sequences

CONSTANTS
    MaxState,   \* bounds the state changes of the item
    MaxRun,     \* bounds the Resyncs
    MaxSet,     \* bounds the device sets: those of startup and of reloads
    Admins      \* admin requests that may reconfigure at the same time

ASSUME BoundsAssumption == /\ MaxState \in Nat
                           /\ MaxRun \in Nat
                           /\ MaxSet \in Nat \ {0}

Runs      == 1 .. MaxRun
Sets      == 1 .. MaxSet
States    == 0 .. MaxState
Unknown   == MaxState + 1       \* a device that was told no state yet

VARIABLES
    item,       \* openHAB: the item's state
    installed,  \* the device set of c.devices, c.subs and c.lastDevices
    built,      \* the device sets built so far
    bound,      \* the device sets with a device bound to the item
    value,      \* the state the device of each set was told last
    configured, \* whether a URL and a token are set
    run,        \* the number of Resyncs so far
    current,    \* the run whose context c.sseCancel cancels, 0 for none
    cancelled,  \* the runs whose context is cancelled
    sync,       \* the fetch goroutine of each run
    got,        \* the state it received
    stream,     \* the stream goroutine of each run
    events,     \* what openHAB sent on the stream and it has not handled
    admin,      \* the device set each Reconfigure read, 0 when idle
    amiss,      \* history: the fetch of the current run failed, a change came
                \* that neither its fetch nor its stream told, or an older
                \* state was routed over a newer one; no change on an open
                \* stream since
    resumed     \* history: the stream was cut while the device was right:
                \* "no", "cut", or "open" again

tables  == <<installed, built, bound, value, configured>>
threads == <<sync, got, stream, events>>
control == <<run, current, cancelled>>
vars == <<item, tables, control, threads, admin, amiss, resumed>>

Init ==
    /\ item = 0
    /\ installed = 1
    /\ built = 1
    /\ bound \in SUBSET {1}
    /\ value = [d \in Sets |-> Unknown]
    /\ configured \in BOOLEAN
    /\ run = 0
    /\ current = 0
    /\ cancelled = {}
    /\ sync   = [r \in Runs |-> "none"]
    /\ got    = [r \in Runs |-> 0]
    /\ stream = [r \in Runs |-> "none"]
    /\ events = [r \in Runs |-> <<>>]
    /\ admin  = [a \in Admins |-> 0]
    /\ amiss = FALSE
    /\ resumed = "no"

-----------------------------------------------------------------------------
(* Resync.                                                                 *)

\* A device set without an item to watch starts no goroutine.
Begin(r, d) ==
    IF d \in bound'
      THEN /\ stream' = [stream EXCEPT ![r] = "spawn"]
           /\ sync' = sync
      ELSE /\ stream' = [stream EXCEPT ![r] = "ended"]
           /\ sync'   = [sync EXCEPT ![r] = "done"]

\* Mutant: the previous run is not cancelled.
InstallMutant(d) ==
    /\ run < MaxRun
    /\ run' = run + 1
    /\ installed' = d
    /\ cancelled' = cancelled
    /\ current' = run + 1
    /\ Begin(run + 1, d)
    /\ amiss' = FALSE
    /\ resumed' = "no"

\* Mutant: c.sseCancel is called without the nil check.
InstallNilMutant(d) ==
    /\ run < MaxRun
    /\ run' = run + 1
    /\ installed' = d
    /\ cancelled' = cancelled \cup {current}
    /\ current' = run + 1
    /\ Begin(run + 1, d)
    /\ amiss' = FALSE
    /\ resumed' = "no"

\* The critical section: install the tables, cancel the previous run.
Install(d) ==
    /\ run < MaxRun
    /\ run' = run + 1
    /\ installed' = d
    /\ cancelled' = cancelled \cup ({current} \ {0})
    /\ current' = run + 1
    /\ Begin(run + 1, d)
    /\ amiss' = FALSE
    /\ resumed' = "no"

\* Called by Manager.Reload, with devices it has just built.
Resync(binds) ==
    /\ built < MaxSet
    /\ built' = built + 1
    /\ bound' = IF binds THEN bound \cup {built + 1} ELSE bound
    /\ Install(built + 1)
    /\ UNCHANGED <<item, value, configured, got, events, admin>>

\* Called by Manager.Reload at startup.
FirstResync ==
    /\ run = 0
    /\ UNCHANGED <<item, built, bound, value, configured, got, events, admin>>
    /\ Install(1)

\* After the lock: no server, or two goroutines.
Spawn(r) ==
    /\ stream[r] = "spawn"
    /\ IF configured
         THEN /\ sync'   = [sync EXCEPT ![r] = "fetch"]
              /\ stream' = [stream EXCEPT ![r] = "connect"]
         ELSE /\ sync'   = [sync EXCEPT ![r] = "done"]
              /\ stream' = [stream EXCEPT ![r] = "ended"]
    /\ UNCHANGED <<item, tables, control, got, events, admin, amiss, resumed>>

\* Reconfigure sets the server and reads lastDevices in one critical section
\* and calls Resync after it.
ReadDevices(a) ==
    /\ admin[a] = 0
    /\ run > 0
    /\ admin' = [admin EXCEPT ![a] = installed]
    /\ configured' \in BOOLEAN
    /\ UNCHANGED <<item, installed, built, bound, value, control, threads, amiss, resumed>>

ResyncDevices(a) ==
    /\ admin[a] # 0
    /\ admin' = [admin EXCEPT ![a] = 0]
    /\ UNCHANGED <<item, built, bound, value, configured, got, events>>
    /\ Install(admin[a])

-----------------------------------------------------------------------------
\* route: tell the device of the current tables.
Route(v) ==
    IF installed \in bound
      THEN /\ value' = [value EXCEPT ![installed] = v]
           /\ amiss' = (amiss \/ (value[installed] # Unknown /\ v < value[installed]))
      ELSE UNCHANGED <<value, amiss>>

(* syncInitialStates                                                       *)

\* The answer is read completely before anything is routed.
Fetched(r) ==
    /\ sync[r] = "fetch"
    /\ r \notin cancelled
    /\ sync' = [sync EXCEPT ![r] = "route"]
    /\ got'  = [got EXCEPT ![r] = item]
    /\ UNCHANGED <<item, tables, control, stream, events, admin, amiss, resumed>>

\* The request fails, or its context is cancelled: no retry.
FetchFails(r) ==
    /\ sync[r] = "fetch"
    /\ sync' = [sync EXCEPT ![r] = "done"]
    /\ amiss' = (amiss \/ r = current)
    /\ UNCHANGED <<item, tables, control, got, stream, events, admin, resumed>>

RouteFetched(r) ==
    /\ sync[r] = "route"
    /\ Route(got[r])
    /\ sync' = [sync EXCEPT ![r] = "done"]
    /\ got'  = [got EXCEPT ![r] = 0]
    /\ UNCHANGED <<item, installed, built, bound, configured, control, stream, events,
                   admin, resumed>>

-----------------------------------------------------------------------------
(* streamEvents and connectSSE                                             *)

Connect(r) ==
    /\ stream[r] = "connect"
    /\ r \notin cancelled
    /\ stream' = [stream EXCEPT ![r] = "open"]
    /\ events' = [events EXCEPT ![r] = <<>>]
    /\ resumed' = IF resumed = "cut" THEN "open" ELSE resumed
    /\ UNCHANGED <<item, tables, control, sync, got, admin, amiss>>

ConnectFails(r) ==
    /\ stream[r] = "connect"
    /\ r \notin cancelled
    /\ stream' = [stream EXCEPT ![r] = "backoff"]
    /\ UNCHANGED <<item, tables, control, sync, got, events, admin, amiss, resumed>>

Retry(r) ==
    /\ stream[r] = "backoff"
    /\ stream' = [stream EXCEPT ![r] = "connect"]
    /\ UNCHANGED <<item, tables, control, sync, got, events, admin, amiss, resumed>>

\* Mutant: the loop only looks at its context after an error.
EndMutant(r) ==
    /\ stream[r] = "backoff"
    /\ r \in cancelled
    /\ stream' = [stream EXCEPT ![r] = "ended"]
    /\ UNCHANGED <<item, tables, control, sync, got, events, admin, amiss, resumed>>

\* The context of the run is cancelled: the loop, the request or the backoff
\* ends.
End(r) ==
    /\ stream[r] \in {"connect", "backoff", "open"}
    /\ r \in cancelled
    /\ stream' = [stream EXCEPT ![r] = "ended"]
    /\ events' = [events EXCEPT ![r] = <<>>]
    /\ UNCHANGED <<item, tables, control, sync, got, admin, amiss, resumed>>

\* Mutant: events of states the device was told before are not routed.
HandleMutant(r) ==
    /\ stream[r] = "open"
    /\ events[r] # <<>>
    /\ IF value[installed] = Unknown THEN UNCHANGED <<value, amiss>> ELSE Route(Head(events[r]))
    /\ events' = [events EXCEPT ![r] = Tail(@)]
    /\ UNCHANGED <<item, installed, built, bound, configured, control, sync, got, stream,
                   admin, resumed>>

\* A cancelled stream may still handle what it has buffered.
Handle(r) ==
    /\ stream[r] = "open"
    /\ events[r] # <<>>
    /\ Route(Head(events[r]))
    /\ events' = [events EXCEPT ![r] = Tail(@)]
    /\ UNCHANGED <<item, installed, built, bound, configured, control, sync, got, stream,
                   admin, resumed>>

Right == installed \in bound => value[installed] = item

\* openHAB closes the stream: cleanly, and the loop reconnects at once, or
\* with an error.
Drop(r, next) ==
    /\ stream[r] = "open"
    /\ r \notin cancelled
    /\ stream' = [stream EXCEPT ![r] = next]
    /\ events' = [events EXCEPT ![r] = <<>>]
    /\ amiss' = (amiss \/ events[r] # <<>>)
    /\ resumed' = IF Right /\ sync[r] = "done" THEN "cut" ELSE "no"
    /\ UNCHANGED <<item, tables, control, sync, got, admin>>

-----------------------------------------------------------------------------
\* openHAB changes the item and tells every open stream.
Change ==
    /\ item < MaxState
    /\ item' = item + 1
    /\ events' = [r \in Runs |->
            IF stream[r] = "open" THEN Append(events[r], item + 1) ELSE events[r]]
    /\ amiss' = \/ \E r \in Runs : r = current /\ stream[r] # "open" /\ sync[r] \in {"route", "done"}
                \/ amiss /\ \A r \in Runs : r = current => stream[r] # "open"
    /\ UNCHANGED <<tables, control, sync, got, stream, admin, resumed>>

Work(r) ==
    \/ Spawn(r)
    \/ RouteFetched(r)
    \/ Connect(r)
    \/ Retry(r)
    \/ End(r)
    \/ Handle(r)

Next ==
    \/ FirstResync
    \/ \E binds \in BOOLEAN : run > 0 /\ Resync(binds)
    \/ \E a \in Admins : ReadDevices(a)
    \/ \E a \in Admins : ResyncDevices(a)
    \/ \E r \in Runs : Work(r)
    \/ \E r \in Runs : Fetched(r)
    \/ \E r \in Runs : FetchFails(r)
    \/ \E r \in Runs : ConnectFails(r)
    \/ \E r \in Runs, next \in {"connect", "backoff"} : Drop(r, next)
    \/ Change

\* Goroutines run on; a request whose context is cancelled returns.
Fairness == \A r \in Runs :
    /\ WF_vars(Spawn(r))
    /\ WF_vars(RouteFetched(r))
    /\ WF_vars(Fetched(r) \/ FetchFails(r))
    /\ WF_vars(Handle(r))
    /\ WF_vars(End(r))

Spec == Init /\ [][Next]_vars /\ Fairness

-----------------------------------------------------------------------------
\* Every variable has its type; only runs that exist are current, cancelled.
TypeOK ==
    /\ item      \in States
    /\ installed \in Sets
    /\ built     \in Sets
    /\ bound     \subseteq 1 .. built
    /\ value     \in [Sets -> States \cup {Unknown}]
    /\ configured \in BOOLEAN
    /\ run       \in 0 .. MaxRun
    /\ current   \in 0 .. run
    /\ cancelled \subseteq 1 .. run
    /\ sync      \in [Runs -> {"none", "fetch", "route", "done"}]
    /\ got       \in [Runs -> States]
    /\ stream    \in [Runs -> {"none", "spawn", "connect", "open", "backoff", "ended"}]
    /\ events    \in [Runs -> Seq(States)]
    /\ admin     \in [Admins -> 0 .. MaxSet]
    /\ amiss   \in BOOLEAN
    /\ resumed   \in {"no", "cut", "open"}

\* At most one stream is uncancelled, the one c.sseCancel can cancel, however
\* Resync and Reconfigure interleave: no stream is left that nobody can stop.
OneLiveStream ==
    \A r \in Runs : stream[r] \notin {"none", "ended"} => r \in cancelled \/ r = current

\* Once the current run has fetched, its stream is open and every event is
\* handled, the device has the item's state, however changes, Resyncs and
\* goroutines of earlier runs interleave.  Three things leave it wrong until
\* the next change: a fetch that failed, a change after the fetch that no
\* open stream told (before it connected, or during a cut), and an older
\* state routed over a newer one, by a late fetch or a cancelled stream.
StatesArrive ==
    \A r \in Runs : r = current /\ stream[r] = "open" /\ sync[r] = "done" /\ events[r] = <<>>
        => Right \/ amiss

\* Cancelled runs come to an end, whatever they were doing: once the Resyncs
\* stop, no goroutine of an earlier one is left.
CancelledRunsEnd ==
    []<>(\A r \in cancelled : sync[r] = "done" /\ stream[r] = "ended")

\* The current run is on its own: its fetch is done, its stream is open and
\* every earlier goroutine has ended.
Alone(r) ==
    /\ r = current
    /\ sync[r] = "done"
    /\ stream[r] = "open"
    /\ \A q \in Runs \ {r} : sync[q] \in {"none", "done"} /\ stream[q] \in {"none", "ended"}

\* connector.go:189 "syncInitialStates fetches the current state of the
\* watched items so devices start correct after (re)connect": with its
\* stream open again after a cut, and every event handled, the connector's
\* device has the item's state.
CorrectAfterReconnect ==
    \A r \in Runs : Alone(r) /\ resumed = "open" /\ events[r] = <<>> => Right

=============================================================================
