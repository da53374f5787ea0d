---------------------------- MODULE VacuumGroup ----------------------------
(***************************************************************************)
(* The per-robot batching of room toggles (internal/device/vacuum.go) and  *)
(* the part of a catalog reload that replaces the batching group           *)
(* (internal/device/manager.go).                                           *)
(*                                                                         *)
(* Threads: HTTP handlers (provider-API actions), time.AfterFunc callbacks *)
(* and reloads.  Every generation g is one VacuumGroup object of the same  *)
(* robot: generation 1 is built at start, reload g builds generation g.    *)
(* A handler looks its device up in the registry and keeps the group it    *)
(* found, which a reload may have replaced by the time the call runs.      *)
(*                                                                         *)
(* The group's mutex makes SetRoom, dispatch and Stop one step each;       *)
(* WholeHouse publishes after it unlocked and is two steps.  time.Timer's  *)
(* Stop does not stop a callback that was already started: a timer is      *)
(* "running" until it fires and "fired" until its callback has the lock.   *)
(* Commands reach the robot in the order they are published.               *)
(***************************************************************************)
EXTENDS Naturals, FiniteSets

CONSTANTS
    Segments,   \* the robot's rooms
    Handlers,   \* concurrent provider-API requests
    Timers,     \* identities of timers; bounds the timers alive at once
    MaxGen,     \* bounds the reloads: generations 1 .. MaxGen
    NoTimer     \* the nil *time.Timer

ASSUME MaxGenAssumption == MaxGen \in Nat \ {0}
ASSUME NoTimerAssumption == NoTimer \notin Timers

Gens == 1 .. MaxGen

VARIABLES
    active,     \* g.active: rooms waiting for the next dispatch
    timer,      \* g.timer
    cleaning,   \* g.cleaning
    running,    \* timers of g that may still fire or be stopped
    fired,      \* timers of g whose callback waits for the lock
    robot,      \* the last command the robot received, and from which group
    call,       \* what each handler is doing
    found,      \* the group each handler looked up
    installed,  \* Manager.vacuumGroups
    registry,   \* the group reachable through Manager.reg
    phase,      \* progress of each reload
    replaced,   \* the group each reload found installed
    house       \* history: was the last call the group served a whole-house one

groupVars  == <<active, timer, cleaning, running, fired, house>>
callVars   == <<call, found>>
reloadVars == <<installed, registry, phase, replaced>>
vars == <<groupVars, robot, callVars, reloadVars>>

CallStates   == {"idle", "found", "start", "home"}
PhaseStates  == {"none", "swapped", "stopped", "stored"}
Home(g)      == [by |-> g, kind |-> "home",  rooms |-> {}]
Start(g)     == [by |-> g, kind |-> "start", rooms |-> {}]
Clean(g, S)  == [by |-> g, kind |-> "rooms", rooms |-> S]
Commands     == [by : Gens, kind : {"home", "start", "rooms"}, rooms : SUBSET Segments]

Init ==
    /\ active    = [g \in Gens |-> {}]
    /\ timer     = [g \in Gens |-> NoTimer]
    /\ cleaning  = [g \in Gens |-> FALSE]
    /\ running   = [g \in Gens |-> {}]
    /\ fired     = [g \in Gens |-> {}]
    /\ house     = [g \in Gens |-> FALSE]
    /\ robot     = Home(1)
    /\ call      = [h \in Handlers |-> "idle"]
    /\ found     = [h \in Handlers |-> 1]
    /\ installed = 1
    /\ registry  = 1
    /\ phase     = [g \in Gens |-> IF g = 1 THEN "stored" ELSE "none"]
    /\ replaced  = [g \in Gens |-> 1]

-----------------------------------------------------------------------------
(* The debounce timer.  Both helpers run under the group's lock.           *)

\* Timers that belong to no live callback once g.timer has been stopped.
FreeTimers(g) ==
    (Timers \ (UNION {running[x] \cup fired[x] : x \in Gens}))
        \cup ({timer[g]} \cap running[g])

stopTimer(g) ==
    /\ running' = [running EXCEPT ![g] = @ \ {timer[g]}]
    /\ timer'   = [timer EXCEPT ![g] = NoTimer]

arm(g) ==
    \E t \in FreeTimers(g) :
        /\ running' = [running EXCEPT ![g] = (@ \ {timer[g]}) \cup {t}]
        /\ timer'   = [timer EXCEPT ![g] = t]

\* The runtime starts the callback of a timer whose debounce has passed.
Fire(g) ==
    /\ \E t \in running[g] :
        /\ running' = [running EXCEPT ![g] = @ \ {t}]
        /\ fired'   = [fired EXCEPT ![g] = @ \cup {t}]
    /\ UNCHANGED <<active, timer, cleaning, house, robot, callVars, reloadVars>>

\* dispatch's early return: nothing to clean.
BatchReadyMutant(g) == TRUE
BatchReadyOffByOne(g) == Cardinality(active[g]) > 1
BatchReady(g) == active[g] # {}

\* Mutant: a dispatched job is not remembered.
DispatchMutant(g) ==
    /\ \E t \in fired[g] : fired' = [fired EXCEPT ![g] = @ \ {t}]
    /\ timer' = [timer EXCEPT ![g] = NoTimer]
    /\ IF BatchReady(g)
         THEN /\ active' = [active EXCEPT ![g] = {}]
              /\ robot'  = Clean(g, active[g])
         ELSE UNCHANGED <<active, robot>>
    /\ UNCHANGED <<cleaning, running, house, callVars, reloadVars>>

\* Mutant: the batch is sent and kept.
DispatchKeepsBatch(g) ==
    /\ \E t \in fired[g] : fired' = [fired EXCEPT ![g] = @ \ {t}]
    /\ timer' = [timer EXCEPT ![g] = NoTimer]
    /\ IF BatchReady(g)
         THEN /\ cleaning' = [cleaning EXCEPT ![g] = TRUE]
              /\ robot'    = Clean(g, active[g])
         ELSE UNCHANGED <<cleaning, robot>>
    /\ UNCHANGED <<active, running, house, callVars, reloadVars>>

\* The callback has the lock.  It clears g.timer even when that is a newer
\* timer than its own.
Dispatch(g) ==
    /\ \E t \in fired[g] : fired' = [fired EXCEPT ![g] = @ \ {t}]
    /\ timer' = [timer EXCEPT ![g] = NoTimer]
    /\ IF BatchReady(g)
         THEN /\ active'   = [active EXCEPT ![g] = {}]
              /\ cleaning' = [cleaning EXCEPT ![g] = TRUE]
              /\ robot'    = Clean(g, active[g])
         ELSE UNCHANGED <<active, cleaning, robot>>
    /\ UNCHANGED <<running, house, callVars, reloadVars>>

-----------------------------------------------------------------------------
(* A provider-API action: look the device up, then call its group.         *)

\* The request is answered; its local variables are gone.
Return(h) ==
    /\ call'  = [call EXCEPT ![h] = "idle"]
    /\ found' = [found EXCEPT ![h] = 1]

LookUp(h) ==
    /\ call[h] = "idle"
    /\ call'  = [call EXCEPT ![h] = "found"]
    /\ found' = [found EXCEPT ![h] = registry]
    /\ UNCHANGED <<groupVars, robot, reloadVars>>

SetRoomOn(h, s) ==
    LET g == found[h] IN
    /\ call[h] = "found"
    /\ active' = [active EXCEPT ![g] = @ \cup {s}]
    /\ arm(g)
    /\ Return(h)
    /\ house' = [house EXCEPT ![g] = FALSE]
    /\ UNCHANGED <<cleaning, fired, robot, reloadVars>>

\* The three outcomes of turning a room off: the robot was cleaning, the
\* batch became empty, or the remaining batch is armed again.
StopJob(g) ==
    /\ cleaning[g]
    /\ stopTimer(g)
    /\ active'   = [active EXCEPT ![g] = {}]
    /\ cleaning' = [cleaning EXCEPT ![g] = FALSE]
    /\ robot'    = Home(g)

EmptyBatch(g, s) ==
    /\ ~cleaning[g]
    /\ active[g] \ {s} = {}
    /\ stopTimer(g)
    /\ active' = [active EXCEPT ![g] = {}]
    /\ UNCHANGED <<cleaning, robot>>

\* Mutant: the debounce is cancelled and not armed again.
ShrinkBatchMutant(g, s) ==
    /\ ~cleaning[g]
    /\ active[g] \ {s} # {}
    /\ stopTimer(g)
    /\ active' = [active EXCEPT ![g] = @ \ {s}]
    /\ UNCHANGED <<cleaning, robot>>

ShrinkBatch(g, s) ==
    /\ ~cleaning[g]
    /\ active[g] \ {s} # {}
    /\ arm(g)
    /\ active' = [active EXCEPT ![g] = @ \ {s}]
    /\ UNCHANGED <<cleaning, robot>>

SetRoomOff(h, s) ==
    LET g == found[h] IN
    /\ call[h] = "found"
    /\ StopJob(g) \/ EmptyBatch(g, s) \/ ShrinkBatch(g, s)
    /\ Return(h)
    /\ house' = [house EXCEPT ![g] = FALSE]
    /\ UNCHANGED <<fired, reloadVars>>

\* Mutant: the pending batch survives a whole-house command.
WholeHouseMutant(h, on) ==
    LET g == found[h] IN
    /\ call[h] = "found"
    /\ stopTimer(g)
    /\ cleaning' = [cleaning EXCEPT ![g] = on]
    /\ call' = [call EXCEPT ![h] = IF on THEN "start" ELSE "home"]
    /\ house' = [house EXCEPT ![g] = TRUE]
    /\ UNCHANGED <<active, fired, robot, found, reloadVars>>

WholeHouse(h, on) ==
    LET g == found[h] IN
    /\ call[h] = "found"
    /\ stopTimer(g)
    /\ active' = [active EXCEPT ![g] = {}]
    /\ cleaning' = [cleaning EXCEPT ![g] = on]
    /\ call' = [call EXCEPT ![h] = IF on THEN "start" ELSE "home"]
    /\ house' = [house EXCEPT ![g] = TRUE]
    /\ UNCHANGED <<fired, robot, found, reloadVars>>

\* WholeHouse publishes after it released the lock.
PublishWholeHouse(h) ==
    LET g == found[h] IN
    /\ call[h] \in {"start", "home"}
    /\ robot' = IF call[h] = "start" THEN Start(g) ELSE Home(g)
    /\ Return(h)
    /\ UNCHANGED <<groupVars, reloadVars>>

-----------------------------------------------------------------------------
(* Reload g: swap the groups, stop the replaced one, publish the registry. *)
(* Reloads are not serialised.                                             *)

SwapGroups(g) ==
    /\ phase[g] = "none"
    /\ phase[g - 1] # "none"    \* generations are numbered in swap order
    /\ replaced' = [replaced EXCEPT ![g] = installed]
    /\ installed' = g
    /\ phase' = [phase EXCEPT ![g] = "swapped"]
    /\ UNCHANGED <<groupVars, robot, callVars, registry>>

StopReplaced(g) ==
    /\ phase[g] = "swapped"
    /\ stopTimer(replaced[g])
    /\ phase' = [phase EXCEPT ![g] = "stopped"]
    /\ UNCHANGED <<active, cleaning, fired, house, robot, callVars,
                   installed, registry, replaced>>

StoreRegistry(g) ==
    /\ phase[g] = "stopped"
    /\ registry' = g
    /\ phase' = [phase EXCEPT ![g] = "stored"]
    /\ UNCHANGED <<groupVars, robot, callVars, installed, replaced>>

-----------------------------------------------------------------------------
Call == \E h \in Handlers :
    \/ LookUp(h)
    \/ \E s \in Segments : SetRoomOn(h, s)
    \/ \E s \in Segments : SetRoomOff(h, s)
    \/ \E on \in BOOLEAN : WholeHouse(h, on)

Next ==
    \/ Call
    \/ \E h \in Handlers : PublishWholeHouse(h)
    \/ \E g \in Gens : Fire(g)
    \/ \E g \in Gens : Dispatch(g)
    \/ \E g \in Gens \ {1} : SwapGroups(g)
    \/ \E g \in Gens \ {1} : StopReplaced(g)
    \/ \E g \in Gens \ {1} : StoreRegistry(g)

\* Timers fire, a callback that waits for the mutex gets it, and a started
\* handler or reload runs on; nobody has to call or to reload.
Fairness ==
    /\ \A g \in Gens : WF_vars(Fire(g)) /\ WF_vars(Dispatch(g))
    /\ \A g \in Gens \ {1} : WF_vars(StopReplaced(g)) /\ WF_vars(StoreRegistry(g))
    /\ \A h \in Handlers : WF_vars(PublishWholeHouse(h))

Spec == Init /\ [][Next]_vars /\ Fairness

-----------------------------------------------------------------------------
\* Reload k cancelled whatever was pending in the group it replaced.
Stopped(g) == \E k \in Gens \ {1} :
    replaced[k] = g /\ phase[k] \in {"stopped", "stored"}

\* Every variable has its type, and no clean command is empty (vacuum.go:137).
TypeOK ==
    /\ active    \in [Gens -> SUBSET Segments]
    /\ timer     \in [Gens -> Timers \cup {NoTimer}]
    /\ cleaning  \in [Gens -> BOOLEAN]
    /\ running   \in [Gens -> SUBSET Timers]
    /\ fired     \in [Gens -> SUBSET Timers]
    /\ house     \in [Gens -> BOOLEAN]
    /\ robot     \in Commands
    /\ robot.kind = "rooms" => robot.rooms # {}
    /\ call      \in [Handlers -> CallStates]
    /\ found     \in [Handlers -> Gens]
    /\ installed \in Gens
    /\ registry  \in Gens
    /\ phase     \in [Gens -> PhaseStates]
    /\ replaced  \in [Gens -> Gens]

\* A batch is never stranded: while rooms wait, a timer of the group is
\* running or its callback is on its way to the lock, unless a reload
\* stopped the group.  A callback that belongs to an older batch may clear
\* g.timer under a newer one, but it also empties the batch.
NoStrandedBatch ==
    \A g \in Gens : active[g] # {} => running[g] \cup fired[g] # {} \/ Stopped(g)

\* A segment job the robot was sent is known to the group that sent it, or
\* a home command of that group is about to be published: no interleaving
\* of room calls, whole-house calls and stale callbacks lets the group
\* forget a job that nobody stopped.
JobIsKnown ==
    robot.kind = "rooms" =>
        \/ cleaning[robot.by]
        \/ \E h \in Handlers : call[h] = "home" /\ found[h] = robot.by

\* Turning a room off after a job has started stops the robot, when the
\* call reaches the group that started the job and no whole-house command
\* of it is in flight.
RoomOffStopsOwnJob ==
    [][\A h \in Handlers, s \in Segments :
         /\ robot.kind = "rooms"
         /\ robot.by = found[h]
         /\ \A i \in Handlers : call[i] # "home"
         /\ SetRoomOff(h, s)
         => robot'.kind = "home"]_vars

\* WholeHouse "clears any pending per-room batch so a stray segment
\* dispatch can't override it": a group sends a clean command only when the
\* last call it served was a room call, even when a callback was already
\* waiting for the lock.
NoStrayDispatch ==
    [][robot' # robot /\ robot'.kind = "rooms"
         => ~house[robot'.by]]_vars

\* Once the calls stop, the waiting rooms leave the batch (cleaned, or
\* dropped by the reload that stopped the group).
BatchIsServed ==
    \A g \in Gens : []<>(active[g] = {} \/ Stopped(g)) \/ []<><<Call>>_vars

\* vacuum.go:22 "Turning a room off after a job has started stops the robot
\* (home)", whichever group object the call reaches.
RoomOffStopsRobot ==
    [][\A h \in Handlers, s \in Segments :
         /\ robot.kind = "rooms"
         /\ \A i \in Handlers : call[i] = IF i = h THEN "found" ELSE "idle"
         /\ SetRoomOff(h, s)
         => robot'.kind = "home"]_vars

-----------------------------------------------------------------------------
(* The batching as it is promised.                                         *)

\* The whole-house commands whose group was changed but which are not sent.
Owed == {[of |-> h, by |-> found[h], kind |-> call[h]] :
            h \in {i \in Handlers : call[i] \in {"start", "home"}}}

Batches == INSTANCE RoomBatches
    WITH Groups <- Gens, Requests <- Handlers, pending <- active, job <- cleaning, owed <- Owed

\* The timers, the stale callbacks, the gap between WholeHouse's change and
\* its command, and the groups that a reload replaced while calls hold them,
\* never show: every behaviour of the groups is one of RoomBatches.  A batch
\* is sent whole and once, a room that was turned off is not cleaned, and
\* every whole-house command is sent.
ImplementsBatches == Batches!Spec

=============================================================================
