---------------------------- MODULE RoomBatches ----------------------------
(***************************************************************************)
(* What the batching of room toggles promises (the comments of             *)
(* internal/device/vacuum.go), without timers, handlers' progress and      *)
(* reloads: each group collects the rooms that were turned on and not off  *)
(* again, sends them as one clean command or not at all, remembers the job *)
(* until it is stopped, and a whole-house command forgets the batch at     *)
(* once and reaches the robot later.  VacuumGroup implements it.           *)
(***************************************************************************)
CONSTANTS Groups, Segments, Requests

VARIABLES
    pending,    \* the batch of each group
    job,        \* has the group a job to stop
    owed,       \* whole-house commands on their way: [of, by, kind]
    robot       \* the last command the robot received

vars == <<pending, job, owed, robot>>

Command(g, kind, rooms) == [by |-> g, kind |-> kind, rooms |-> rooms]

Init ==
    /\ pending = [g \in Groups |-> {}]
    /\ job = [g \in Groups |-> FALSE]
    /\ owed = {}
    /\ robot \in {Command(g, "home", {}) : g \in Groups}

TurnOn(g, s) ==
    /\ pending' = [pending EXCEPT ![g] = @ \cup {s}]
    /\ UNCHANGED <<job, owed, robot>>

\* Before the job starts the room leaves the batch; afterwards the robot stops.
TurnOff(g, s) ==
    /\ ~job[g]
    /\ pending' = [pending EXCEPT ![g] = @ \ {s}]
    /\ UNCHANGED <<job, owed, robot>>

StopJob(g) ==
    /\ job[g]
    /\ pending' = [pending EXCEPT ![g] = {}]
    /\ job' = [job EXCEPT ![g] = FALSE]
    /\ robot' = Command(g, "home", {})
    /\ UNCHANGED owed

House(r, g, kind) ==
    /\ \A o \in owed : o.of # r
    /\ pending' = [pending EXCEPT ![g] = {}]
    /\ job' = [job EXCEPT ![g] = (kind = "start")]
    /\ owed' = owed \cup {[of |-> r, by |-> g, kind |-> kind]}
    /\ UNCHANGED robot

Deliver(r) ==
    /\ \E o \in owed :
        /\ o.of = r
        /\ owed' = owed \ {o}
        /\ robot' = Command(o.by, o.kind, {})
    /\ UNCHANGED <<pending, job>>

\* The whole batch in one command.
Clean(g) ==
    /\ pending[g] # {}
    /\ robot' = Command(g, "rooms", pending[g])
    /\ pending' = [pending EXCEPT ![g] = {}]
    /\ job' = [job EXCEPT ![g] = TRUE]
    /\ UNCHANGED owed

Next ==
    \/ \E g \in Groups :
        \/ \E s \in Segments : TurnOn(g, s) \/ TurnOff(g, s)
        \/ StopJob(g)
        \/ Clean(g)
        \/ \E r \in Requests, kind \in {"start", "home"} : House(r, g, kind)
    \/ \E r \in Requests : Deliver(r)

Safety == Init /\ [][Next]_vars

Spec == Safety /\ \A r \in Requests : WF_vars(Deliver(r))

=============================================================================
